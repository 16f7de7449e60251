---------------------------- MODULE RetentionProofs ----------------------------
(***************************************************************************)
(* Theorems about AuditTrail and about Playlists, which share what their   *)
(* proofs need of sequences and finite sets.                               *)
(*                                                                         *)
(* AuditTrail, for any events, limits and numbers of failures: an event    *)
(* that was accepted is not lost, and is recorded twice only in doubt; an  *)
(* export during which no row is written or flushed is exact.  What this   *)
(* rests on is where an entry can be.  Those handed out are the beginning  *)
(* of the stream, so that what is read is new (PlacesInv); an entry is     *)
(* worked on, waits in the batch or is forsaken while it is pending        *)
(* (HeldInv); it is acknowledged and deleted after its event has a row or  *)
(* a dead letter (KeptInv); and an event without a doubtful call has one   *)
(* entry, which is out of the worker's way by the time there is something  *)
(* to show for it (DoubtInv).                                              *)
(*                                                                         *)
(* Playlists, for any playlists, contents, slots, requests and limits:     *)
(* a content that is used does not age, one that is not used does, and no  *)
(* playlist is empty, when requests are over that came one at a time; the  *)
(* limits on a playlist break by a stale list and in no other way; and a   *)
(* list comes out as asked.  What this rests on is what a process holds    *)
(* between two statements: ids of items of its playlist, if these are      *)
(* still there (PlaylistsBase); the mark it owes a new use (UsedIsMarked); *)
(* and, when it is alone, what there is (AloneInv).                        *)
(***************************************************************************)
EXTENDS AuditTrail, Playlists, SequenceTheorems, FiniteSetTheorems, TLAPS

-----------------------------------------------------------------------------
(* Sequences                                                               *)

Rest(s, n) == SubSeq(s, n + 1, Len(s))

\* A sequence without repetitions splits into its first n elements and the rest.
LEMMA SplitSeq ==
  ASSUME NEW S, NEW s \in Seq(S), NEW n \in Nat
  PROVE  /\ First(s, n) \in Seq(S) /\ Rest(s, n) \in Seq(S)
         /\ Len(s) \in Nat /\ Len(First(s, n)) \in Nat /\ Len(Rest(s, n)) \in Nat
         /\ Len(First(s, n)) + Len(Rest(s, n)) = Len(s) /\ Len(First(s, n)) <= n
         /\ Len(First(s, n)) = n \/ Len(Rest(s, n)) = 0
         /\ \A i \in 1..Len(First(s, n)) : First(s, n)[i] = s[i]
         /\ \A i \in 1..Len(Rest(s, n)) : Rest(s, n)[i] = s[n + i]
<1>1. Len(s) \in Nat /\ \A i \in 1..Len(s) : s[i] \in S
  BY LenProperties, ElementOfSeq
<1>2. \A i \in (n + 1)..Len(s) : s[i] \in S
  BY <1>1
<1>3. /\ Rest(s, n) \in Seq(S)
      /\ Len(Rest(s, n)) = IF n + 1 <= Len(s) THEN Len(s) - (n + 1) + 1 ELSE 0
      /\ \A i \in 1..(Len(s) - (n + 1) + 1) : Rest(s, n)[i] = s[n + 1 + i - 1]
  <2>1. n + 1 \in Int /\ Len(s) \in Int
    BY <1>1
  <2> QED
    BY <1>2, <2>1, SubSeqProperties DEF Rest
<1>4. /\ Rest(s, n) \in Seq(S)
      /\ Len(Rest(s, n)) = IF Len(s) < n THEN 0 ELSE Len(s) - n
      /\ \A i \in 1..Len(Rest(s, n)) : Rest(s, n)[i] = s[n + i]
  <2>1. Len(s) \in Nat /\ Len(Rest(s, n)) = IF n + 1 <= Len(s) THEN Len(s) - (n + 1) + 1 ELSE 0
    BY <1>1, <1>3
  <2>2. Len(Rest(s, n)) = IF Len(s) < n THEN 0 ELSE Len(s) - n
    BY <2>1
  <2>3. ASSUME NEW i \in 1..Len(Rest(s, n)) PROVE Rest(s, n)[i] = s[n + i]
    <3>1. i \in 1..(Len(s) - (n + 1) + 1) /\ n + 1 + i - 1 = n + i
      BY <2>1
    <3> QED
      BY <1>3, <3>1
  <2> QED
    BY <1>3, <2>2, <2>3
<1>5. CASE Len(s) < n
  <2>1. First(s, n) = s
    BY <1>5 DEF First
  <2>2. Len(Rest(s, n)) = 0
    BY <1>4, <1>5
  <2> QED
    BY <1>1, <1>4, <1>5, <2>1, <2>2
<1>6. CASE ~(Len(s) < n)
  <2>1. \A i \in 1..n : s[i] \in S
    BY <1>1, <1>6
  <2>2. /\ SubSeq(s, 1, n) \in Seq(S)
        /\ Len(SubSeq(s, 1, n)) = IF 1 <= n THEN n - 1 + 1 ELSE 0
        /\ \A i \in 1..(n - 1 + 1) : SubSeq(s, 1, n)[i] = s[1 + i - 1]
    BY <2>1, SubSeqProperties
  <2>3. First(s, n) = SubSeq(s, 1, n)
    BY <1>6 DEF First
  <2>4. Len(First(s, n)) = n /\ \A i \in 1..n : First(s, n)[i] = s[i]
    BY <2>2, <2>3
  <2>5. Len(Rest(s, n)) = Len(s) - n
    BY <1>4, <1>6
  <2>6. n <= Len(s)
    BY <1>1, <1>6
  <2>7. /\ Len(First(s, n)) = n /\ n \in Nat /\ Len(First(s, n)) + Len(Rest(s, n)) = Len(s)
        /\ Len(Rest(s, n)) \in Nat
    BY <1>1, <2>4, <2>5, <2>6
  <2>8. First(s, n) \in Seq(S) /\ \A i \in 1..Len(First(s, n)) : First(s, n)[i] = s[i]
    BY <2>2, <2>3, <2>4
  <2> QED
    BY <1>1, <1>4, <2>7, <2>8
<1> QED
  BY <1>5, <1>6

\* There are n elements in the first part if the sequence has as many.
LEMMA SplitExact ==
  ASSUME NEW S, NEW s \in Seq(S), NEW n \in Nat, n <= Len(s)
  PROVE  Len(First(s, n)) = n /\ Len(Rest(s, n)) = Len(s) - n
<1>1. /\ Len(s) \in Nat /\ Len(First(s, n)) \in Nat /\ Len(Rest(s, n)) \in Nat
      /\ Len(First(s, n)) + Len(Rest(s, n)) = Len(s) /\ Len(First(s, n)) <= n
      /\ Len(First(s, n)) = n \/ Len(Rest(s, n)) = 0
  BY SplitSeq
<1> DEFINE a == Len(First(s, n))
           b == Len(Rest(s, n))
           l == Len(s)
<1> HIDE DEF a, b, l
<1>2. l \in Nat /\ a \in Nat /\ b \in Nat /\ a + b = l /\ a <= n /\ (a = n \/ b = 0) /\ n <= l
  BY <1>1 DEF a, b, l
<1>3. a = n /\ b = l - n
  BY <1>2
<1> QED
  BY <1>3 DEF a, b, l

\* The elements of the two parts, which have none in common.
LEMMA SplitElements ==
  ASSUME NEW S, NEW s \in Seq(S), IsInjective(s), NEW n \in Nat
  PROVE  /\ IsInjective(First(s, n)) /\ IsInjective(Rest(s, n))
         /\ ToSet(s) = ToSet(First(s, n)) \cup ToSet(Rest(s, n))
         /\ ToSet(First(s, n)) \cap ToSet(Rest(s, n)) = {}
<1> DEFINE f == First(s, n)
           r == Rest(s, n)
<1>1. /\ DOMAIN s = 1..Len(s) /\ DOMAIN f = 1..Len(f) /\ DOMAIN r = 1..Len(r)
      /\ Len(s) \in Nat /\ Len(f) \in Nat /\ Len(r) \in Nat
  BY SplitSeq, LenProperties
<1>2. /\ Len(f) + Len(r) = Len(s) /\ Len(f) <= n /\ (Len(f) = n \/ Len(r) = 0)
      /\ \A i \in 1..Len(f) : f[i] = s[i]
      /\ \A i \in 1..Len(r) : r[i] = s[n + i]
  BY SplitSeq
<1> HIDE DEF f, r
<1>0. /\ Len(s) \in Nat /\ Len(f) \in Nat /\ Len(r) \in Nat
      /\ Len(f) + Len(r) = Len(s) /\ Len(f) <= n /\ (Len(f) = n \/ Len(r) = 0)
  BY <1>1, <1>2
<1>3. \A i, j \in 1..Len(s) : s[i] = s[j] => i = j
  BY <1>1 DEF IsInjective
<1>4. \A i \in 1..Len(f) : i \in 1..Len(s)
  BY <1>0
<1>5. ASSUME NEW i \in 1..Len(r) PROVE n + i \in 1..Len(s)
  <2>1. i \in Nat /\ 1 <= i /\ i <= Len(r)
    BY <1>0
  <2>2. Len(f) = n
    BY <1>0, <2>1
  <2> QED
    BY <1>0, <2>1, <2>2
<1>6. IsInjective(f)
  BY <1>1, <1>2, <1>3, <1>4 DEF IsInjective
<1>7. IsInjective(r)
  <2> SUFFICES ASSUME NEW i \in 1..Len(r), NEW j \in 1..Len(r), r[i] = r[j] PROVE i = j
    BY <1>1 DEF IsInjective
  <2>1. n + i = n + j
    BY <1>2, <1>3, <1>5
  <2> QED
    BY <2>1, <1>1
<1>8. ToSet(f) \subseteq ToSet(s) /\ ToSet(r) \subseteq ToSet(s)
  BY <1>1, <1>2, <1>4, <1>5 DEF ToSet
<1>9. ASSUME NEW x \in ToSet(s) PROVE x \in ToSet(f) \cup ToSet(r)
  <2>1. PICK i \in 1..Len(s) : s[i] = x
    BY <1>1 DEF ToSet
  <2>2. CASE i \in 1..Len(f)
    BY <1>1, <1>2, <2>1, <2>2 DEF ToSet
  <2>3. CASE i \notin 1..Len(f)
    <3>1. i - n \in 1..Len(r) /\ n + (i - n) = i
      <4>1. i \in Nat /\ 1 <= i /\ i <= Len(s) /\ i > Len(f)
        BY <1>0, <2>3
      <4>2. Len(f) = n
        BY <1>0, <4>1
      <4> QED
        BY <1>0, <4>1, <4>2
    <3>2. r[i - n] = x
      BY <1>2, <2>1, <3>1
    <3> QED
      BY <1>1, <3>1, <3>2 DEF ToSet
  <2> QED
    BY <2>2, <2>3
<1>10. ASSUME NEW x \in ToSet(f), x \in ToSet(r) PROVE FALSE
  <2>1. PICK i \in 1..Len(f) : f[i] = x
    BY <1>1 DEF ToSet
  <2>2. PICK j \in 1..Len(r) : r[j] = x
    BY <1>1, <1>10 DEF ToSet
  <2>3. i = n + j
    BY <1>2, <1>3, <1>4, <1>5, <2>1, <2>2
  <2>4. i <= n /\ j \in Nat /\ j >= 1
    BY <1>0
  <2> QED
    BY <2>3, <2>4
<1> QED
  BY <1>6, <1>7, <1>8, <1>9, <1>10 DEF f, r

\* A new element at the end.
LEMMA AppendOne ==
  ASSUME NEW S, NEW s \in Seq(S), IsInjective(s), NEW x \in S, x \notin ToSet(s)
  PROVE  /\ Append(s, x) \in Seq(S) /\ IsInjective(Append(s, x))
         /\ Len(Append(s, x)) = Len(s) + 1
         /\ Append(s, x)[Len(s) + 1] = x
         /\ \A i \in 1..Len(s) : Append(s, x)[i] = s[i]
         /\ ToSet(Append(s, x)) = ToSet(s) \cup {x}
<1> DEFINE t == Append(s, x)
<1>1. Len(s) \in Nat /\ DOMAIN s = 1..Len(s)
  BY LenProperties
<1>2. /\ t \in Seq(S) /\ Len(t) = Len(s) + 1 /\ t[Len(s) + 1] = x
      /\ \A i \in 1..Len(s) : t[i] = s[i]
  OBVIOUS
<1>3. DOMAIN t = 1..(Len(s) + 1)
  BY <1>2, LenProperties
<1> HIDE DEF t
<1>4. \A i \in 1..(Len(s) + 1) : i \in 1..Len(s) \/ i = Len(s) + 1
  BY <1>1
<1>5. \A i \in 1..Len(s) : s[i] # x
  BY <1>1 DEF ToSet
<1>6. IsInjective(t)
  BY <1>1, <1>2, <1>3, <1>4, <1>5 DEF IsInjective
<1>7. Len(s) + 1 \in 1..(Len(s) + 1) /\ \A i \in 1..Len(s) : i \in 1..(Len(s) + 1)
  BY <1>1
<1>8. ToSet(t) = ToSet(s) \cup {x}
  BY <1>1, <1>2, <1>3, <1>4, <1>7 DEF ToSet
<1> QED
  BY <1>2, <1>6, <1>8 DEF t

\* How many there are behind the k-th.
LEMMA LengthBehind ==
  ASSUME NEW l \in Nat, NEW k \in 1..l, NEW m, m = IF k + 1 <= l THEN l - (k + 1) + 1 ELSE 0
  PROVE  m = l - k
<1>1. CASE k + 1 <= l
  BY <1>1
<1>2. CASE ~(k + 1 <= l)
  BY <1>2
<1> QED
  BY <1>1, <1>2

\* XDEL: the entry goes, and those behind it move up.
LEMMA RemoveOne ==
  ASSUME NEW S, NEW s \in Seq(S), IsInjective(s), NEW x
  PROVE  /\ RemoveFirst(s, x) \in Seq(S) /\ IsInjective(RemoveFirst(s, x))
         /\ ToSet(RemoveFirst(s, x)) = ToSet(s) \ {x}
         /\ x \notin ToSet(s) => RemoveFirst(s, x) = s
         /\ x \in ToSet(s) => \E k \in 1..Len(s) :
              /\ s[k] = x /\ Len(RemoveFirst(s, x)) = Len(s) - 1
              /\ \A i \in 1..(Len(s) - 1) :
                   RemoveFirst(s, x)[i] = IF i < k THEN s[i] ELSE s[i + 1]
<1> DEFINE t == RemoveFirst(s, x)
<1>1. Len(s) \in Nat /\ DOMAIN s = 1..Len(s) /\ \A i \in 1..Len(s) : s[i] \in S
  BY LenProperties, ElementOfSeq
<1>2. CASE x \notin ToSet(s)
  <2>1. ~\E i \in 1..Len(s) : s[i] = x
    BY <1>1, <1>2 DEF ToSet
  <2>2. t = s
    BY <2>1 DEF RemoveFirst
  <2> QED
    BY <1>2, <2>2
<1>3. CASE x \in ToSet(s)
  <2>1. PICK k \in 1..Len(s) : s[k] = x
    BY <1>1, <1>3 DEF ToSet
  <2>2. \A i \in 1..Len(s) : s[i] = x <=> i = k
    BY <1>1, <2>1 DEF IsInjective
  <2>3. SelectInSeq(s, LAMBDA v : v = x) = k
    <3>1. {i \in 1..Len(s) : s[i] = x} = {k}
      BY <2>2
    <3>2. Min({k}) = k
      BY <2>1 DEF Min
    <3> QED
      BY <3>1, <3>2 DEF SelectInSeq
  <2>4. t = SubSeq(s, 1, k - 1) \o SubSeq(s, k + 1, Len(s))
    BY <2>1, <2>3 DEF RemoveFirst, RemoveAt
  <2>5. /\ SubSeq(s, 1, k - 1) \in Seq(S) /\ Len(SubSeq(s, 1, k - 1)) = k - 1
        /\ \A i \in 1..(k - 1) : SubSeq(s, 1, k - 1)[i] = s[i]
    <3>1. /\ 1 \in Int /\ k - 1 \in Int /\ \A i \in 1..(k - 1) : s[i] \in S
      BY <1>1
    <3>2. /\ SubSeq(s, 1, k - 1) \in Seq(S)
          /\ Len(SubSeq(s, 1, k - 1)) = IF 1 <= k - 1 THEN k - 1 - 1 + 1 ELSE 0
          /\ \A i \in 1..(k - 1 - 1 + 1) : SubSeq(s, 1, k - 1)[i] = s[1 + i - 1]
      BY <3>1, SubSeqProperties
    <3> QED
      BY <3>2, <1>1
  <2>6. /\ SubSeq(s, k + 1, Len(s)) \in Seq(S)
        /\ Len(SubSeq(s, k + 1, Len(s))) = Len(s) - k
        /\ \A i \in 1..(Len(s) - k) : SubSeq(s, k + 1, Len(s))[i] = s[k + i]
    <3>1. /\ k + 1 \in Int /\ Len(s) \in Int /\ \A i \in (k + 1)..Len(s) : s[i] \in S
      BY <1>1
    <3>2. /\ SubSeq(s, k + 1, Len(s)) \in Seq(S)
          /\ Len(SubSeq(s, k + 1, Len(s))) =
               IF k + 1 <= Len(s) THEN Len(s) - (k + 1) + 1 ELSE 0
          /\ \A i \in 1..(Len(s) - (k + 1) + 1) :
               SubSeq(s, k + 1, Len(s))[i] = s[k + 1 + i - 1]
      BY <3>1, SubSeqProperties
    <3> DEFINE b == SubSeq(s, k + 1, Len(s))
    <3> HIDE DEF b
    <3>3. /\ b \in Seq(S) /\ Len(b) = IF k + 1 <= Len(s) THEN Len(s) - (k + 1) + 1 ELSE 0
          /\ \A i \in 1..(Len(s) - (k + 1) + 1) : b[i] = s[k + 1 + i - 1]
      BY <3>2 DEF b
    <3>4. Len(s) \in Nat /\ k \in Nat /\ k <= Len(s) /\ Len(s) - (k + 1) + 1 = Len(s) - k
      BY <1>1
    <3>5. Len(b) = Len(s) - k
      <4>1. Len(b) = IF k + 1 <= Len(s) THEN Len(s) - (k + 1) + 1 ELSE 0
        BY <3>3
      <4> QED
        BY <1>1, <4>1, LengthBehind
    <3>6. ASSUME NEW i \in 1..(Len(s) - k) PROVE b[i] = s[k + i]
      <4>1. k + 1 + i - 1 = k + i
        BY <3>4
      <4> QED
        BY <3>3, <3>4, <4>1
    <3> QED
      BY <3>3, <3>5, <3>6 DEF b
  <2>7. /\ t \in Seq(S) /\ Len(t) = Len(s) - 1
        /\ \A i \in 1..(Len(s) - 1) : t[i] = IF i < k THEN s[i] ELSE s[i + 1]
    <3> DEFINE a == SubSeq(s, 1, k - 1)
               b == SubSeq(s, k + 1, Len(s))
    <3>1. /\ a \o b \in Seq(S) /\ Len(a \o b) = Len(a) + Len(b)
          /\ \A i \in 1..(Len(a) + Len(b)) :
               (a \o b)[i] = IF i <= Len(a) THEN a[i] ELSE b[i - Len(a)]
      BY <2>5, <2>6, ConcatProperties
    <3>4. Len(a) = k - 1 /\ Len(b) = Len(s) - k
      BY <2>5, <2>6
    <3> HIDE DEF a, b
    <3>2. Len(a) + Len(b) = Len(s) - 1 /\ Len(a) = k - 1
      BY <3>4, <1>1
    <3>3. ASSUME NEW i \in 1..(Len(s) - 1)
          PROVE  t[i] = IF i < k THEN s[i] ELSE s[i + 1]
      <4>1. t[i] = IF i <= k - 1 THEN a[i] ELSE b[i - (k - 1)]
        BY <2>4, <3>1, <3>2 DEF a, b
      <4>2. CASE i < k
        <5>1. i \in 1..(k - 1)
          BY <4>2, <1>1
        <5> QED
          BY <4>1, <4>2, <5>1, <2>5 DEF a
      <4>3. CASE ~(i < k)
        <5>1. i - (k - 1) \in 1..(Len(s) - k) /\ k + (i - (k - 1)) = i + 1
          BY <4>3, <1>1
        <5>2. b[i - (k - 1)] = s[i + 1]
          BY <5>1, <2>6 DEF b
        <5> QED
          BY <4>1, <4>3, <5>2, <1>1
      <4> QED
        BY <4>2, <4>3
    <3> QED
      BY <2>4, <3>1, <3>2, <3>3 DEF a, b
  <2>8. DOMAIN t = 1..(Len(s) - 1)
    BY <2>7, LenProperties
  <2> HIDE DEF t
  <2> DEFINE to(i) == IF i < k THEN i ELSE i + 1
  <2>9. /\ \A i \in 1..(Len(s) - 1) : to(i) \in 1..Len(s) \ {k} /\ t[i] = s[to(i)]
        /\ \A i, j \in 1..(Len(s) - 1) : to(i) = to(j) => i = j
    BY <2>7, <1>1
  <2>10. \A j \in 1..Len(s) \ {k} : \E i \in 1..(Len(s) - 1) : to(i) = j
    <3> SUFFICES ASSUME NEW j \in 1..Len(s) \ {k} PROVE \E i \in 1..(Len(s) - 1) : to(i) = j
      OBVIOUS
    <3>1. CASE j < k
      BY <3>1, <1>1
    <3>2. CASE j > k
      <4>1. j - 1 \in 1..(Len(s) - 1) /\ ~(j - 1 < k) /\ (j - 1) + 1 = j
        BY <3>2, <1>1
      <4> QED
        BY <4>1
    <3> QED
      BY <3>1, <3>2
  <2> HIDE DEF to
  <2>11. IsInjective(t)
    BY <1>1, <2>8, <2>9 DEF IsInjective
  <2>12. ToSet(t) = ToSet(s) \ {x}
    <3>1. ToSet(t) \subseteq ToSet(s) \ {x}
      BY <1>1, <2>2, <2>8, <2>9 DEF ToSet
    <3>2. ASSUME NEW y \in ToSet(s) \ {x} PROVE y \in ToSet(t)
      <4>1. PICK j \in 1..Len(s) : s[j] = y
        BY <1>1 DEF ToSet
      <4>2. PICK i \in 1..(Len(s) - 1) : to(i) = j
        BY <2>1, <2>10, <4>1
      <4> QED
        BY <2>8, <2>9, <4>1, <4>2 DEF ToSet
    <3> QED
      BY <3>1, <3>2
  <2> QED
    BY <1>3, <2>1, <2>7, <2>11, <2>12 DEF t
<1> QED
  BY <1>2, <1>3

\* As many entries as there are places for them.
LEMMA ElementsBound ==
  ASSUME NEW S, NEW s \in Seq(S)
  PROVE  IsFiniteSet(ToSet(s)) /\ Cardinality(ToSet(s)) <= Len(s)
<1>1. Len(s) \in Nat /\ DOMAIN s = 1..Len(s) /\ s \in [1..Len(s) -> S]
  BY LenProperties
<1>2. s \in Surjection(1..Len(s), ToSet(s))
  BY <1>1 DEF Surjection, ToSet
<1>3. IsFiniteSet(1..Len(s)) /\ Cardinality(1..Len(s)) = Len(s)
  BY <1>1, FS_Interval
<1> QED
  BY <1>2, <1>3, FS_Surjection


-----------------------------------------------------------------------------
(* What is kept                                                            *)

Asked == [at : {"none", "push", "accepted", "failed"}, tries : 0..MaxPushes]
WorkState == [at : {"record", "ack", "delete", "dead", "dead ack", "dead delete"}, failures : Nat]
Row == Events \X Nat

TypeInv ==
  /\ push \in [Events -> Asked]
  /\ stream \in Seq(Entries) /\ IsInjective(stream)
  /\ pending \subseteq given /\ given \subseteq Entries
  /\ batch \in Seq(Entries) /\ IsInjective(batch)
  /\ hand \in [DOMAIN hand -> WorkState]
  /\ written \in [Events -> Nat]
  /\ rows \in Seq(Row)

\* The attempts of a request are numbered, and the group hands the stream out in order.
Cut(n) == \A i \in 1..Len(stream) : stream[i] \in given <=> i <= n

PlacesInv ==
  /\ \A e \in Events : push[e].at \in {"none", "push"} => push[e].tries < MaxPushes
  /\ \A x \in ToSet(stream) \cup given : x[2] <= push[x[1]].tries
  /\ \E n \in 0..Len(stream) : Cut(n)

\* The worker has what it was handed, each entry once and no more than a chunk of
\* them at work; one it is about to delete is acknowledged.
HeldInv ==
  /\ DOMAIN hand \cup ToSet(batch) \subseteq given
  /\ DOMAIN hand \cap ToSet(batch) = {}
  /\ pending \subseteq DOMAIN hand \cup ToSet(batch) \cup forsaken
  /\ \A x \in DOMAIN hand : hand[x].at \in {"delete", "dead delete"} => x \notin pending
  /\ IsFiniteSet(DOMAIN hand) /\ Cardinality(DOMAIN hand) <= Chunk

\* An event that was accepted keeps an entry until it is settled.
KeptInv ==
  /\ \A e \in Events : push[e].at = "accepted" =>
       Settled(e) \/ e \in trimmed \/ \E x \in ToSet(stream) : x[1] = e
  /\ \A x \in DOMAIN hand :
       /\ hand[x].at \in {"ack", "delete"} => written[x[1]] > 0
       /\ hand[x].at \in {"dead ack", "dead delete"} => x[1] \in dead

Over == {"ack", "delete", "dead ack", "dead delete"}

\* The worker is through with an entry, or will not record its event again.
Through(x) == x \in given \ ToSet(batch) /\ (x \in DOMAIN hand => hand[x].at \in Over)

\* As long as no call of an event was in doubt, it has one entry at most, and a row or
\* a dead letter, not both, only once the worker is through with it.
DoubtInv ==
  \A e \in Events \ unsure :
    /\ \A x, y \in ToSet(stream) \cup given : x[1] = e /\ y[1] = e => x = y
    /\ push[e].at \in {"none", "push"} => \A x \in ToSet(stream) \cup given : x[1] # e
    /\ written[e] <= 1 /\ (written[e] > 0 => e \notin dead)
    /\ Settled(e) => \E x \in given : x[1] = e /\ Through(x)

\* An export that nothing has disturbed has read the newest rows, in their order.
ExportInv ==
  /\ export \in [at : {"none", "pages"}, total : Nat, out : Seq(Row)]
  /\ export.at = "pages" /\ ~moved =>
       /\ export.total = Len(rows) /\ Len(export.out) <= Len(rows)
       /\ \A i \in 1..Len(export.out) : export.out[i] = Reverse(rows)[i]

IInv == TypeInv /\ PlacesInv /\ HeldInv /\ KeptInv /\ DoubtInv

\* What an entry is.
LEMMA EntryType ==
  ASSUME NEW x \in Entries
  PROVE  x[1] \in Events /\ x[2] \in 1..MaxPushes /\ x = <<x[1], x[2]>>
<1> QED
  BY DEF Entries

\* Elements of sequences of entries are entries.
LEMMA ElementTypes ==
  ASSUME TypeInv
  PROVE  /\ ToSet(stream) \subseteq Entries /\ ToSet(batch) \subseteq Entries
         /\ DOMAIN stream = 1..Len(stream) /\ Len(stream) \in Nat
<1>1. stream \in Seq(Entries) /\ batch \in Seq(Entries)
  BY DEF TypeInv
<1>2. /\ Len(stream) \in Nat /\ stream \in [1..Len(stream) -> Entries]
      /\ batch \in [1..Len(batch) -> Entries] /\ DOMAIN stream = 1..Len(stream)
  BY <1>1, LenProperties
<1> QED
  BY <1>2 DEF ToSet

-----------------------------------------------------------------------------
(* The API                                                                 *)

\* A request that begins has no entry, and brings none.
LEMMA EnqueueInv ==
  ASSUME IInv, NEW e \in Events, Enqueue(e)
  PROVE  IInv'
<1> USE DEF queue, group, table, reader
<1>1. /\ push[e].at = "none" /\ push[e] \in Asked
      /\ push' = [push EXCEPT ![e].at = "push"]
      /\ UNCHANGED <<stream, given, pending, batch, hand, written, rows, dead, trimmed,
                     unsure, forsaken>>
  BY DEF Enqueue, IInv, TypeInv
<1>2. /\ push' \in [Events -> Asked]
      /\ push'[e] = [at |-> "push", tries |-> push[e].tries]
      /\ \A f \in Events \ {e} : push'[f] = push[f]
      /\ \A f \in Events : push'[f].tries = push[f].tries
  BY <1>1 DEF IInv, TypeInv, Asked
<1>3. TypeInv'
  BY <1>1, <1>2 DEF IInv, TypeInv, WorkState
<1>4. PlacesInv'
  <2>1. \A x \in ToSet(stream) \cup given : x[1] \in Events
    BY ElementTypes, EntryType DEF IInv, TypeInv
  <2>2. \A f \in Events : push'[f].at \in {"none", "push"} => push[f].at \in {"none", "push"}
    BY <1>1, <1>2
  <2> QED
    BY <1>1, <1>2, <2>1, <2>2 DEF IInv, PlacesInv, Cut
<1>5. HeldInv'
  BY <1>1 DEF IInv, HeldInv
<1>6. KeptInv'
  <2>1. \A f \in Events : push'[f].at = "accepted" => push[f].at = "accepted"
    BY <1>2
  <2> QED
    BY <1>1, <2>1 DEF IInv, KeptInv, Settled
<1>7. DoubtInv'
  <2>1. \A f \in Events : push'[f].at \in {"none", "push"} => push[f].at \in {"none", "push"}
    BY <1>1, <1>2
  <2> QED
    BY <1>1, <2>1 DEF IInv, DoubtInv, Settled, Through
<1> QED
  BY <1>3, <1>4, <1>5, <1>6, <1>7 DEF IInv

\* XADD: the new entry is none there was, and those the cap takes are noted.
LEMMA AddFacts ==
  ASSUME IInv, NEW e \in Events, push[e].at = "push", Add(e),
         NEW x, x = <<e, push[e].tries + 1>>
  PROVE  /\ x \in Entries /\ x \notin ToSet(stream) \cup given
         /\ stream' \in Seq(Entries) /\ IsInjective(stream)'
         /\ ToSet(stream)' \subseteq ToSet(stream) \cup {x}
         /\ \A y \in ToSet(stream) \cup {x} : y \in ToSet(stream)' \/ y[1] \in trimmed'
         /\ trimmed \subseteq trimmed'
         /\ \E n \in 0..Len(stream') : \A i \in 1..Len(stream') : stream'[i] \in given <=> i <= n
<1> DEFINE grown == Append(stream, x)
           over == IF Len(grown) > Capacity THEN Len(grown) - Capacity ELSE 0
<1>1. push[e] \in Asked /\ push[e].tries < MaxPushes /\ MaxPushes \in Nat
  BY AuditAssumption DEF IInv, TypeInv, PlacesInv
<1>2. push[e].tries \in Nat /\ push[e].tries + 1 \in 1..MaxPushes
  BY <1>1 DEF Asked
<1>3. x \in Entries /\ x[1] = e /\ x[2] = push[e].tries + 1
  BY <1>2 DEF Entries
<1>4. x \notin ToSet(stream) \cup given
  BY <1>2, <1>3 DEF IInv, PlacesInv
<1>5. stream \in Seq(Entries) /\ IsInjective(stream) /\ Len(stream) \in Nat
  BY ElementTypes DEF IInv, TypeInv
<1>6. /\ grown \in Seq(Entries) /\ IsInjective(grown)
      /\ Len(grown) = Len(stream) + 1 /\ grown[Len(stream) + 1] = x
      /\ \A i \in 1..Len(stream) : grown[i] = stream[i]
      /\ ToSet(grown) = ToSet(stream) \cup {x}
  BY <1>3, <1>4, <1>5, AppendOne
<1>7. over \in Nat
  BY <1>5, <1>6, AuditAssumption
<1>8. PICK n \in {0, over} : /\ stream' = SubSeq(grown, n + 1, Len(grown))
                             /\ trimmed' = trimmed \cup {grown[i][1] : i \in 1..n}
  BY DEF Add
<1>9. n \in Nat /\ n <= Len(grown)
  BY <1>5, <1>6, <1>7, <1>8, AuditAssumption
<1> HIDE DEF grown, over
<1>10. stream' = Rest(grown, n)
  BY <1>8 DEF Rest
<1>11. /\ stream' \in Seq(Entries) /\ Len(stream') = Len(grown) - n
       /\ Len(First(grown, n)) = n
       /\ \A i \in 1..n : First(grown, n)[i] = grown[i]
       /\ \A i \in 1..Len(stream') : stream'[i] = grown[n + i]
       /\ First(grown, n) \in Seq(Entries)
  <2>1. Len(First(grown, n)) = n /\ Len(Rest(grown, n)) = Len(grown) - n
    BY <1>6, <1>9, SplitExact
  <2>2. /\ First(grown, n) \in Seq(Entries) /\ Rest(grown, n) \in Seq(Entries)
        /\ \A i \in 1..Len(First(grown, n)) : First(grown, n)[i] = grown[i]
        /\ \A i \in 1..Len(Rest(grown, n)) : Rest(grown, n)[i] = grown[n + i]
    BY <1>6, <1>9, SplitSeq
  <2> QED
    BY <1>10, <2>1, <2>2
<1>12. /\ IsInjective(stream)' /\ ToSet(stream)' \subseteq ToSet(grown)
       /\ ToSet(grown) = ToSet(First(grown, n)) \cup ToSet(stream)'
  <2>1. /\ IsInjective(Rest(grown, n))
        /\ ToSet(grown) = ToSet(First(grown, n)) \cup ToSet(Rest(grown, n))
    BY <1>6, <1>9, SplitElements
  <2> QED
    BY <2>1, <1>10
<1>13. \A y \in ToSet(First(grown, n)) : y[1] \in trimmed'
  <2>1. DOMAIN First(grown, n) = 1..n
    BY <1>11, LenProperties
  <2> QED
    BY <1>8, <1>11, <2>1 DEF ToSet
<1>14. \E m \in 0..Len(stream') : \A i \in 1..Len(stream') : stream'[i] \in given <=> i <= m
  <2>1. PICK k \in 0..Len(stream) : Cut(k)
    BY DEF IInv, PlacesInv
  <2>2. ASSUME NEW j \in 1..Len(grown) PROVE grown[j] \in given <=> j <= k
    <3>1. CASE j \in 1..Len(stream)
      BY <1>6, <2>1, <3>1 DEF Cut
    <3>2. CASE j = Len(stream) + 1
      <4>1. grown[j] \notin given
        BY <1>4, <1>6, <3>2
      <4> QED BY <1>5, <2>1, <3>2, <4>1
    <3> QED BY <1>5, <1>6, <3>1, <3>2
  <2> DEFINE m == IF k < n THEN 0 ELSE k - n
  <2>3. m \in 0..Len(stream')
    BY <1>5, <1>6, <1>9, <1>11, <2>1
  <2>4. ASSUME NEW i \in 1..Len(stream') PROVE stream'[i] \in given <=> i <= m
    <3>1. n + i \in 1..Len(grown) /\ stream'[i] = grown[n + i]
      BY <1>5, <1>6, <1>9, <1>11
    <3>2. n + i <= k <=> i <= m
      BY <1>9, <2>1
    <3> QED
      BY <2>2, <3>1, <3>2
  <2> QED
    BY <2>3, <2>4
<1> QED
  BY <1>3, <1>4, <1>6, <1>8, <1>11, <1>12, <1>13, <1>14

\* An attempt to push.
LEMMA PushInv ==
  ASSUME IInv, NEW e \in Events, Push(e)
  PROVE  IInv'
<1> USE DEF queue, group, table, reader
<1> DEFINE x == <<e, push[e].tries + 1>>
<1>1. /\ push[e].at = "push" /\ push[e] \in Asked /\ push[e].tries < MaxPushes
      /\ UNCHANGED <<given, pending, batch, hand, written, rows, dead, forsaken>>
  BY DEF Push, IInv, TypeInv, PlacesInv
<1>2. PICK at \in {"push", "accepted", "failed"} :
        /\ push' = [push EXCEPT ![e] = [at |-> at, tries |-> push[e].tries + 1]]
        /\ at = "push" => push[e].tries + 1 < MaxPushes
        /\ \/ Add(e) /\ (at # "accepted" => unsure' = unsure \cup {e})
                     /\ unsure \subseteq unsure'
           \/ at # "accepted" /\ UNCHANGED <<stream, trimmed, unsure>>
  BY <1>1 DEF Push
<1>3. push[e].tries \in Nat /\ push[e].tries + 1 \in 0..MaxPushes
  BY <1>1, AuditAssumption DEF Asked
<1>4. /\ push' \in [Events -> Asked]
      /\ push'[e] = [at |-> at, tries |-> push[e].tries + 1]
      /\ \A f \in Events \ {e} : push'[f] = push[f]
  BY <1>2, <1>3 DEF IInv, TypeInv, Asked
<1>5. x \in Entries /\ x[1] = e /\ x[2] = push[e].tries + 1
  <2>1. push[e].tries + 1 \in 1..MaxPushes
    BY <1>3
  <2> QED
    BY <2>1 DEF Entries
<1>6. /\ stream' \in Seq(Entries) /\ IsInjective(stream)'
      /\ ToSet(stream)' \subseteq ToSet(stream) \cup {x}
      /\ \A y \in ToSet(stream) : y \in ToSet(stream)' \/ y[1] \in trimmed'
      /\ trimmed \subseteq trimmed'
      /\ \E n \in 0..Len(stream') : \A i \in 1..Len(stream') : stream'[i] \in given <=> i <= n
      /\ at = "accepted" => x \in ToSet(stream)' \/ e \in trimmed'
      /\ e \notin unsure' => at = "accepted" \/ ToSet(stream)' \subseteq ToSet(stream)
      /\ unsure \subseteq unsure'
  <2>1. CASE Add(e)
    BY <1>1, <1>2, <1>5, <2>1, AddFacts
  <2>2. CASE at # "accepted" /\ UNCHANGED <<stream, trimmed, unsure>>
    BY <2>2 DEF IInv, TypeInv, PlacesInv, Cut
  <2> QED
    BY <1>2, <2>1, <2>2
<1> HIDE DEF x
<1>7. \A y \in ToSet(stream) \cup given : y[1] \in Events /\ y[2] \in Nat
  BY ElementTypes, EntryType DEF IInv, TypeInv
<1>8. TypeInv'
  BY <1>1, <1>4, <1>6 DEF IInv, TypeInv, WorkState
<1>9. PlacesInv'
  <2>1. \A f \in Events : push'[f].at \in {"none", "push"} => push'[f].tries < MaxPushes
    BY <1>2, <1>4 DEF IInv, PlacesInv
  <2>2. ASSUME NEW y \in (ToSet(stream) \cup given)' PROVE y[2] <= push'[y[1]].tries
    <3>1. CASE y = x
      BY <3>1, <1>3, <1>4, <1>5
    <3>2. CASE y \in ToSet(stream) \cup given
      <4>1. y[2] <= push[y[1]].tries
        BY <3>2 DEF IInv, PlacesInv
      <4> QED
        BY <4>1, <3>2, <1>3, <1>4, <1>7
    <3> QED
      BY <3>1, <3>2, <1>1, <1>6
  <2>3. \E n \in 0..Len(stream') : Cut(n)'
    BY <1>1, <1>6 DEF Cut
  <2> QED
    BY <2>1, <2>2, <2>3 DEF PlacesInv
<1>10. HeldInv'
  BY <1>1 DEF IInv, HeldInv
<1>11. KeptInv'
  <2>1. ASSUME NEW f \in Events, push'[f].at = "accepted"
        PROVE  Settled(f)' \/ f \in trimmed' \/ \E y \in ToSet(stream)' : y[1] = f
    <3>1. CASE f = e
      BY <3>1, <2>1, <1>4, <1>5, <1>6
    <3>2. CASE f # e
      <4>1. Settled(f) \/ f \in trimmed \/ \E y \in ToSet(stream) : y[1] = f
        BY <3>2, <2>1, <1>4 DEF IInv, KeptInv
      <4> QED
        BY <4>1, <1>1, <1>6 DEF Settled
    <3> QED
      BY <3>1, <3>2
  <2> QED
    BY <2>1, <1>1 DEF IInv, KeptInv
<1>12. DoubtInv'
  <2> SUFFICES ASSUME NEW f \in Events \ unsure'
               PROVE  /\ \A y, z \in (ToSet(stream) \cup given)' : y[1] = f /\ z[1] = f => y = z
                      /\ push'[f].at \in {"none", "push"} =>
                           \A y \in (ToSet(stream) \cup given)' : y[1] # f
                      /\ written'[f] <= 1 /\ (written'[f] > 0 => f \notin dead')
                      /\ Settled(f)' => \E y \in given' : y[1] = f /\ Through(y)'
    BY DEF DoubtInv
  <2>1. f \in Events \ unsure
    BY <1>6
  <2>2. /\ \A y, z \in ToSet(stream) \cup given : y[1] = f /\ z[1] = f => y = z
        /\ push[f].at \in {"none", "push"} => \A y \in ToSet(stream) \cup given : y[1] # f
        /\ written[f] <= 1 /\ (written[f] > 0 => f \notin dead)
        /\ Settled(f) => \E y \in given : y[1] = f /\ Through(y)
    BY <2>1 DEF IInv, DoubtInv
  <2>3. Settled(f)' => \E y \in given' : y[1] = f /\ Through(y)'
    BY <2>2, <1>1 DEF Settled, Through
  <2>4. CASE f # e
    BY <2>2, <2>3, <2>4, <1>1, <1>4, <1>5, <1>6
  <2>5. CASE f = e
    <3>1. \A y \in ToSet(stream) \cup given : y[1] # e
      BY <2>2, <2>5, <1>1
    <3> QED
      BY <3>1, <2>2, <2>3, <2>5, <1>1, <1>4, <1>5, <1>6
  <2> QED
    BY <2>4, <2>5
<1> QED
  BY <1>8, <1>9, <1>10, <1>11, <1>12 DEF IInv

\* A crash of the API ends the attempts.
LEMMA CrashApiInv ==
  ASSUME IInv, CrashApi
  PROVE  IInv'
<1> USE DEF queue, group, table, reader
<1>1. UNCHANGED <<stream, given, pending, batch, hand, written, rows, dead, trimmed, unsure,
                  forsaken>>
  BY DEF CrashApi
<1>2. /\ push' \in [Events -> Asked]
      /\ \A f \in Events : /\ push'[f].tries = push[f].tries
                           /\ push'[f].at # push[f].at => push'[f].at = "failed"
  BY DEF CrashApi, IInv, TypeInv, Asked
<1>3. TypeInv'
  BY <1>1, <1>2 DEF IInv, TypeInv, WorkState
<1>4. PlacesInv'
  <2>1. \A x \in ToSet(stream) \cup given : x[1] \in Events
    BY ElementTypes, EntryType DEF IInv, TypeInv
  <2> QED
    BY <1>1, <1>2, <2>1 DEF IInv, PlacesInv, Cut
<1>5. HeldInv'
  BY <1>1 DEF IInv, HeldInv
<1>6. KeptInv'
  BY <1>1, <1>2 DEF IInv, KeptInv, Settled
<1>7. DoubtInv'
  BY <1>1, <1>2 DEF IInv, DoubtInv, Settled, Through
<1> QED
  BY <1>3, <1>4, <1>5, <1>6, <1>7 DEF IInv

-----------------------------------------------------------------------------
(* The worker reads                                                        *)

\* What is read was not handed out before, and continues what was.
LEMMA FreshFacts ==
  ASSUME IInv, NEW read, read = First(Fresh, Batch)
  PROVE  /\ read \in Seq(Entries) /\ IsInjective(read)
         /\ ToSet(read) \subseteq ToSet(stream) /\ ToSet(read) \cap given = {}
         /\ \E n \in 0..Len(stream) :
              \A i \in 1..Len(stream) : stream[i] \in given \cup ToSet(read) <=> i <= n
<1>1. /\ stream \in Seq(Entries) /\ IsInjective(stream) /\ Len(stream) \in Nat
      /\ DOMAIN stream = 1..Len(stream)
  BY ElementTypes DEF IInv, TypeInv
<1>2. PICK n \in 0..Len(stream) : Cut(n) /\ Fresh = Rest(stream, n)
  <2> DEFINE last == CHOOSE n \in 0..Len(stream) :
                       \A i \in DOMAIN stream : stream[i] \in given <=> i <= n
  <2>1. \E n \in 0..Len(stream) : \A i \in DOMAIN stream : stream[i] \in given <=> i <= n
    BY <1>1 DEF IInv, PlacesInv, Cut
  <2>2. last \in 0..Len(stream) /\ \A i \in DOMAIN stream : stream[i] \in given <=> i <= last
    BY <2>1
  <2>3. Fresh = Rest(stream, last)
    BY DEF Fresh, Rest
  <2> HIDE DEF last
  <2> QED
    BY <1>1, <2>2, <2>3 DEF Cut
<1> DEFINE fresh == Rest(stream, n)
<1>3. /\ fresh \in Seq(Entries) /\ IsInjective(fresh) /\ ToSet(fresh) \subseteq ToSet(stream)
      /\ Len(fresh) = Len(stream) - n /\ \A i \in 1..Len(fresh) : fresh[i] = stream[n + i]
  <2>1. n \in Nat /\ n <= Len(stream)
    BY <1>1
  <2>2. Len(fresh) = Len(stream) - n
    BY <1>1, <2>1, SplitExact
  <2>3. fresh \in Seq(Entries) /\ \A i \in 1..Len(fresh) : fresh[i] = stream[n + i]
    BY <1>1, <2>1, SplitSeq
  <2>4. IsInjective(fresh) /\ ToSet(fresh) \subseteq ToSet(stream)
    BY <1>1, <2>1, SplitElements
  <2> QED
    BY <2>2, <2>3, <2>4
<1>4. Batch \in Nat
  BY AuditAssumption
<1> HIDE DEF fresh
<1>5. /\ read \in Seq(Entries) /\ IsInjective(read) /\ ToSet(read) \subseteq ToSet(fresh)
      /\ Len(read) <= Len(fresh) /\ Len(read) \in Nat
      /\ \A i \in 1..Len(read) : read[i] = fresh[i]
  <2>1. read = First(fresh, Batch)
    BY <1>2 DEF fresh
  <2>2. /\ First(fresh, Batch) \in Seq(Entries)
        /\ Len(fresh) \in Nat /\ Len(First(fresh, Batch)) \in Nat
        /\ Len(Rest(fresh, Batch)) \in Nat
        /\ Len(First(fresh, Batch)) + Len(Rest(fresh, Batch)) = Len(fresh)
        /\ \A i \in 1..Len(First(fresh, Batch)) : First(fresh, Batch)[i] = fresh[i]
    BY <1>3, <1>4, SplitSeq
  <2>3. IsInjective(First(fresh, Batch)) /\ ToSet(First(fresh, Batch)) \subseteq ToSet(fresh)
    BY <1>3, <1>4, SplitElements
  <2>4. Len(read) <= Len(fresh)
    BY <2>1, <2>2
  <2> QED
    BY <2>1, <2>2, <2>3, <2>4
<1>6. Len(read) \in Nat /\ DOMAIN read = 1..Len(read) /\ Len(read) <= Len(stream) - n
  <2>1. DOMAIN read = 1..Len(read)
    BY <1>5, LenProperties
  <2> QED
    BY <1>3, <1>5, <2>1
<1>7. ASSUME NEW j \in 1..Len(read)
      PROVE  n + j \in 1..Len(stream) /\ read[j] = stream[n + j] /\ ~(n + j <= n)
  <2>1. j \in 1..Len(fresh)
    BY <1>1, <1>3, <1>5
  <2> QED
    BY <2>1, <1>1, <1>3, <1>5, <1>6
<1>8. ToSet(read) \cap given = {}
  BY <1>2, <1>6, <1>7 DEF ToSet, Cut
<1>9. ASSUME NEW i \in 1..Len(stream)
      PROVE  stream[i] \in given \cup ToSet(read) <=> i <= n + Len(read)
  <2>1. stream[i] \in given <=> i <= n
    BY <1>2 DEF Cut
  <2>2. ASSUME n < i, i <= n + Len(read) PROVE stream[i] \in ToSet(read)
    <3>1. i - n \in 1..Len(read) /\ n + (i - n) = i
      BY <2>2, <1>6
    <3>2. read[i - n] = stream[i]
      BY <3>1, <1>7
    <3> QED
      BY <3>1, <3>2, <1>6 DEF ToSet
  <2>3. ASSUME stream[i] \in ToSet(read) PROVE i <= n + Len(read)
    <3>1. PICK j \in 1..Len(read) : read[j] = stream[i]
      BY <2>3, <1>6 DEF ToSet
    <3>2. i = n + j
      BY <3>1, <1>1, <1>7 DEF IsInjective
    <3> QED
      BY <3>2, <1>6
  <2> QED
    BY <2>1, <2>2, <2>3, <1>6
<1>10. n + Len(read) \in 0..Len(stream)
  BY <1>1, <1>6
<1> QED
  BY <1>3, <1>5, <1>8, <1>9, <1>10

\* Entries are handed out, and the reply gets lost or not.
LEMMA ReadEntriesInv ==
  ASSUME IInv, ReadEntries
  PROVE  IInv'
<1> USE DEF queue, group, table, reader
<1> DEFINE read == First(Fresh, Batch)
<1>1. /\ batch = <<>> /\ DOMAIN hand = {}
      /\ given' = given \cup ToSet(read) /\ pending' = pending \cup ToSet(read)
      /\ \/ batch' = read /\ forsaken' = forsaken
         \/ forsaken' = forsaken \cup ToSet(read) /\ batch' = batch
      /\ UNCHANGED <<push, stream, hand, written, rows, dead, trimmed, unsure>>
  BY DEF ReadEntries
<1>2. /\ read \in Seq(Entries) /\ IsInjective(read)
      /\ ToSet(read) \subseteq ToSet(stream) /\ ToSet(read) \cap given = {}
      /\ \E n \in 0..Len(stream) :
           \A i \in 1..Len(stream) : stream[i] \in given \cup ToSet(read) <=> i <= n
  BY FreshFacts
<1> HIDE DEF read
<1>3. ToSet(batch) = {}
  BY <1>1 DEF ToSet
<1>4. /\ ToSet(stream) \subseteq Entries
      /\ (ToSet(stream) \cup given)' = ToSet(stream) \cup given
  BY <1>1, <1>2, ElementTypes DEF IInv
<1>5. TypeInv'
  <2>1. batch' \in Seq(Entries) /\ IsInjective(batch)'
    BY <1>1, <1>2 DEF IInv, TypeInv
  <2>2. pending' \subseteq given' /\ given' \subseteq Entries
    BY <1>1, <1>2, <1>4 DEF IInv, TypeInv
  <2> QED
    BY <1>1, <2>1, <2>2 DEF IInv, TypeInv, Asked, WorkState
<1>6. PlacesInv'
  <2>1. \E n \in 0..Len(stream') : Cut(n)'
    BY <1>1, <1>2 DEF Cut
  <2> QED
    BY <1>1, <1>4, <2>1 DEF IInv, PlacesInv
<1>7. HeldInv'
  <2>1. ToSet(batch)' = ToSet(read) \/ (ToSet(batch)' = {} /\ ToSet(read) \subseteq forsaken')
    BY <1>1, <1>3
  <2>2. pending \subseteq forsaken /\ forsaken \subseteq forsaken'
    BY <1>1, <1>3 DEF IInv, HeldInv
  <2> QED
    BY <1>1, <2>1, <2>2 DEF IInv, HeldInv
<1>8. KeptInv'
  BY <1>1 DEF IInv, KeptInv, Settled
<1>9. DoubtInv'
  <2>1. \A x \in given : Through(x) => x \in given' /\ Through(x)'
    <3>1. \A x \in given : x \notin ToSet(batch)'
      BY <1>1, <1>2, <1>3
    <3> QED
      BY <1>1, <3>1 DEF Through
  <2> QED
    BY <1>1, <1>4, <2>1 DEF IInv, DoubtInv, Settled
<1> QED
  BY <1>5, <1>6, <1>7, <1>8, <1>9 DEF IInv

\* The first entries of the batch are begun.
LEMMA BeginChunkInv ==
  ASSUME IInv, BeginChunk
  PROVE  IInv'
<1> USE DEF queue, group, table, reader
<1> DEFINE f == First(batch, Chunk)
           r == Rest(batch, Chunk)
<1>1. /\ DOMAIN hand = {} /\ hand' = [x \in ToSet(f) |-> Work("record", 0)] /\ batch' = r
      /\ UNCHANGED <<push, stream, given, pending, written, rows, dead, trimmed, unsure,
                     forsaken>>
  BY DEF BeginChunk, Rest
<1>2. Chunk \in Nat /\ batch \in Seq(Entries) /\ IsInjective(batch)
  BY AuditAssumption DEF IInv, TypeInv
<1>3. /\ f \in Seq(Entries) /\ r \in Seq(Entries) /\ IsInjective(r)
      /\ ToSet(batch) = ToSet(f) \cup ToSet(r) /\ ToSet(f) \cap ToSet(r) = {}
      /\ Len(f) <= Chunk /\ Len(f) \in Nat
  <2>1. f \in Seq(Entries) /\ r \in Seq(Entries) /\ Len(f) <= Chunk /\ Len(f) \in Nat
    BY <1>2, SplitSeq
  <2>2. /\ IsInjective(r)
        /\ ToSet(batch) = ToSet(f) \cup ToSet(r) /\ ToSet(f) \cap ToSet(r) = {}
    BY <1>2, SplitElements
  <2> QED
    BY <2>1, <2>2
<1>4. IsFiniteSet(ToSet(f)) /\ Cardinality(ToSet(f)) <= Chunk
  <2>1. IsFiniteSet(ToSet(f)) /\ Cardinality(ToSet(f)) <= Len(f)
    BY <1>3, ElementsBound
  <2>2. Cardinality(ToSet(f)) \in Nat /\ Len(batch) \in Nat
    BY <2>1, <1>2, FS_CardinalityType, LenProperties
  <2> QED
    BY <2>1, <2>2, <1>2, <1>3
<1> HIDE DEF f, r
<1>5. /\ DOMAIN hand' = ToSet(f) /\ ToSet(batch)' = ToSet(r)
      /\ \A x \in DOMAIN hand' : hand'[x].at = "record" /\ hand'[x] \in WorkState
  BY <1>1 DEF Work, WorkState
<1>6. TypeInv'
  BY <1>1, <1>3, <1>5 DEF IInv, TypeInv, Asked
<1>7. PlacesInv'
  BY <1>1 DEF IInv, PlacesInv, Cut
<1>8. HeldInv'
  BY <1>1, <1>3, <1>4, <1>5 DEF IInv, HeldInv
<1>9. KeptInv'
  BY <1>1, <1>5 DEF IInv, KeptInv, Settled
<1>10. DoubtInv'
  <2>1. \A x \in given : Through(x) => Through(x)'
    BY <1>1, <1>3, <1>5 DEF Through
  <2> QED
    BY <1>1, <2>1 DEF IInv, DoubtInv, Settled
<1> QED
  BY <1>6, <1>7, <1>8, <1>9, <1>10 DEF IInv

\* A worker that dies drops what it has; what of it is pending is forsaken.
LEMMA CrashWorkerInv ==
  ASSUME IInv, CrashWorker
  PROVE  IInv'
<1> USE DEF queue, group, table, reader
<1>1. /\ hand' = [x \in {} |-> 0] /\ batch' = <<>>
      /\ forsaken' = forsaken \cup (pending \cap (DOMAIN hand \cup ToSet(batch)))
      /\ UNCHANGED <<push, stream, given, pending, written, rows, dead, trimmed, unsure>>
  BY DEF CrashWorker
<1>2. DOMAIN hand' = {} /\ ToSet(batch)' = {} /\ hand' \in [DOMAIN hand' -> WorkState]
  BY <1>1 DEF ToSet
<1>3. TypeInv'
  <2>1. batch' \in Seq(Entries) /\ IsInjective(batch)'
    BY <1>1 DEF IsInjective
  <2> QED
    BY <1>1, <1>2, <2>1 DEF IInv, TypeInv, Asked
<1>4. PlacesInv'
  BY <1>1 DEF IInv, PlacesInv, Cut
<1>5. HeldInv'
  <2>1. IsFiniteSet(DOMAIN hand') /\ Cardinality(DOMAIN hand') = 0
    BY <1>2, FS_EmptySet
  <2>2. Chunk \in Nat
    BY AuditAssumption
  <2>3. Cardinality(DOMAIN hand') <= Chunk
    BY <2>1, <2>2
  <2>4. pending' \subseteq DOMAIN hand' \cup ToSet(batch)' \cup forsaken'
    BY <1>1 DEF IInv, HeldInv
  <2> QED
    BY <1>1, <1>2, <2>1, <2>3, <2>4 DEF HeldInv
<1>6. KeptInv'
  BY <1>1, <1>2 DEF IInv, KeptInv, Settled
<1>7. DoubtInv'
  <2>1. \A x \in given : Through(x)'
    BY <1>1, <1>2 DEF Through
  <2> QED
    BY <1>1, <2>1 DEF IInv, DoubtInv, Settled
<1> QED
  BY <1>3, <1>4, <1>5, <1>6, <1>7 DEF IInv

-----------------------------------------------------------------------------
(* The worker works                                                        *)

Moved(x, w) == hand' = [hand EXCEPT ![x] = w]

\* An entry at work goes on to something else, or the work on it ends.
LEMMA HandFacts ==
  ASSUME IInv, NEW x \in DOMAIN hand,
         (\E w \in WorkState : Moved(x, w)) \/ Finish(x)
  PROVE  /\ hand' \in [DOMAIN hand' -> WorkState]
         /\ DOMAIN hand' \subseteq DOMAIN hand /\ DOMAIN hand \ {x} \subseteq DOMAIN hand'
         /\ \A y \in DOMAIN hand \ {x} : hand'[y] = hand[y]
         /\ \A w : Moved(x, w) => x \in DOMAIN hand' /\ hand'[x] = w
         /\ Finish(x) => x \notin DOMAIN hand'
         /\ IsFiniteSet(DOMAIN hand') /\ Cardinality(DOMAIN hand') <= Chunk
<1>1. hand \in [DOMAIN hand -> WorkState]
  BY DEF IInv, TypeInv
<1>2. /\ hand' \in [DOMAIN hand' -> WorkState]
      /\ DOMAIN hand' \subseteq DOMAIN hand /\ DOMAIN hand \ {x} \subseteq DOMAIN hand'
      /\ \A y \in DOMAIN hand \ {x} : hand'[y] = hand[y]
      /\ \A w : Moved(x, w) => x \in DOMAIN hand' /\ hand'[x] = w
      /\ Finish(x) => x \notin DOMAIN hand'
  <2>1. CASE \E w \in WorkState : Moved(x, w)
    <3>1. PICK w \in WorkState : hand' = [hand EXCEPT ![x] = w]
      BY <2>1 DEF Moved
    <3>2. DOMAIN hand' = DOMAIN hand /\ hand'[x] = w /\ hand' \in [DOMAIN hand -> WorkState]
      BY <3>1, <1>1
    <3>3. \A v : Moved(x, v) => hand'[x] = v
      BY <1>1 DEF Moved
    <3>4. ~Finish(x)
      <4>1. DOMAIN [y \in DOMAIN hand \ {x} |-> hand[y]] = DOMAIN hand \ {x}
        OBVIOUS
      <4> QED
        BY <4>1, <3>2 DEF Finish
    <3> QED
      BY <3>1, <3>2, <3>3, <3>4
  <2>2. CASE Finish(x)
    <3>1. DOMAIN hand' = DOMAIN hand \ {x} /\ \A y \in DOMAIN hand \ {x} : hand'[y] = hand[y]
      BY <2>2 DEF Finish
    <3>2. \A w : ~Moved(x, w)
      <4>1. \A w : DOMAIN [hand EXCEPT ![x] = w] = DOMAIN hand
        BY <1>1
      <4> QED
        BY <4>1, <3>1 DEF Moved
    <3>3. hand' \in [DOMAIN hand' -> WorkState]
      BY <1>1, <2>2, <3>1 DEF Finish
    <3> QED
      BY <3>1, <3>2, <3>3
  <2> QED
    BY <2>1, <2>2
<1>3. /\ IsFiniteSet(DOMAIN hand) /\ Cardinality(DOMAIN hand) <= Chunk
      /\ Cardinality(DOMAIN hand) \in Nat /\ Chunk \in Nat
  BY AuditAssumption, FS_CardinalityType DEF IInv, HeldInv
<1>4. IsFiniteSet(DOMAIN hand') /\ Cardinality(DOMAIN hand') <= Cardinality(DOMAIN hand)
  BY <1>2, <1>3, FS_Subset
<1>5. Cardinality(DOMAIN hand') \in Nat
  BY <1>4, FS_CardinalityType
<1> QED
  BY <1>2, <1>3, <1>4, <1>5

\* The two ways on: to the next of a row of calls, and back to the start.
LEMMA MoveFacts ==
  ASSUME IInv, NEW x \in DOMAIN hand
  PROVE  /\ \A s \in {"ack", "delete", "dead ack", "dead delete"} : Then(x, s) =>
              \E w \in WorkState : w.at = s /\ Moved(x, w)
         /\ Again(x) => \E w \in WorkState : w.at \in {"record", "dead"} /\ Moved(x, w)
<1>1. hand[x] \in WorkState /\ hand[x].failures \in Nat
  BY DEF IInv, TypeInv, WorkState
<1>2. ASSUME NEW s \in {"ack", "delete", "dead ack", "dead delete"}, Then(x, s)
      PROVE  \E w \in WorkState : w.at = s /\ Moved(x, w)
  <2>1. [hand[x] EXCEPT !.at = s] \in WorkState /\ [hand[x] EXCEPT !.at = s].at = s
    BY <1>1 DEF WorkState
  <2>2. Moved(x, [hand[x] EXCEPT !.at = s])
    BY <1>2 DEF Then, Moved
  <2> QED
    BY <2>1, <2>2
<1>3. ASSUME Again(x)
      PROVE  \E w \in WorkState : w.at \in {"record", "dead"} /\ Moved(x, w)
  <2> DEFINE n == hand[x].failures + 1
             w == Work(IF n < MaxDeliveries THEN "record" ELSE "dead", n)
  <2>1. w \in WorkState /\ w.at \in {"record", "dead"}
    <3>1. n \in Nat
      BY <1>1
    <3> HIDE DEF n
    <3> QED
      BY <3>1 DEF Work, WorkState
  <2>2. Moved(x, w)
    BY <1>3 DEF Again, Moved
  <2> QED
    BY <2>1, <2>2
<1> QED
  BY <1>2, <1>3

\* Before it is recorded or sent to the dead letters, an event without a doubtful call
\* has neither.
LEMMA NotSettled ==
  ASSUME IInv, NEW x \in DOMAIN hand, hand[x].at \in {"record", "dead"}, x[1] \notin unsure
  PROVE  written[x[1]] = 0 /\ x[1] \notin dead
<1>1. x \in given /\ x[1] \in Events
  BY EntryType DEF IInv, TypeInv, HeldInv
<1>2. ~Settled(x[1])
  <2> SUFFICES ASSUME Settled(x[1]) PROVE FALSE
    OBVIOUS
  <2>1. PICK y \in given : y[1] = x[1] /\ Through(y)
    BY <1>1 DEF IInv, DoubtInv
  <2>2. y = x
    BY <1>1, <2>1 DEF IInv, DoubtInv
  <2> QED
    BY <2>1, <2>2 DEF Through, Over
<1>3. written[x[1]] \in Nat
  BY <1>1 DEF IInv, TypeInv
<1> QED
  BY <1>2, <1>3 DEF Settled

\* A row is written.
LEMMA InsertFacts ==
  ASSUME IInv, NEW e \in Events, Insert(e)
  PROVE  /\ rows' \in Seq(Row) /\ written' \in [Events -> Nat]
         /\ written'[e] = written[e] + 1 /\ written'[e] > 0
         /\ \A f \in Events \ {e} : written'[f] = written[f]
<1>1. rows \in Seq(Row) /\ written \in [Events -> Nat] /\ written[e] + 1 \in Nat
  BY DEF IInv, TypeInv
<1>2. <<e, written[e] + 1>> \in Row
  BY <1>1 DEF Row
<1> QED
  BY <1>1, <1>2 DEF Insert

\* What the steps of the work on an entry have in common: the other entries and the
\* other events stay as they are, and nothing that is settled is undone.
Worked(x) ==
  /\ UNCHANGED <<push, given, batch, trimmed>>
  /\ pending' \in {pending, pending \ {x}}
  /\ (\E w \in WorkState : Moved(x, w)) \/ Finish(x)
  /\ rows' \in Seq(Row) /\ written' \in [Events -> Nat]
  /\ \A e \in Events \ {x[1]} : written'[e] = written[e] /\ (e \in dead' <=> e \in dead)
  /\ written'[x[1]] >= written[x[1]] /\ dead \subseteq dead'
  /\ unsure \subseteq unsure' /\ forsaken \subseteq forsaken'

\* A row that was written stays written.
LEMMA WorkedWritten ==
  ASSUME IInv, NEW x \in DOMAIN hand, Worked(x)
  PROVE  \A e \in Events : written[e] > 0 => written'[e] > 0
<1> SUFFICES ASSUME NEW e \in Events PROVE written[e] > 0 => written'[e] > 0
  OBVIOUS
<1>1. written[e] \in Nat /\ written'[e] \in Nat
  BY DEF Worked, IInv, TypeInv
<1>2. written'[e] >= written[e]
  BY <1>1 DEF Worked
<1> QED
  BY <1>1, <1>2

\* Types and places, after such a step that leaves the stream alone or deletes the entry.
LEMMA WorkedPlaces ==
  ASSUME IInv, NEW x \in DOMAIN hand, Worked(x), stream' \in {stream, RemoveFirst(stream, x)}
  PROVE  /\ TypeInv' /\ PlacesInv'
         /\ ToSet(stream)' \subseteq ToSet(stream) /\ ToSet(stream) \ {x} \subseteq ToSet(stream)'
<1>1. /\ stream \in Seq(Entries) /\ IsInjective(stream) /\ Len(stream) \in Nat
      /\ x \in given
  BY ElementTypes DEF IInv, TypeInv, HeldInv
<1>2. UNCHANGED <<push, given, batch>>
  BY DEF Worked
<1>3. /\ stream' \in Seq(Entries) /\ IsInjective(stream)'
      /\ ToSet(stream)' \subseteq ToSet(stream) /\ ToSet(stream) \ {x} \subseteq ToSet(stream)'
  <2>1. CASE stream' = stream
    BY <1>1, <2>1
  <2>2. CASE stream' = RemoveFirst(stream, x)
    <3>1. /\ RemoveFirst(stream, x) \in Seq(Entries) /\ IsInjective(RemoveFirst(stream, x))
          /\ ToSet(RemoveFirst(stream, x)) = ToSet(stream) \ {x}
      BY <1>1, RemoveOne
    <3> QED
      BY <2>2, <3>1
  <2> QED
    BY <2>1, <2>2
<1>4. TypeInv'
  <2>1. hand' \in [DOMAIN hand' -> WorkState]
    BY HandFacts DEF Worked
  <2>2. pending' \subseteq given
    BY DEF Worked, IInv, TypeInv
  <2> QED
    BY <1>2, <1>3, <2>1, <2>2 DEF Worked, IInv, TypeInv, Asked
<1>5. \E n \in 0..Len(stream') : Cut(n)'
  <2>1. PICK n \in 0..Len(stream) : Cut(n)
    BY DEF IInv, PlacesInv
  <2>2. CASE stream' = stream
    BY <1>2, <2>1, <2>2 DEF Cut
  <2>3. CASE x \in ToSet(stream) /\ stream' = RemoveFirst(stream, x)
    <3>1. PICK k \in 1..Len(stream) :
            /\ stream[k] = x /\ Len(stream') = Len(stream) - 1
            /\ \A i \in 1..(Len(stream) - 1) :
                 stream'[i] = IF i < k THEN stream[i] ELSE stream[i + 1]
      BY <1>1, <2>3, RemoveOne
    <3>2. k <= n
      BY <1>1, <2>1, <3>1 DEF Cut
    <3>3. n - 1 \in 0..Len(stream')
      BY <1>1, <2>1, <3>1, <3>2
    <3>4. ASSUME NEW i \in 1..Len(stream') PROVE stream'[i] \in given <=> i <= n - 1
      <4>1. CASE i < k
        <5>1. i \in 1..Len(stream) /\ stream'[i] = stream[i] /\ i <= n - 1
          BY <4>1, <1>1, <2>1, <3>1, <3>2
        <5>2. stream[i] \in given <=> i <= n
          BY <5>1, <2>1 DEF Cut
        <5> QED
          BY <5>1, <5>2, <2>1
      <4>2. CASE ~(i < k)
        <5>1. i + 1 \in 1..Len(stream) /\ stream'[i] = stream[i + 1]
          BY <4>2, <1>1, <3>1
        <5>2. stream[i + 1] \in given <=> i + 1 <= n
          BY <5>1, <2>1 DEF Cut
        <5> QED
          BY <5>1, <5>2, <2>1, <3>1
      <4> QED
        BY <4>1, <4>2
    <3> QED
      BY <1>2, <3>3, <3>4 DEF Cut
  <2>4. x \notin ToSet(stream) => RemoveFirst(stream, x) = stream
    BY <1>1, RemoveOne
  <2> QED
    BY <2>2, <2>3, <2>4
<1>6. PlacesInv'
  BY <1>2, <1>3, <1>5 DEF IInv, PlacesInv
<1> QED
  BY <1>3, <1>4, <1>6

\* What the worker has stays in order if an entry whose work ends is not pending or
\* forsaken, and one about to be deleted is acknowledged.
LEMMA WorkedHeld ==
  ASSUME IInv, NEW x \in DOMAIN hand, Worked(x),
         Finish(x) => x \notin pending' \/ x \in forsaken',
         \A w : Moved(x, w) /\ w.at \in {"delete", "dead delete"} => x \notin pending'
  PROVE  HeldInv'
<1>1. /\ hand' \in [DOMAIN hand' -> WorkState]
      /\ DOMAIN hand' \subseteq DOMAIN hand /\ DOMAIN hand \ {x} \subseteq DOMAIN hand'
      /\ \A y \in DOMAIN hand \ {x} : hand'[y] = hand[y]
      /\ \A w : Moved(x, w) => x \in DOMAIN hand' /\ hand'[x] = w
      /\ Finish(x) => x \notin DOMAIN hand'
      /\ IsFiniteSet(DOMAIN hand') /\ Cardinality(DOMAIN hand') <= Chunk
  BY HandFacts DEF Worked
<1>2. /\ UNCHANGED <<given, batch>> /\ pending' \subseteq pending /\ forsaken \subseteq forsaken'
      /\ (\E w \in WorkState : Moved(x, w)) \/ Finish(x)
  BY DEF Worked
<1>3. pending' \subseteq DOMAIN hand' \cup ToSet(batch) \cup forsaken'
  BY <1>1, <1>2 DEF IInv, HeldInv
<1>4. \A y \in DOMAIN hand' : hand'[y].at \in {"delete", "dead delete"} => y \notin pending'
  <2> SUFFICES ASSUME NEW y \in DOMAIN hand', hand'[y].at \in {"delete", "dead delete"}
               PROVE  y \notin pending'
    OBVIOUS
  <2>1. CASE y = x
    BY <2>1, <1>1, <1>2
  <2>2. CASE y # x
    BY <2>2, <1>1, <1>2 DEF IInv, HeldInv
  <2> QED
    BY <2>1, <2>2
<1> QED
  BY <1>1, <1>2, <1>3, <1>4 DEF IInv, HeldInv

\* Nothing accepted is lost if the entry is still there or its event is settled, and an
\* entry past its row or dead letter has it.
LEMMA WorkedKept ==
  ASSUME IInv, NEW x \in DOMAIN hand, Worked(x),
         ToSet(stream)' \subseteq ToSet(stream), ToSet(stream) \ {x} \subseteq ToSet(stream)',
         x \in ToSet(stream)' \/ x \notin ToSet(stream) \/ Settled(x[1])',
         \A w : Moved(x, w) => /\ w.at \in {"ack", "delete"} => written'[x[1]] > 0
                               /\ w.at \in {"dead ack", "dead delete"} => x[1] \in dead'
  PROVE  KeptInv'
<1>1. /\ DOMAIN hand' \subseteq DOMAIN hand
      /\ \A y \in DOMAIN hand \ {x} : hand'[y] = hand[y]
      /\ \A w : Moved(x, w) => x \in DOMAIN hand' /\ hand'[x] = w
      /\ Finish(x) => x \notin DOMAIN hand'
  BY HandFacts DEF Worked
<1>2. /\ UNCHANGED <<push, trimmed>> /\ dead \subseteq dead'
      /\ written \in [Events -> Nat] /\ written' \in [Events -> Nat]
      /\ \A e \in Events \ {x[1]} : written'[e] = written[e]
      /\ written'[x[1]] >= written[x[1]]
      /\ (\E w \in WorkState : Moved(x, w)) \/ Finish(x)
  BY DEF Worked, IInv, TypeInv
<1>3. \A y \in DOMAIN hand : y[1] \in Events
  BY EntryType DEF IInv, TypeInv, HeldInv
<1>4. \A e \in Events : written[e] > 0 => written'[e] > 0
  BY WorkedWritten
<1>5. \A e \in Events : Settled(e) => Settled(e)'
  BY <1>2, <1>4 DEF Settled
<1>6. ASSUME NEW e \in Events, push'[e].at = "accepted"
      PROVE  Settled(e)' \/ e \in trimmed' \/ \E y \in ToSet(stream)' : y[1] = e
  <2>1. CASE Settled(e) \/ e \in trimmed
    BY <2>1, <1>2, <1>5
  <2>2. CASE \E y \in ToSet(stream) : y[1] = e
    BY <2>2
  <2> QED
    BY <1>2, <1>6, <2>1, <2>2 DEF IInv, KeptInv
<1>7. ASSUME NEW y \in DOMAIN hand'
      PROVE  /\ hand'[y].at \in {"ack", "delete"} => written'[y[1]] > 0
             /\ hand'[y].at \in {"dead ack", "dead delete"} => y[1] \in dead'
  <2>1. CASE y = x
    BY <2>1, <1>1, <1>2
  <2>2. CASE y # x
    <3>1. hand'[y] = hand[y] /\ y \in DOMAIN hand /\ y[1] \in Events
      BY <2>2, <1>1, <1>3
    <3> QED
      BY <3>1, <1>2, <1>4 DEF IInv, KeptInv
  <2> QED
    BY <2>1, <2>2
<1> QED
  BY <1>6, <1>7 DEF KeptInv

\* No doubt comes of a step that leaves its event in doubt, or leaves it with a row or a
\* dead letter at most and, if so, the worker through with the entry.
LEMMA WorkedDoubt ==
  ASSUME IInv, NEW x \in DOMAIN hand, Worked(x),
         ToSet(stream)' \subseteq ToSet(stream),
         x[1] \notin unsure' =>
           /\ written'[x[1]] <= 1 /\ (written'[x[1]] > 0 => x[1] \notin dead')
           /\ Settled(x[1])' => Through(x)'
  PROVE  DoubtInv'
<1>1. /\ DOMAIN hand' \subseteq DOMAIN hand
      /\ \A y \in DOMAIN hand \ {x} : hand'[y] = hand[y]
  BY HandFacts DEF Worked
<1>2. /\ UNCHANGED <<push, given, batch>> /\ unsure \subseteq unsure'
      /\ \A e \in Events \ {x[1]} : written'[e] = written[e] /\ (e \in dead' <=> e \in dead)
      /\ (ToSet(stream) \cup given)' \subseteq ToSet(stream) \cup given
      /\ x \in given
  BY DEF Worked, IInv, HeldInv
<1> SUFFICES ASSUME NEW e \in Events \ unsure'
             PROVE  /\ \A y, z \in (ToSet(stream) \cup given)' : y[1] = e /\ z[1] = e => y = z
                    /\ push'[e].at \in {"none", "push"} =>
                         \A y \in (ToSet(stream) \cup given)' : y[1] # e
                    /\ written'[e] <= 1 /\ (written'[e] > 0 => e \notin dead')
                    /\ Settled(e)' => \E y \in given' : y[1] = e /\ Through(y)'
  BY DEF DoubtInv
<1>3. e \in Events \ unsure
  BY <1>2
<1>4. /\ \A y, z \in ToSet(stream) \cup given : y[1] = e /\ z[1] = e => y = z
      /\ push[e].at \in {"none", "push"} => \A y \in ToSet(stream) \cup given : y[1] # e
      /\ written[e] <= 1 /\ (written[e] > 0 => e \notin dead)
      /\ Settled(e) => \E y \in given : y[1] = e /\ Through(y)
  BY <1>3 DEF IInv, DoubtInv
<1>5. CASE e = x[1]
  BY <1>5, <1>2, <1>4
<1>6. CASE e # x[1]
  <2>1. Settled(e)' => \E y \in given' : y[1] = e /\ Through(y)'
    <3> SUFFICES ASSUME Settled(e)' PROVE \E y \in given' : y[1] = e /\ Through(y)'
      OBVIOUS
    <3>1. Settled(e)
      BY <1>2, <1>3, <1>6 DEF Settled
    <3>2. PICK y \in given : y[1] = e /\ Through(y)
      BY <3>1, <1>4
    <3>3. y # x
      BY <3>2, <1>6
    <3> QED
      BY <3>2, <3>3, <1>1, <1>2 DEF Through
  <2> QED
    BY <2>1, <1>2, <1>3, <1>4, <1>6
<1> QED
  BY <1>5, <1>6

\* The event of an entry at work.
LEMMA HandType ==
  ASSUME IInv, NEW x \in DOMAIN hand
  PROVE  x[1] \in Events /\ x \in given \ ToSet(batch) /\ written[x[1]] \in Nat
<1> QED
  BY EntryType DEF IInv, TypeInv, HeldInv

\* An acknowledgement, a deletion or a dead letter writes no row.
LEMMA WorkedUnwritten ==
  ASSUME IInv, NEW x \in DOMAIN hand,
         UNCHANGED <<push, given, batch, rows, written, trimmed>>,
         pending' \in {pending, pending \ {x}},
         (\E w \in WorkState : Moved(x, w)) \/ Finish(x),
         dead' \in {dead, dead \cup {x[1]}},
         unsure \subseteq unsure', forsaken \subseteq forsaken'
  PROVE  Worked(x)
<1>1. rows' \in Seq(Row) /\ written' \in [Events -> Nat]
  BY DEF IInv, TypeInv
<1>2. written'[x[1]] >= written[x[1]]
  BY HandType
<1>3. \A e \in Events \ {x[1]} : written'[e] = written[e] /\ (e \in dead' <=> e \in dead)
  OBVIOUS
<1> QED
  BY <1>1, <1>2, <1>3 DEF Worked

\* An event is recorded, refused, or a call fails before or after its effect.
LEMMA RecordInv ==
  ASSUME IInv, NEW x \in DOMAIN hand, Record(x)
  PROVE  IInv'
<1> USE DEF queue, group, table, reader
<1> DEFINE e == x[1]
<1>1. e \in Events /\ x \in given \ ToSet(batch) /\ written[e] \in Nat
  BY HandType
<1>2. /\ hand[x].at = "record"
      /\ UNCHANGED <<push, stream, given, pending, batch, dead, trimmed, forsaken>>
      /\ \/ Insert(e) /\ Then(x, "ack") /\ unsure' = unsure
         \/ Again(x) /\ UNCHANGED <<rows, written, unsure>>
         \/ Again(x) /\ Insert(e) /\ unsure' = unsure \cup {e}
  BY DEF Record, At, Doubt
<1>3. PICK w \in WorkState :
        /\ Moved(x, w)
        /\ \/ Insert(e) /\ w.at = "ack" /\ unsure' = unsure
           \/ w.at \in {"record", "dead"} /\ UNCHANGED <<rows, written, unsure>>
           \/ w.at \in {"record", "dead"} /\ Insert(e) /\ unsure' = unsure \cup {e}
  BY <1>2, MoveFacts
<1>4. /\ rows' \in Seq(Row) /\ written' \in [Events -> Nat]
      /\ \A f \in Events \ {e} : written'[f] = written[f]
      /\ written'[e] \in {written[e], written[e] + 1}
      /\ Insert(e) => written'[e] = written[e] + 1 /\ written'[e] > 0
  <2>1. CASE Insert(e)
    BY <1>1, <2>1, InsertFacts
  <2>2. CASE UNCHANGED <<rows, written>>
    <3>1. ~Insert(e)
      <4>1. written[e] # written[e] + 1
        BY <1>1
      <4> QED
        BY <4>1, <2>2, <1>1 DEF Insert, IInv, TypeInv
    <3> QED
      BY <2>2, <3>1 DEF IInv, TypeInv
  <2> QED
    BY <1>3, <2>1, <2>2
<1>5. written'[e] >= written[e]
  BY <1>1, <1>4
<1> HIDE DEF e
<1>6. Worked(x)
  BY <1>2, <1>3, <1>4, <1>5 DEF Worked, e
<1>7. /\ TypeInv' /\ PlacesInv'
      /\ ToSet(stream)' \subseteq ToSet(stream) /\ ToSet(stream) \ {x} \subseteq ToSet(stream)'
  BY <1>2, <1>6, WorkedPlaces
<1>8. /\ \A v : Moved(x, v) => x \in DOMAIN hand' /\ hand'[x] = v
      /\ Finish(x) => x \notin DOMAIN hand'
  BY <1>6, HandFacts DEF Worked
<1>9. /\ ~Finish(x) /\ \A v : Moved(x, v) => v = w
  BY <1>3, <1>8
<1>10. HeldInv'
  BY <1>3, <1>6, <1>9, WorkedHeld
<1>11. KeptInv'
  BY <1>2, <1>3, <1>4, <1>6, <1>7, <1>9, WorkedKept DEF e
<1>12. DoubtInv'
  <2>1. ASSUME e \notin unsure'
        PROVE  /\ written'[e] <= 1 /\ (written'[e] > 0 => e \notin dead')
               /\ Settled(e)' => Through(x)'
    <3>1. written[e] = 0 /\ e \notin dead
      BY <1>2, <1>3, <2>1, NotSettled DEF e
    <3>2. CASE Insert(e) /\ w.at = "ack"
      <4>1. Through(x)'
        BY <1>1, <1>2, <1>3, <1>8, <3>2 DEF Through, Over
      <4> QED
        BY <1>2, <1>4, <3>1, <3>2, <4>1
    <3>3. CASE UNCHANGED <<rows, written, unsure>>
      BY <1>2, <3>1, <3>3 DEF Settled
    <3> QED
      BY <1>3, <2>1, <3>2, <3>3
  <2> QED
    BY <1>6, <1>7, <2>1, WorkedDoubt DEF e
<1> QED
  BY <1>7, <1>10, <1>11, <1>12 DEF IInv

\* After a failed acknowledgement or deletion the entry starts over or is forsaken, and
\* its event is in doubt.
LEMMA FailFacts ==
  ASSUME IInv, NEW x \in DOMAIN hand, hand[x].at \in Over, Fail(x)
  PROVE  /\ unsure' = unsure \cup {x[1]} /\ forsaken \subseteq forsaken'
         /\ \/ \E w \in WorkState : w.at \in {"record", "dead"} /\ Moved(x, w)
            \/ Finish(x) /\ x \in forsaken'
<1>1. CASE Again(x) /\ UNCHANGED forsaken
  BY <1>1, MoveFacts DEF Fail, Doubt
<1>2. CASE Finish(x) /\ forsaken' = forsaken \cup {x}
  BY <1>2 DEF Fail, Doubt
<1> QED
  BY <1>1, <1>2 DEF Fail

\* An entry is acknowledged.
LEMMA AckInv ==
  ASSUME IInv, NEW x \in DOMAIN hand, Ack(x)
  PROVE  IInv'
<1> USE DEF queue, group, table, reader
<1>1. x[1] \in Events /\ x \in given \ ToSet(batch) /\ written[x[1]] \in Nat
  BY HandType
<1>2. /\ hand[x].at \in {"ack", "dead ack"}
      /\ UNCHANGED <<push, stream, given, batch, rows, written, dead, trimmed>>
      /\ \/ /\ pending' = pending \ {x} /\ UNCHANGED <<unsure, forsaken>>
            /\ Then(x, IF hand[x].at = "ack" THEN "delete" ELSE "dead delete")
         \/ Fail(x) /\ pending' \in {pending, pending \ {x}}
  BY DEF Ack, At
<1>3. \/ /\ pending' = pending \ {x} /\ UNCHANGED <<unsure, forsaken>>
         /\ \E w \in WorkState : /\ w.at = IF hand[x].at = "ack" THEN "delete" ELSE "dead delete"
                                 /\ Moved(x, w)
      \/ /\ pending' \in {pending, pending \ {x}} /\ x[1] \in unsure' /\ unsure \subseteq unsure'
         /\ forsaken \subseteq forsaken'
         /\ \/ \E w \in WorkState : w.at \in {"record", "dead"} /\ Moved(x, w)
            \/ Finish(x) /\ x \in forsaken'
  <2>1. CASE Fail(x) /\ pending' \in {pending, pending \ {x}}
    BY <1>2, <2>1, FailFacts DEF Over
  <2>2. CASE /\ pending' = pending \ {x} /\ UNCHANGED <<unsure, forsaken>>
             /\ Then(x, IF hand[x].at = "ack" THEN "delete" ELSE "dead delete")
    BY <2>2, MoveFacts
  <2> QED
    BY <1>2, <2>1, <2>2
<1>4. Worked(x)
  <2>1. (\E w \in WorkState : Moved(x, w)) \/ Finish(x)
    BY <1>3
  <2>2. unsure \subseteq unsure' /\ forsaken \subseteq forsaken'
    BY <1>2, <1>3
  <2>3. pending' \in {pending, pending \ {x}} /\ dead' \in {dead, dead \cup {x[1]}}
    BY <1>2, <1>3
  <2> QED
    BY <1>2, <2>1, <2>2, <2>3, WorkedUnwritten
<1>5. /\ TypeInv' /\ PlacesInv'
      /\ ToSet(stream)' \subseteq ToSet(stream) /\ ToSet(stream) \ {x} \subseteq ToSet(stream)'
  BY <1>2, <1>4, WorkedPlaces
<1>6. /\ \A v : Moved(x, v) => x \in DOMAIN hand' /\ hand'[x] = v
      /\ Finish(x) => x \notin DOMAIN hand'
  BY <1>4, HandFacts DEF Worked
<1>7. HeldInv'
  <2>1. Finish(x) => x \notin pending' \/ x \in forsaken'
    BY <1>3, <1>6
  <2>2. ASSUME NEW w, Moved(x, w), w.at \in {"delete", "dead delete"} PROVE x \notin pending'
    BY <1>3, <1>6, <2>2 DEF Moved
  <2> QED
    BY <1>4, <2>1, <2>2, WorkedHeld
<1>8. KeptInv'
  <2>1. /\ hand[x].at = "ack" => written'[x[1]] > 0
        /\ hand[x].at = "dead ack" => x[1] \in dead'
    BY <1>2 DEF IInv, KeptInv
  <2>2. ASSUME NEW w, Moved(x, w)
        PROVE  /\ w.at \in {"ack", "delete"} => written'[x[1]] > 0
               /\ w.at \in {"dead ack", "dead delete"} => x[1] \in dead'
    <3>1. ~Finish(x)
      BY <1>6, <2>2
    <3>2. PICK v \in WorkState :
            /\ Moved(x, v)
            /\ \/ v.at = IF hand[x].at = "ack" THEN "delete" ELSE "dead delete"
               \/ v.at \in {"record", "dead"}
      BY <1>3, <3>1
    <3>3. v = w
      BY <1>6, <2>2, <3>2 DEF Moved
    <3> QED
      BY <1>2, <2>1, <3>2, <3>3
  <2> QED
    BY <1>2, <1>4, <1>5, <2>2, WorkedKept
<1>9. DoubtInv'
  <2>1. ASSUME x[1] \notin unsure'
        PROVE  /\ written'[x[1]] <= 1 /\ (written'[x[1]] > 0 => x[1] \notin dead')
               /\ Settled(x[1])' => Through(x)'
    <3>1. x[1] \notin unsure
      BY <1>3, <2>1
    <3>2. written[x[1]] <= 1 /\ (written[x[1]] > 0 => x[1] \notin dead)
      BY <1>1, <3>1 DEF IInv, DoubtInv
    <3>3. Through(x)'
      BY <1>1, <1>2, <1>3, <1>6, <2>1 DEF Through, Over
    <3> QED
      BY <1>2, <3>2, <3>3
  <2> QED
    BY <1>4, <1>5, <2>1, WorkedDoubt
<1> QED
  BY <1>5, <1>7, <1>8, <1>9 DEF IInv

\* An entry is deleted.
LEMMA DeleteInv ==
  ASSUME IInv, NEW x \in DOMAIN hand, Delete(x)
  PROVE  IInv'
<1> USE DEF queue, group, table, reader
<1>1. x[1] \in Events /\ x \in given \ ToSet(batch) /\ written[x[1]] \in Nat
  BY HandType
<1>2. /\ hand[x].at \in {"delete", "dead delete"}
      /\ UNCHANGED <<push, given, pending, batch, rows, written, dead, trimmed>>
      /\ stream' \in {stream, RemoveFirst(stream, x)}
      /\ \/ Finish(x) /\ UNCHANGED <<unsure, forsaken>>
         \/ Fail(x)
  BY DEF Delete, At
<1>3. \/ Finish(x) /\ UNCHANGED <<unsure, forsaken>>
      \/ /\ x[1] \in unsure' /\ unsure \subseteq unsure' /\ forsaken \subseteq forsaken'
         /\ \/ \E w \in WorkState : w.at \in {"record", "dead"} /\ Moved(x, w)
            \/ Finish(x)
  BY <1>2, FailFacts DEF Over
<1>4. Worked(x)
  <2>1. (\E w \in WorkState : Moved(x, w)) \/ Finish(x)
    BY <1>3
  <2>2. unsure \subseteq unsure' /\ forsaken \subseteq forsaken'
    BY <1>2, <1>3
  <2>3. pending' \in {pending, pending \ {x}} /\ dead' \in {dead, dead \cup {x[1]}}
    BY <1>2, <1>3
  <2> QED
    BY <1>2, <2>1, <2>2, <2>3, WorkedUnwritten
<1>5. /\ TypeInv' /\ PlacesInv'
      /\ ToSet(stream)' \subseteq ToSet(stream) /\ ToSet(stream) \ {x} \subseteq ToSet(stream)'
  BY <1>2, <1>4, WorkedPlaces
<1>6. /\ \A v : Moved(x, v) => x \in DOMAIN hand' /\ hand'[x] = v
      /\ Finish(x) => x \notin DOMAIN hand'
  BY <1>4, HandFacts DEF Worked
<1>7. x \notin pending'
  BY <1>2 DEF IInv, HeldInv
<1>8. HeldInv'
  BY <1>4, <1>7, WorkedHeld
<1>9. KeptInv'
  <2>1. Settled(x[1])'
    BY <1>2 DEF IInv, KeptInv, Settled
  <2>2. \A w : Moved(x, w) => w.at \in {"record", "dead"}
    BY <1>3, <1>6
  <2> QED
    BY <1>4, <1>5, <2>1, <2>2, WorkedKept
<1>10. DoubtInv'
  <2>1. ASSUME x[1] \notin unsure'
        PROVE  /\ written'[x[1]] <= 1 /\ (written'[x[1]] > 0 => x[1] \notin dead')
               /\ Settled(x[1])' => Through(x)'
    <3>1. x[1] \notin unsure /\ x \notin DOMAIN hand'
      BY <1>3, <1>6, <2>1
    <3>2. written[x[1]] <= 1 /\ (written[x[1]] > 0 => x[1] \notin dead)
      BY <1>1, <3>1 DEF IInv, DoubtInv
    <3> QED
      BY <1>1, <1>2, <3>1, <3>2 DEF Through
  <2> QED
    BY <1>4, <1>5, <2>1, WorkedDoubt
<1> QED
  BY <1>5, <1>8, <1>9, <1>10 DEF IInv

\* An event goes to the dead letters, or its entry stays pending.
LEMMA DeadLetterInv ==
  ASSUME IInv, NEW x \in DOMAIN hand, DeadLetter(x)
  PROVE  IInv'
<1> USE DEF queue, group, table, reader
<1>1. x[1] \in Events /\ x \in given \ ToSet(batch) /\ written[x[1]] \in Nat
  BY HandType
<1>2. /\ hand[x].at = "dead" /\ dead' \in {dead, dead \cup {x[1]}}
      /\ UNCHANGED <<push, stream, given, pending, batch, rows, written, trimmed, unsure>>
      /\ \/ dead' = dead \cup {x[1]} /\ Then(x, "dead ack") /\ UNCHANGED forsaken
         \/ Finish(x) /\ forsaken' = forsaken \cup {x}
  BY DEF DeadLetter, At
<1>3. \/ /\ dead' = dead \cup {x[1]} /\ UNCHANGED forsaken
         /\ \E w \in WorkState : w.at = "dead ack" /\ Moved(x, w)
      \/ Finish(x) /\ forsaken' = forsaken \cup {x}
  BY <1>2, MoveFacts
<1>4. Worked(x)
  <2>1. (\E w \in WorkState : Moved(x, w)) \/ Finish(x)
    BY <1>3
  <2>2. unsure \subseteq unsure' /\ forsaken \subseteq forsaken'
    BY <1>2, <1>3
  <2>3. pending' \in {pending, pending \ {x}} /\ dead' \in {dead, dead \cup {x[1]}}
    BY <1>2, <1>3
  <2> QED
    BY <1>2, <2>1, <2>2, <2>3, WorkedUnwritten
<1>5. /\ TypeInv' /\ PlacesInv'
      /\ ToSet(stream)' \subseteq ToSet(stream) /\ ToSet(stream) \ {x} \subseteq ToSet(stream)'
  BY <1>2, <1>4, WorkedPlaces
<1>6. /\ \A v : Moved(x, v) => x \in DOMAIN hand' /\ hand'[x] = v
      /\ Finish(x) => x \notin DOMAIN hand'
  BY <1>4, HandFacts DEF Worked
<1>7. HeldInv'
  <2>1. Finish(x) => x \notin pending' \/ x \in forsaken'
    BY <1>3, <1>6
  <2>2. ASSUME NEW w, Moved(x, w), w.at \in {"delete", "dead delete"} PROVE x \notin pending'
    BY <1>3, <1>6, <2>2 DEF Moved
  <2> QED
    BY <1>4, <2>1, <2>2, WorkedHeld
<1>8. KeptInv'
  <2>1. ASSUME NEW w, Moved(x, w) PROVE w.at = "dead ack" /\ x[1] \in dead'
    <3>1. ~Finish(x)
      BY <1>6, <2>1
    <3>2. PICK v \in WorkState : v.at = "dead ack" /\ Moved(x, v) /\ x[1] \in dead'
      BY <1>3, <3>1
    <3> QED
      BY <1>6, <2>1, <3>2 DEF Moved
  <2> QED
    BY <1>2, <1>4, <1>5, <2>1, WorkedKept
<1>9. DoubtInv'
  <2>1. ASSUME x[1] \notin unsure'
        PROVE  /\ written'[x[1]] <= 1 /\ (written'[x[1]] > 0 => x[1] \notin dead')
               /\ Settled(x[1])' => Through(x)'
    <3>1. written'[x[1]] = 0
      BY <1>2, <2>1, NotSettled
    <3>2. Through(x)'
      BY <1>1, <1>2, <1>3, <1>6 DEF Through, Over
    <3> QED
      BY <3>1, <3>2
  <2> QED
    BY <1>4, <1>5, <2>1, WorkedDoubt
<1> QED
  BY <1>5, <1>7, <1>8, <1>9 DEF IInv

-----------------------------------------------------------------------------
(* The rows                                                                *)

\* What is done to the rows touches nothing of the above.
LEMMA RowsInv ==
  ASSUME IInv, Flush \/ BeginExport \/ ReadPage
  PROVE  IInv'
<1> USE DEF queue, group, table, reader
<1>1. UNCHANGED <<push, stream, given, pending, batch, hand, written, dead, trimmed, unsure,
                  forsaken>>
  BY DEF Flush, BeginExport, ReadPage
<1>2. rows \in Seq(Row)
  BY DEF IInv, TypeInv
<1>3. rows' \in Seq(Row)
  <2>1. CASE Flush
    <3>1. PICK n \in 1..Len(rows) : rows' = Rest(rows, n)
      BY <2>1 DEF Flush, Rest
    <3>2. n \in Nat
      BY <1>2, LenProperties
    <3> QED
      BY <1>2, <3>1, <3>2, SplitSeq
  <2>2. CASE BeginExport \/ ReadPage
    BY <1>2, <2>2 DEF BeginExport, ReadPage
  <2> QED
    BY <2>1, <2>2
<1>4. TypeInv'
  BY <1>1, <1>3 DEF IInv, TypeInv, Asked, WorkState
<1>5. PlacesInv' /\ HeldInv'
  BY <1>1 DEF IInv, PlacesInv, Cut, HeldInv
<1>6. KeptInv'
  BY <1>1 DEF IInv, KeptInv, Settled
<1>7. DoubtInv'
  BY <1>1 DEF IInv, DoubtInv, Settled, Through
<1> QED
  BY <1>4, <1>5, <1>6, <1>7 DEF IInv

-----------------------------------------------------------------------------
(* What is always so                                                       *)

\* Nothing has happened.
LEMMA InitInv ==
  ASSUME Init
  PROVE  IInv
<1>1. /\ push = [e \in Events |-> [at |-> "none", tries |-> 0]]
      /\ stream = <<>> /\ given = {} /\ pending = {} /\ batch = <<>> /\ hand = [x \in {} |-> 0]
      /\ rows = <<>> /\ written = [e \in Events |-> 0] /\ dead = {}
  BY DEF Init
<1>2. /\ DOMAIN hand = {} /\ ToSet(stream) = {} /\ ToSet(batch) = {}
      /\ Len(stream) = 0
  BY <1>1 DEF ToSet
<1>3. MaxPushes \in Nat /\ 0 < MaxPushes /\ Chunk \in Nat
  BY AuditAssumption
<1>4. TypeInv
  <2>1. /\ push \in [Events -> Asked] /\ written \in [Events -> Nat]
        /\ hand \in [DOMAIN hand -> WorkState]
    BY <1>1, <1>2, <1>3 DEF Asked
  <2>2. /\ stream \in Seq(Entries) /\ batch \in Seq(Entries) /\ rows \in Seq(Row)
        /\ IsInjective(stream) /\ IsInjective(batch)
    BY <1>1 DEF IsInjective
  <2> QED
    BY <1>1, <2>1, <2>2 DEF TypeInv
<1>5. PlacesInv
  <2>1. Cut(0) /\ 0 \in 0..Len(stream)
    BY <1>2 DEF Cut
  <2> QED
    BY <1>1, <1>2, <1>3, <2>1 DEF PlacesInv
<1>6. HeldInv
  <2>1. IsFiniteSet(DOMAIN hand) /\ Cardinality(DOMAIN hand) = 0
    BY <1>2, FS_EmptySet
  <2>2. Cardinality(DOMAIN hand) <= Chunk
    BY <1>3, <2>1
  <2> QED
    BY <1>1, <1>2, <2>1, <2>2 DEF HeldInv
<1>7. KeptInv
  BY <1>1, <1>2 DEF KeptInv
<1>8. DoubtInv
  BY <1>1, <1>2 DEF DoubtInv, Settled
<1> QED
  BY <1>4, <1>5, <1>6, <1>7, <1>8 DEF IInv

\* Every step keeps it.
LEMMA StepInv ==
  ASSUME IInv, [Next]_vars
  PROVE  IInv'
<1>1. CASE \E e \in Events : Enqueue(e) \/ Push(e)
  BY <1>1, EnqueueInv, PushInv
<1>2. CASE CrashApi
  BY <1>2, CrashApiInv
<1>3. CASE ReadEntries \/ BeginChunk \/ CrashWorker
  BY <1>3, ReadEntriesInv, BeginChunkInv, CrashWorkerInv
<1>4. CASE \E x \in DOMAIN hand : Process(x)
  BY <1>4, RecordInv, AckInv, DeleteInv, DeadLetterInv DEF Process
<1>5. CASE Flush \/ BeginExport \/ ReadPage
  BY <1>5, RowsInv
<1>6. CASE UNCHANGED vars
  <2>1. UNCHANGED <<push, stream, given, pending, batch, hand, rows, written, dead, trimmed,
                    unsure, forsaken>>
    BY <1>6 DEF vars
  <2>2. TypeInv'
    BY <2>1 DEF IInv, TypeInv, Asked, WorkState
  <2>3. PlacesInv' /\ HeldInv'
    BY <2>1 DEF IInv, PlacesInv, Cut, HeldInv
  <2>4. KeptInv' /\ DoubtInv'
    BY <2>1 DEF IInv, KeptInv, DoubtInv, Settled, Through
  <2> QED
    BY <2>2, <2>3, <2>4 DEF IInv
<1> QED
  BY <1>1, <1>2, <1>3, <1>4, <1>5, <1>6 DEF Next

\* However pushes, chunks, failures and crashes meet, an event that was accepted is on
\* the stream until it has a row or a dead letter, unless the cap took it, and has two
\* rows, or a row and a dead letter, only if a call of it failed after it had its effect
\* (RedisAuditQueue, processEntry).
THEOREM TrailIsKept == Spec => []Inv
<1>1. IInv => Inv
  <2> SUFFICES ASSUME IInv PROVE Inv
    OBVIOUS
  <2>1. TypeOK
    <3>1. ToSet(stream) \subseteq Entries
      BY ElementTypes DEF IInv
    <3>2. \A e \in Events : push[e] \in Asked
      BY DEF IInv, TypeInv
    <3> QED
      BY <3>1, <3>2 DEF TypeOK, IInv, TypeInv, HeldInv, Asked
  <2>2. AcceptedIsKept
    BY DEF AcceptedIsKept, IInv, KeptInv
  <2>3. TwiceOnlyInDoubt
    <3> SUFFICES ASSUME NEW e \in Events \ unsure
                 PROVE  ~(written[e] > 1) /\ ~(written[e] > 0 /\ e \in dead)
      BY DEF TwiceOnlyInDoubt
    <3>1. written[e] \in Nat /\ written[e] <= 1 /\ (written[e] > 0 => e \notin dead)
      BY DEF IInv, TypeInv, DoubtInv
    <3> QED
      BY <3>1
  <2> QED
    BY <2>1, <2>2, <2>3 DEF Inv
<1> QED
  BY InitInv, StepInv, <1>1, PTL DEF Spec

-----------------------------------------------------------------------------
(* The export                                                              *)

\* The rows backwards.
LEMMA ReverseRows ==
  ASSUME IInv
  PROVE  rows \in Seq(Row) /\ Reverse(rows) \in Seq(Row) /\ Len(Reverse(rows)) = Len(rows)
<1>1. rows \in Seq(Row) /\ Len(rows) \in Nat /\ \A i \in 1..Len(rows) : rows[i] \in Row
  BY LenProperties, ElementOfSeq DEF IInv, TypeInv
<1>2. \A i \in 1..Len(rows) : (Len(rows) - i) + 1 \in 1..Len(rows)
  BY <1>1
<1>3. Reverse(rows) \in [1..Len(rows) -> Row]
  BY <1>1, <1>2 DEF Reverse
<1>4. Reverse(rows) \in Seq(Row)
  BY <1>1, <1>3, SeqDef
<1>5. DOMAIN Reverse(rows) = 1..Len(Reverse(rows)) /\ Len(Reverse(rows)) \in Nat
  BY <1>4, LenProperties
<1>6. DOMAIN Reverse(rows) = 1..Len(rows)
  BY <1>3
<1> QED
  BY <1>1, <1>4, <1>5, <1>6

\* A page of the rows from the n-th on is there unless they are at their end.
LEMMA PageFacts ==
  ASSUME IInv, NEW n \in Nat, NEW page, page = ListWithActors(n)
  PROVE  /\ page \in Seq(Row) /\ Len(page) \in Nat
         /\ \A i \in 1..Len(page) : page[i] = Reverse(rows)[n + i]
         /\ n < Len(rows) => Len(page) > 0 /\ n + Len(page) <= Len(rows)
<1> DEFINE back == Reverse(rows)
<1>1. /\ back \in Seq(Row) /\ Len(back) = Len(rows) /\ Len(rows) \in Nat
      /\ Page \in Nat /\ Page > 0
  BY ReverseRows, LenProperties, AuditAssumption
<1>2. CASE n >= Len(rows)
  <2>1. page = <<>>
    BY <1>2 DEF ListWithActors
  <2>2. ~(n < Len(rows))
    BY <1>1, <1>2
  <2> QED
    BY <2>1, <2>2
<1>3. CASE ~(n >= Len(rows))
  <2>1. page = First(Rest(back, n), Page)
    BY <1>1, <1>3 DEF ListWithActors, Rest
  <2> HIDE DEF back
  <2>2. n <= Len(back)
    BY <1>1, <1>3
  <2>3. /\ Rest(back, n) \in Seq(Row) /\ Len(Rest(back, n)) = Len(rows) - n
        /\ \A i \in 1..Len(Rest(back, n)) : Rest(back, n)[i] = back[n + i]
    <3>1. Len(Rest(back, n)) = Len(back) - n
      BY <1>1, <2>2, SplitExact
    <3>2. /\ Rest(back, n) \in Seq(Row)
          /\ \A i \in 1..Len(Rest(back, n)) : Rest(back, n)[i] = back[n + i]
      BY <1>1, SplitSeq
    <3> QED
      BY <1>1, <3>1, <3>2
  <2> DEFINE rest == Rest(back, n)
             after == Rest(rest, Page)
  <2>0. rest \in Seq(Row) /\ page = First(rest, Page)
    BY <2>1, <2>3
  <2> HIDE DEF rest
  <2>4. /\ page \in Seq(Row) /\ Len(rest) \in Nat /\ Len(page) \in Nat /\ Len(after) \in Nat
        /\ Len(page) + Len(after) = Len(rest) /\ (Len(page) = Page \/ Len(after) = 0)
        /\ \A i \in 1..Len(page) : page[i] = rest[i]
    <3>1. /\ First(rest, Page) \in Seq(Row) /\ Len(rest) \in Nat
          /\ Len(First(rest, Page)) \in Nat /\ Len(Rest(rest, Page)) \in Nat
          /\ Len(First(rest, Page)) + Len(Rest(rest, Page)) = Len(rest)
          /\ Len(First(rest, Page)) = Page \/ Len(Rest(rest, Page)) = 0
          /\ \A i \in 1..Len(First(rest, Page)) : First(rest, Page)[i] = rest[i]
      <4>1. Page \in Nat /\ rest \in Seq(Row)
        BY <1>1, <2>0
      <4> QED
        BY <4>1, SplitSeq
    <3> QED
      BY <2>0, <3>1
  <2> HIDE DEF after
  <2>5. /\ Len(rest) = Len(rows) - n
        /\ \A i \in 1..Len(rest) : rest[i] = back[n + i]
    BY <2>3 DEF rest
  <2>6. /\ Len(rest) > 0 /\ Len(rest) \in Nat /\ Len(page) \in Nat /\ Len(after) \in Nat
        /\ Len(page) + Len(after) = Len(rest) /\ (Len(page) = Page \/ Len(after) = 0)
    BY <1>1, <1>3, <2>4, <2>5
  <2>7. Len(page) > 0 /\ Len(page) <= Len(rest)
    BY <1>1, <2>6
  <2>8. n + Len(page) <= Len(rows)
    BY <1>1, <2>5, <2>6, <2>7
  <2>9. ASSUME NEW i \in 1..Len(page) PROVE page[i] = back[n + i]
    <3>1. i \in 1..Len(rest)
      BY <2>6, <2>7
    <3> QED
      BY <2>4, <2>5, <3>1
  <2> QED
    BY <2>4, <2>7, <2>8, <2>9 DEF back
<1> QED
  BY <1>2, <1>3

\* A page is read: an export goes on, or ends when it has everything that was counted.
LEMMA ReadPageFacts ==
  ASSUME IInv, ExportInv, ReadPage
  PROVE  /\ ExportInv'
         /\ export'.at = "none" /\ ~moved => export.out = Reverse(rows)
<1> DEFINE n == Len(export.out)
           page == IF n < export.total THEN ListWithActors(n) ELSE <<>>
           back == Reverse(rows)
<1>1. /\ export.at = "pages" /\ rows' = rows
      /\ IF page = <<>> THEN export' = NoExport /\ moved' = FALSE
         ELSE export' = [export EXCEPT !.out = @ \o page] /\ UNCHANGED moved
  BY DEF ReadPage, table
<1>2. /\ export \in [at : {"none", "pages"}, total : Nat, out : Seq(Row)]
      /\ export.out \in Seq(Row) /\ n \in Nat /\ export.total \in Nat
  BY LenProperties DEF ExportInv
<1>3. /\ rows \in Seq(Row) /\ Len(rows) \in Nat /\ back \in Seq(Row) /\ Len(back) = Len(rows)
  BY ReverseRows, LenProperties
<1>4. /\ page \in Seq(Row) /\ Len(page) \in Nat
      /\ \A i \in 1..Len(page) : page[i] = back[n + i]
      /\ n < export.total /\ n < Len(rows) => Len(page) > 0 /\ n + Len(page) <= Len(rows)
  <2>1. CASE n < export.total
    BY <1>2, <2>1, PageFacts
  <2>2. CASE ~(n < export.total)
    <3>1. page = <<>>
      BY <2>2
    <3> QED
      BY <3>1, <2>2
  <2> QED
    BY <2>1, <2>2
<1>5. ~moved => /\ export.total = Len(rows) /\ n <= Len(rows)
                /\ \A i \in 1..n : export.out[i] = back[i]
  BY <1>1 DEF ExportInv
<1> HIDE DEF n, page, back
<1>6. CASE page = <<>>
  <2>1. export' = NoExport
    BY <1>1, <1>6
  <2>2. ExportInv'
    BY <2>1 DEF ExportInv, NoExport
  <2>3. ASSUME ~moved PROVE export.out = back
    <3>1. Len(page) = 0
      BY <1>6
    <3>2. n = Len(rows)
      BY <1>2, <1>3, <1>4, <1>5, <2>3, <3>1
    <3>3. Len(export.out) = Len(back) /\ \A i \in 1..Len(export.out) : export.out[i] = back[i]
      BY <1>3, <1>5, <2>3, <3>2 DEF n
    <3> QED
      BY <1>2, <1>3, <3>3, SeqEqual
  <2> QED
    BY <2>2, <2>3 DEF back
<1>7. CASE page # <<>>
  <2>1. export' = [export EXCEPT !.out = export.out \o page] /\ moved' = moved
    BY <1>1, <1>7
  <2>2. /\ export.out \o page \in Seq(Row) /\ Len(export.out \o page) = n + Len(page)
        /\ \A i \in 1..(n + Len(page)) :
             (export.out \o page)[i] = IF i <= n THEN export.out[i] ELSE page[i - n]
    BY <1>2, <1>4, ConcatProperties DEF n
  <2>3. /\ export' \in [at : {"none", "pages"}, total : Nat, out : Seq(Row)]
        /\ export'.at = "pages" /\ export'.total = export.total
        /\ export'.out = export.out \o page
    BY <1>1, <1>2, <2>1, <2>2
  <2>4. ASSUME ~moved
        PROVE  /\ n + Len(page) <= Len(rows)
               /\ \A i \in 1..(n + Len(page)) : (export.out \o page)[i] = back[i]
    <3>1. n < export.total
      BY <1>7 DEF page
    <3>2. n + Len(page) <= Len(rows)
      BY <1>4, <1>5, <2>4, <3>1
    <3>3. ASSUME NEW i \in 1..(n + Len(page)) PROVE (export.out \o page)[i] = back[i]
      <4>1. CASE i <= n
        BY <1>2, <1>5, <2>2, <2>4, <4>1
      <4>2. CASE ~(i <= n)
        <5>1. i - n \in 1..Len(page) /\ n + (i - n) = i
          BY <1>2, <1>4, <4>2
        <5> QED
          BY <1>4, <2>2, <4>2, <5>1
      <4> QED
        BY <4>1, <4>2
    <3> QED
      BY <3>2, <3>3
  <2>5. ExportInv'
    BY <1>1, <1>5, <2>1, <2>2, <2>3, <2>4 DEF ExportInv, back
  <2> QED
    BY <2>3, <2>5
<1> QED
  BY <1>6, <1>7

\* Any other step leaves an export that nothing has disturbed alone, notes that rows
\* were written or flushed, or begins one.
LEMMA ExportStep ==
  ASSUME IInv, ExportInv, [Next]_vars
  PROVE  /\ ExportInv'
         /\ export.at = "pages" /\ export'.at = "none" /\ ~moved => export.out = Reverse(rows)
<1> USE DEF queue, group, table, reader
<1>1. CASE ReadPage
  BY <1>1, ReadPageFacts
<1>2. CASE BeginExport
  <2>1. /\ export' = [at |-> "pages", total |-> Len(rows), out |-> <<>>]
        /\ export.at = "none" /\ rows' = rows
    BY <1>2 DEF BeginExport, NoExport
  <2>2. Len(rows) \in Nat
    BY ReverseRows, LenProperties
  <2> QED
    BY <2>1, <2>2 DEF ExportInv
<1>3. CASE UNCHANGED <<rows, export, moved>>
  BY <1>3 DEF ExportInv
<1>4. CASE export' = export /\ moved' = (export.at # "none")
  BY <1>4 DEF ExportInv
<1>5. CASE \E e \in Events : Enqueue(e) \/ Push(e)
  BY <1>3, <1>5 DEF Enqueue, Push
<1>6. CASE CrashApi \/ ReadEntries \/ BeginChunk \/ CrashWorker
  BY <1>3, <1>6 DEF CrashApi, ReadEntries, BeginChunk, CrashWorker
<1>7. CASE \E x \in DOMAIN hand : Process(x)
  <2> PICK x \in DOMAIN hand : Process(x)
    BY <1>7
  <2>1. CASE Record(x)
    BY <1>3, <1>4, <2>1 DEF Record, Insert
  <2>2. CASE Ack(x) \/ Delete(x) \/ DeadLetter(x)
    BY <1>3, <2>2 DEF Ack, Delete, DeadLetter
  <2> QED
    BY <2>1, <2>2 DEF Process
<1>8. CASE Flush
  BY <1>4, <1>8 DEF Flush
<1>9. CASE UNCHANGED vars
  BY <1>3, <1>9 DEF vars
<1> QED
  BY <1>1, <1>2, <1>5, <1>6, <1>7, <1>8, <1>9 DEF Next

\* An export that ends has every row once, the newest first, unless rows were written or
\* flushed while it was read page by page (ExportAuditLogsUseCase).
THEOREM ExportsAreExact == Spec => ExportIsExact
<1>1. Init => ExportInv
  <2> SUFFICES ASSUME Init PROVE ExportInv
    OBVIOUS
  <2>1. export = [at |-> "none", total |-> 0, out |-> <<>>]
    BY DEF Init, NoExport
  <2> QED
    BY <2>1 DEF ExportInv
<1>2. IInv /\ ExportInv /\ [Next]_vars => IInv' /\ ExportInv'
  BY StepInv, ExportStep
<1>3. IInv /\ ExportInv /\ [Next]_vars =>
        [export.at = "pages" /\ export'.at = "none" /\ ~moved => export.out = Reverse(rows)]_vars
  BY ExportStep
<1> QED
  BY InitInv, <1>1, <1>2, <1>3, PTL DEF Spec, ExportIsExact

(***************************************************************************)
(* Sums of durations.  The fold of a set is what a function on its         *)
(* subsets, defined step by step, has at that set; there is such a         *)
(* function, and only one, as a smallest set where it failed would be an   *)
(* element larger than one where it does not.                              *)
(***************************************************************************)

Sum(v, T) == MapThenSumSet(LAMBDA i : v[i].duration, T)

AnyOf(s) == CHOOSE x \in s : TRUE
SumStep(v, g, s) == IF s = {} THEN 0 ELSE v[AnyOf(s)].duration + g[s \ {AnyOf(s)}]
Sums(v, g, U) == g \in [SUBSET U -> Nat] /\ \A s \in SUBSET U : g[s] = SumStep(v, g, s)
Timed(v, D) == \A i \in D : v[i].duration \in Nat

\* Among sets of elements of a finite set there is one that contains no other.
LEMMA SmallestSet ==
  ASSUME NEW D, IsFiniteSet(D), NEW F, F \subseteq SUBSET D, F # {}
  PROVE  \E U \in F : \A V \in F : V \subseteq U => V = U
<1> DEFINE R == StrictSubsetOrdering(D)
<1>1. IsWellFoundedOn(R, FiniteSubsetsOf(D))
  BY FS_StrictSubsetOrderingWellFounded
<1>2. FiniteSubsetsOf(D) = SUBSET D
  BY FS_FiniteSubsetsOfFinite
<1>3. IsWellFoundedOn(R, SUBSET D)
  BY <1>1, <1>2
<1> HIDE DEF R
<1>4. \E x \in F : \A y \in F : ~ (<<y, x>> \in R)
  BY <1>3, WFMin
<1> QED BY <1>4 DEF R, StrictSubsetOrdering

\* A set with an element has the one that is chosen.
LEMMA AnyIn == ASSUME NEW s, s # {} PROVE AnyOf(s) \in s
BY DEF AnyOf

\* Two functions that sum step by step agree where both are defined.
LEMMA SumsAgree ==
  ASSUME NEW D, IsFiniteSet(D), NEW v, NEW U \in SUBSET D, NEW W \in SUBSET D,
         NEW g, NEW h, Sums(v, g, U), Sums(v, h, W),
         NEW s \in SUBSET U, s \in SUBSET W
  PROVE  g[s] = h[s]
<1> DEFINE F == {t \in SUBSET D : t \subseteq U /\ t \subseteq W /\ g[t] # h[t]}
<1> SUFFICES ASSUME F # {} PROVE FALSE
  OBVIOUS
<1>1. PICK t \in F : \A r \in F : r \subseteq t => r = t
  <2>1. F \subseteq SUBSET D
    OBVIOUS
  <2> HIDE DEF F
  <2> QED BY <2>1, SmallestSet
<1>2. t # {}
  BY <1>1 DEF Sums, SumStep
<1>3. AnyOf(t) \in t
  BY <1>2, AnyIn
<1>4. g[t \ {AnyOf(t)}] = h[t \ {AnyOf(t)}]
  BY <1>1, <1>3
<1>5. g[t] = SumStep(v, g, t) /\ h[t] = SumStep(v, h, t)
  BY <1>1 DEF Sums
<1> QED BY <1>1, <1>2, <1>4, <1>5 DEF SumStep

\* There is a function that sums step by step.
LEMMA SumsExist ==
  ASSUME NEW D, IsFiniteSet(D), NEW v, Timed(v, D)
  PROVE  \E g : Sums(v, g, D)
<1> DEFINE F == {U \in SUBSET D : ~ \E g : Sums(v, g, U)}
<1> SUFFICES ASSUME F # {} PROVE FALSE
  OBVIOUS
<1>1. PICK U \in F : \A W \in F : W \subseteq U => W = U
  <2>1. F \subseteq SUBSET D
    OBVIOUS
  <2> HIDE DEF F
  <2> QED BY <2>1, SmallestSet
<1> DEFINE H(W) == CHOOSE g : Sums(v, g, W)
           G == [s \in SUBSET U |-> SumStep(v, H(s \ {AnyOf(s)}), s)]
<1>2. ASSUME NEW W \in SUBSET U, W # U PROVE Sums(v, H(W), W)
  <2>1. \E g : Sums(v, g, W)
    BY <1>1, <1>2
  <2> QED BY <2>1
<1>3. ASSUME NEW s \in SUBSET U, s # {}
      PROVE  /\ AnyOf(s) \in s
             /\ s \ {AnyOf(s)} \in SUBSET U
             /\ Sums(v, H(s \ {AnyOf(s)}), s \ {AnyOf(s)})
  <2>1. AnyOf(s) \in s
    BY <1>3, AnyIn
  <2> QED BY <2>1, <1>2, <1>3
<1> HIDE DEF H
<1>4. G \in [SUBSET U -> Nat]
  <2> SUFFICES ASSUME NEW s \in SUBSET U PROVE SumStep(v, H(s \ {AnyOf(s)}), s) \in Nat
    OBVIOUS
  <2>1. CASE s = {}
    BY <2>1 DEF SumStep
  <2>2. CASE s # {}
    <3>1. H(s \ {AnyOf(s)})[s \ {AnyOf(s)}] \in Nat
      BY <2>2, <1>3 DEF Sums
    <3>2. v[AnyOf(s)].duration \in Nat
      BY <2>2, <1>3 DEF Timed
    <3> QED BY <3>1, <3>2 DEF SumStep
  <2> QED BY <2>1, <2>2
<1>5. ASSUME NEW s \in SUBSET U PROVE G[s] = SumStep(v, G, s)
  <2>1. CASE s = {}
    BY <2>1 DEF SumStep
  <2>2. CASE s # {}
    <3> DEFINE t == s \ {AnyOf(s)}
    <3>1. t \in SUBSET U /\ Sums(v, H(t), t)
      BY <2>2, <1>3
    <3>2. G[t] = H(t)[t]
      <4>1. G[t] = SumStep(v, H(t \ {AnyOf(t)}), t)
        BY <3>1
      <4>2. H(t)[t] = SumStep(v, H(t), t)
        BY <3>1 DEF Sums
      <4>3. CASE t = {}
        BY <4>1, <4>2, <4>3 DEF SumStep
      <4>4. CASE t # {}
        <5>1. /\ AnyOf(t) \in t /\ t \ {AnyOf(t)} \in SUBSET U
              /\ Sums(v, H(t \ {AnyOf(t)}), t \ {AnyOf(t)})
          BY <3>1, <4>4, <1>3
        <5>2. H(t)[t \ {AnyOf(t)}] = H(t \ {AnyOf(t)})[t \ {AnyOf(t)}]
          BY <3>1, <5>1, SumsAgree
        <5> QED BY <4>1, <4>2, <4>4, <5>2 DEF SumStep
      <4> QED BY <4>3, <4>4
    <3>3. G[s] = SumStep(v, H(t), s)
      OBVIOUS
    <3> QED BY <2>2, <3>2, <3>3 DEF SumStep
  <2> QED BY <2>1, <2>2
<1> HIDE DEF G
<1>6. Sums(v, G, U)
  BY <1>4, <1>5 DEF Sums
<1> QED BY <1>1, <1>6

\* It is the fold that the model sums with.
LEMMA SumIs ==
  ASSUME NEW D, IsFiniteSet(D), NEW v, Timed(v, D), NEW g, Sums(v, g, D)
  PROVE  Sum(v, D) = g[D]
<1> DEFINE Iter(h) == h = [s \in SUBSET D |-> IF s = {} THEN 0 ELSE v[AnyOf(s)].duration + h[s \ {AnyOf(s)}]]
<1>1. Sum(v, D) = (CHOOSE h : Iter(h))[D]
  BY DEF Sum, MapThenSumSet, MapThenFoldSet, AnyOf
<1>2. Iter(g)
  BY DEF Sums, SumStep
<1>3. PICK h : h = (CHOOSE k : Iter(k)) /\ Iter(h)
  BY <1>2
<1>4. Sums(v, h, D)
  <2>1. \A s \in SUBSET D : h[s] = SumStep(v, h, s)
    BY <1>3 DEF SumStep
  <2>2. \A s \in SUBSET D : h[s] \in Nat
    <3> DEFINE F == {t \in SUBSET D : h[t] \notin Nat}
    <3> SUFFICES ASSUME F # {} PROVE FALSE
      OBVIOUS
    <3>1. PICK t \in F : \A r \in F : r \subseteq t => r = t
      <4>1. F \subseteq SUBSET D
        OBVIOUS
      <4> HIDE DEF F
      <4> QED BY <4>1, SmallestSet
    <3>2. t # {}
      <4>1. t = {} => h[t] = 0
        BY <2>1, <3>1 DEF SumStep
      <4>2. h[t] \notin Nat
        BY <3>1
      <4>3. 0 \in Nat
        OBVIOUS
      <4> HIDE DEF F
      <4> QED BY <4>1, <4>2, <4>3
    <3>3. AnyOf(t) \in t
      BY <3>2, AnyIn
    <3>4. h[t \ {AnyOf(t)}] \in Nat
      BY <3>1, <3>3
    <3>5. v[AnyOf(t)].duration \in Nat
      BY <3>1, <3>3 DEF Timed
    <3> QED BY <2>1, <3>1, <3>2, <3>4, <3>5 DEF SumStep
  <2>3. h \in [SUBSET D -> Nat]
    BY <1>3, <2>2
  <2> QED BY <2>1, <2>3 DEF Sums
<1>5. h[D] = g[D]
  BY <1>4, SumsAgree
<1> QED BY <1>1, <1>3, <1>5
\* Whichever element is taken first, the sum is its duration and that of the others.
LEMMA SumDrop ==
  ASSUME NEW D, IsFiniteSet(D), NEW v, Timed(v, D), NEW g, Sums(v, g, D),
         NEW s \in SUBSET D, NEW y \in s
  PROVE  g[s] = v[y].duration + g[s \ {y}]
<1> DEFINE F == {t \in SUBSET D : \E z \in t : g[t] # v[z].duration + g[t \ {z}]}
<1> SUFFICES ASSUME F # {} PROVE FALSE
  OBVIOUS
<1>1. PICK t \in F : \A r \in F : r \subseteq t => r = t
  <2>1. F \subseteq SUBSET D
    OBVIOUS
  <2> HIDE DEF F
  <2> QED BY <2>1, SmallestSet
<1>2. PICK z \in t : g[t] # v[z].duration + g[t \ {z}]
  BY <1>1
<1> DEFINE f == AnyOf(t)
<1>3. f \in t /\ t \in SUBSET D
  BY <1>1, <1>2, AnyIn
<1>4. g[t] = v[f].duration + g[t \ {f}]
  BY <1>2, <1>3 DEF Sums, SumStep
<1> HIDE DEF f
<1>5. f # z
  BY <1>2, <1>4
<1>s. ASSUME NEW r \in SUBSET D, r \subseteq t, r # t, NEW q \in r
      PROVE  g[r] = v[q].duration + g[r \ {q}]
  <2>1. r \notin F
    BY <1>1, <1>s
  <2> QED BY <2>1
<1> HIDE DEF F
<1>6. g[t \ {f}] = v[z].duration + g[(t \ {f}) \ {z}]
  <2>1. t \ {f} \in SUBSET D /\ t \ {f} # t /\ z \in t \ {f}
    BY <1>2, <1>3, <1>5
  <2> QED BY <2>1, <1>s
<1>7. g[t \ {z}] = v[f].duration + g[(t \ {z}) \ {f}]
  <2>1. t \ {z} \in SUBSET D /\ t \ {z} # t /\ f \in t \ {z}
    BY <1>2, <1>3, <1>5
  <2> QED BY <2>1, <1>s
<1>8. (t \ {f}) \ {z} = (t \ {z}) \ {f}
  OBVIOUS
<1>9. /\ v[f].duration \in Nat /\ v[z].duration \in Nat
      /\ g[(t \ {z}) \ {f}] \in Nat
  <2>1. (t \ {z}) \ {f} \in SUBSET D
    BY <1>3
  <2> QED BY <2>1, <1>2, <1>3 DEF Timed, Sums
<1>10. g[t \ {z}] = v[f].duration + g[(t \ {f}) \ {z}]
  BY <1>7, <1>8
<1>11. g[(t \ {f}) \ {z}] \in Nat
  BY <1>8, <1>9
<1> DEFINE a == g[(t \ {f}) \ {z}]
           b == v[f].duration
           e == v[z].duration
<1>12. a \in Nat /\ b \in Nat /\ e \in Nat
  BY <1>9, <1>11
<1>13. g[t] = b + (e + a) /\ g[t \ {z}] = b + a
  BY <1>4, <1>6, <1>10
<1>14. g[t] = e + g[t \ {z}]
  <2> HIDE DEF a, b, e
  <2> QED BY <1>12, <1>13
<1> QED BY <1>2, <1>14

\* The sum over a set without an element.
LEMMA SumWithout ==
  ASSUME NEW D, IsFiniteSet(D), NEW v, Timed(v, D), NEW y \in D
  PROVE  /\ Sum(v, D) \in Nat /\ Sum(v, D \ {y}) \in Nat
         /\ Sum(v, D) = v[y].duration + Sum(v, D \ {y})
<1> DEFINE E == D \ {y}
<1>1. PICK g : Sums(v, g, D)
  BY SumsExist
<1>2. IsFiniteSet(E) /\ Timed(v, E)
  BY FS_RemoveElement DEF Timed
<1> DEFINE h == [s \in SUBSET E |-> g[s]]
<1>3. Sums(v, h, E)
  <2>1. h \in [SUBSET E -> Nat]
    BY <1>1 DEF Sums
  <2>2. ASSUME NEW s \in SUBSET E PROVE h[s] = SumStep(v, h, s)
    <3>1. g[s] = SumStep(v, g, s)
      BY <1>1 DEF Sums
    <3>2. s # {} => h[s \ {AnyOf(s)}] = g[s \ {AnyOf(s)}]
      OBVIOUS
    <3> QED BY <3>1, <3>2 DEF SumStep
  <2> HIDE DEF h
  <2> QED BY <2>1, <2>2 DEF Sums
<1>4. Sum(v, D) = g[D] /\ Sum(v, E) = g[E]
  BY <1>1, <1>2, <1>3, SumIs
<1>5. g[D] = v[y].duration + g[E]
  BY <1>1, SumDrop
<1>6. g[D] \in Nat /\ g[E] \in Nat
  BY <1>1 DEF Sums
<1> QED BY <1>4, <1>5, <1>6

\* Nothing lasts no time.
LEMMA SumEmpty ==
  ASSUME NEW v PROVE Sum(v, {}) = 0
<1>1. IsFiniteSet({}) /\ Timed(v, {})
  BY FS_EmptySet DEF Timed
<1>2. PICK g : Sums(v, g, {})
  BY <1>1, SumsExist
<1> QED BY <1>1, <1>2, SumIs DEF Sums, SumStep

\* The same durations, one by one, have the same sum.
LEMMA SumImage ==
  ASSUME NEW D, IsFiniteSet(D), NEW v, Timed(v, D), NEW E, NEW u, NEW f \in [D -> E],
         \A i, j \in D : f[i] = f[j] => i = j, \A i \in D : v[i].duration = u[f[i]].duration,
         \A x \in E : \E i \in D : f[i] = x
  PROVE  Sum(v, D) = Sum(u, E)
<1> DEFINE Im(U) == {f[i] : i \in U}
           F == {U \in SUBSET D : Sum(v, U) # Sum(u, Im(U))}
<1> SUFFICES ASSUME F # {} PROVE FALSE
  <2>1. D \in SUBSET D /\ D \notin F
    OBVIOUS
  <2> HIDE DEF Im
  <2>2. Sum(v, D) = Sum(u, Im(D))
    BY <2>1
  <2>3. Im(D) = E
    BY DEF Im
  <2> QED BY <2>2, <2>3
<1>1. PICK U \in F : \A V \in F : V \subseteq U => V = U
  <2>1. F \subseteq SUBSET D
    OBVIOUS
  <2> HIDE DEF F
  <2> QED BY <2>1, SmallestSet
<1>2. U \in SUBSET D /\ Sum(v, U) # Sum(u, Im(U))
  <2> HIDE DEF Im
  <2> QED BY <1>1
<1>3. U # {}
  <2>1. Im({}) = {}
    OBVIOUS
  <2> HIDE DEF Im
  <2> QED BY <1>2, <2>1, SumEmpty
<1>4. PICK y \in U : TRUE
  BY <1>3
<1>5. U \ {y} \notin F
  <2> HIDE DEF F
  <2> QED BY <1>1, <1>4
<1>6. Sum(v, U \ {y}) = Sum(u, Im(U \ {y}))
  <2>1. U \ {y} \in SUBSET D
    BY <1>2
  <2> HIDE DEF Im
  <2> QED BY <1>5, <2>1
<1>7. Im(U \ {y}) = Im(U) \ {f[y]} /\ f[y] \in Im(U)
  BY <1>2, <1>4
<1>8. Timed(v, U) /\ Timed(u, Im(U))
  BY <1>2 DEF Timed
<1>9. IsFiniteSet(U) /\ IsFiniteSet(Im(U))
  <2>1. IsFiniteSet(U)
    BY <1>2, FS_Subset
  <2> DEFINE g == [i \in U |-> f[i]]
  <2>2. g \in Surjection(U, Im(U))
    BY DEF Surjection
  <2> HIDE DEF g, Im
  <2> QED BY <2>1, <2>2, FS_Surjection
<1>10. Sum(v, U) = v[y].duration + Sum(v, U \ {y})
  BY <1>4, <1>8, <1>9, SumWithout
<1>11. Sum(u, Im(U)) = u[f[y]].duration + Sum(u, Im(U) \ {f[y]})
  <2> HIDE DEF Im
  <2> QED BY <1>7, <1>8, <1>9, SumWithout
<1>12. v[y].duration = u[f[y]].duration
  BY <1>2, <1>4
<1> HIDE DEF Im, F
<1> QED BY <1>2, <1>6, <1>7, <1>10, <1>11, <1>12

\* The sum of the same durations is the same.
LEMMA SumSame ==
  ASSUME NEW D, IsFiniteSet(D), NEW v, Timed(v, D), NEW u, \A i \in D : v[i].duration = u[i].duration
  PROVE  Sum(v, D) = Sum(u, D)
<1> DEFINE f == [i \in D |-> i]
<1>1. f \in [D -> D] /\ \A i \in D : f[i] = i
  OBVIOUS
<1> HIDE DEF f
<1>2. /\ \A i, j \in D : f[i] = f[j] => i = j
      /\ \A i \in D : v[i].duration = u[f[i]].duration
      /\ \A i \in D : \E j \in D : f[j] = i
  BY <1>1
<1> QED BY <1>1, <1>2, SumImage

(***************************************************************************)
(* The invariant.  What the processes hold makes it inductive.             *)
(***************************************************************************)

\* A request's task is a record of all the fields.
IsTask(t) == t = [op |-> t.op, playlist |-> t.playlist, input |-> t.input, listed |-> t.listed,
                  found |-> t.found, row |-> t.row, mark |-> t.mark, fade |-> t.fade]

ListSteps == {"list", "relist", "replace"}
SlotSteps == {"readSlot", "writeSlot", "rereadSlot", "clearSlot"}

\* What a process holds.
TaskHolds(r) ==
  LET t == task[r]
  IN  /\ IsTask(t)
      /\ r \in Requests /\ step[r] \notin {"idle", "done"} /\ t.op = "create" => t.playlist \in PlaylistIds
      /\ step[r] \in {"insert", "fetch", "write", "delete", "reorder", "undo", "drop"} \cup ListSteps =>
           t.playlist \in PlaylistIds
      /\ step[r] = "insert" =>
           t.input.content \in Contents /\ t.input.sequence \in Nat \ {0} /\ t.input.duration \in Nat \ {0}
      /\ step[r] \in {"fetch", "write"} =>
           /\ t.op = "update" /\ t.input.id \in ItemIds /\ t.input.sequence \in Nat /\ t.input.duration \in Nat
           /\ t.input.id <= made
           /\ items[t.input.id] # None => items[t.input.id].playlist = t.playlist
      /\ step[r] = "write" =>
           /\ t.row \in ItemRow /\ t.row.playlist = t.playlist
           /\ items[t.input.id] # None => items[t.input.id].content = t.row.content
      /\ step[r] = "delete" =>
           /\ t.input \in ItemIds /\ t.input <= made
           /\ items[t.input] # None => items[t.input].playlist = t.playlist
      /\ step[r] = "reorder" => t.op = "reorder" /\ t.input \in Orders
      /\ step[r] \in ListSteps =>
           /\ t.op \in {"create", "replace"} /\ t.input \in Lists /\ t.input # <<>>
           /\ t.op = "create" => Kept(t.input) = {}
      /\ step[r] \in SlotSteps => t.input.slot \in Slots
      /\ step[r] \in {"readSlot"} => t.op \in {"set", "clear"}
      /\ (step[r] = "readSlot" /\ t.op = "set") \/ step[r] \in {"writeSlot", "rereadSlot"} =>
           t.input.content \in Contents
      /\ step[r] = "clearSlot" \/ (step[r] = "readSlot" /\ t.op = "clear") => t.input.content = None

TasksHold == task = [p \in Processes |-> task[p]] /\ \A p \in Processes : TaskHolds(p)

\* What a slot shows is there.
SlotsThere == \A s \in Slots : slot[s] \in Contents => There(slot[s])

AloneNow == alone \in BOOLEAN /\ (alone => \A p, q \in Busy : p = q)

\* What a request decided by, and the list it works on.
ListHolds(r) ==
  LET t == task[r]
  IN  /\ step[r] \in {"relist", "replace"} =>
           /\ Kept(t.input) \subseteq DOMAIN t.listed
           /\ \A m, n \in DOMAIN t.input :
                t.input[m].item = t.input[n].item /\ t.input[m].item # None => m = n
           /\ ListTotal(t.input) <= MaxDuration
           /\ \A i \in DOMAIN t.listed :
                i \in 1..made /\ (items[i] # None => items[i].playlist = t.playlist)
      /\ step[r] = "replace" =>
           \A i \in DOMAIN t.listed \ DOMAIN t.found : items[i] = None
      /\ step[r] = "insert" => Total(t.listed) + t.input.duration <= MaxDuration
      /\ step[r] \in {"fetch", "write"} =>
           /\ t.input.id \in DOMAIN t.listed
           /\ t.input.duration # 0 =>
                Total(t.listed) - t.listed[t.input.id].duration + t.input.duration <= MaxDuration
      /\ step[r] = "delete" =>
           t.input \in DOMAIN t.listed /\ Cardinality(DOMAIN t.listed) > 1
      /\ step[r] = "reorder" =>
           /\ {t.input[n] : n \in DOMAIN t.input} = DOMAIN t.listed
           /\ Len(t.input) = Cardinality(DOMAIN t.listed)

ListsHold == \A r \in Processes : ListHolds(r)

PlaylistsBase == PlaylistsTypeOK /\ TasksHold /\ SlotsThere /\ AloneNow /\ ListsHold

\* A process will mark the content of slot s, or of an item.
Marking(c) == \E p \in Processes : step[p] = "mark" /\ c \in task[p].mark
Setting(s, c) ==
  \E p \in Processes : /\ step[p] = "rereadSlot"
                       /\ task[p].input.slot = s /\ task[p].input.content = c

UsedIsMarked ==
  \A c \in Contents : unused[c] # None =>
    /\ InItems(c) => Marking(c)
    /\ \A s \in Slots : slot[s] = c => Marking(c) \/ Setting(s, c)

\* Alone, what a process has read is what there is.
Exact(p) ==
  LET t == task[p]
  IN  /\ step[p] = "mark" => \A c \in t.mark \cap Contents : There(c) => Referenced(c)
      /\ step[p] \in {"writeSlot", "clearSlot"} => t.row = slot[t.input.slot]
      /\ step[p] = "rereadSlot" => slot[t.input.slot] = t.input.content
      /\ step[p] \in {"relist", "replace"} => t.listed = RowsOf(t.playlist)
      /\ step[p] = "replace" => t.found = RowsOf(t.playlist)
      /\ step[p] = "delete" => t.listed = RowsOf(t.playlist)

Fading(p, c) ==
  \/ step[p] \in {"mark", "refresh", "age"} /\ c \in task[p].fade
  \/ step[p] = "rereadSlot" /\ c \in Former(p)

UnusedFades ==
  \A c \in Contents \ strayed :
    unused[c] = None /\ ~Referenced(c) => \E p \in Processes : Fading(p, c)

Creating(r, p) ==
  /\ task[r].op = "create" /\ task[r].playlist = p
  /\ step[r] \in ListSteps \cup {"undo"}

EmptyIsNew == \A p \in PlaylistIds : Empty(p) => \E r \in Requests : Creating(r, p)

AloneInv == (\A p \in Processes : Exact(p)) /\ UnusedFades /\ EmptyIsNew

PlaylistsInv ==
  /\ PlaylistsBase /\ breaks \in Nat
  /\ breaks = 0 => UsedIsMarked
  /\ alone /\ breaks = 0 => AloneInv

(***************************************************************************)
(* Steps of a process.                                                     *)
(***************************************************************************)

\* What a step of a process changes of the processes.
LEMMA GoEffect ==
  ASSUME PlaylistsTypeOK, TasksHold, NEW p \in Processes, NEW s, NEW t, Go(p, s, t)
  PROVE  /\ step'[p] = s /\ task'[p] = t
         /\ \A q \in Processes : q # p => step'[q] = step[q] /\ task'[q] = task[q]
         /\ s \in Steps => step' \in [Processes -> Steps]
         /\ task' = [q \in Processes |-> task'[q]]
         /\ alone' = (alone /\ Busy \subseteq {p})
<1>1. step \in [Processes -> Steps] /\ task = [q \in Processes |-> task[q]]
  BY DEF PlaylistsTypeOK, TasksHold
<1>2. step' = [step EXCEPT ![p] = s] /\ task' = [task EXCEPT ![p] = t]
  BY DEF Go
<1>3. /\ step'[p] = s
      /\ \A q \in Processes : q # p => step'[q] = step[q]
      /\ s \in Steps => step' \in [Processes -> Steps]
  BY <1>1, <1>2
<1>4. /\ task'[p] = t
      /\ \A q \in Processes : q # p => task'[q] = task[q]
      /\ task' = [q \in Processes |-> task'[q]]
  <2> DEFINE T == [q \in Processes |-> task[q]]
  <2>1. task' = [T EXCEPT ![p] = t]
    BY <1>1, <1>2
  <2> QED BY <2>1
<1> QED BY <1>3, <1>4 DEF Go

\* A blank task is a task with nothing to mark or to refresh.
LEMMA BlankTask ==
  /\ IsTask(Blank) /\ Blank.op = None /\ Blank.mark = {} /\ Blank.fade = {}
BY DEF IsTask, Blank

FinalStep(p) == IF p \in Requests THEN "done" ELSE "idle"
SettledStep(p) == IF p = Cleanup THEN "choose" ELSE FinalStep(p)

\* What the end of a request changes of the processes.
LEMMA ReturnEffect ==
  ASSUME PlaylistsTypeOK, TasksHold, NEW p \in Processes, Return(p)
  PROVE  /\ step'[p] = FinalStep(p) /\ task'[p] = Blank
         /\ \A q \in Processes : q # p => step'[q] = step[q] /\ task'[q] = task[q]
         /\ step' \in [Processes -> Steps]
         /\ task' = [q \in Processes |-> task'[q]]
         /\ alone' = (alone /\ Busy \subseteq {p})
<1>1. FinalStep(p) \in Steps
  BY DEF FinalStep, Steps
<1>2. Go(p, FinalStep(p), Blank)
  BY DEF Return, FinalStep
<1> QED BY <1>1, <1>2, GoEffect

\* Setting fields of a task.
LEMMA TaskMarked ==
  ASSUME NEW t, IsTask(t), NEW m, NEW f
  PROVE  [t EXCEPT !.mark = m, !.fade = f] =
           [op |-> t.op, playlist |-> t.playlist, input |-> t.input, listed |-> t.listed,
            found |-> t.found, row |-> t.row, mark |-> m, fade |-> f]
<1>1. [t EXCEPT !.mark = m] =
        [op |-> t.op, playlist |-> t.playlist, input |-> t.input, listed |-> t.listed,
         found |-> t.found, row |-> t.row, mark |-> m, fade |-> t.fade]
  <2>1. \A a, b, c, d, e, g, h, k :
          [[op |-> a, playlist |-> b, input |-> c, listed |-> d,
            found |-> e, row |-> g, mark |-> h, fade |-> k] EXCEPT !.mark = m] =
           [op |-> a, playlist |-> b, input |-> c, listed |-> d,
            found |-> e, row |-> g, mark |-> m, fade |-> k]
    OBVIOUS
  <2> QED BY <2>1 DEF IsTask
<1>2. \A a, b, c, d, e, g, h, k :
        [[op |-> a, playlist |-> b, input |-> c, listed |-> d,
          found |-> e, row |-> g, mark |-> h, fade |-> k] EXCEPT !.fade = f] =
         [op |-> a, playlist |-> b, input |-> c, listed |-> d,
          found |-> e, row |-> g, mark |-> h, fade |-> f]
  OBVIOUS
<1> DEFINE u == [t EXCEPT !.mark = m]
<1>3. [t EXCEPT !.mark = m, !.fade = f] = [u EXCEPT !.fade = f]
  OBVIOUS
<1>4. [u EXCEPT !.fade = f] = 
           [op |-> t.op, playlist |-> t.playlist, input |-> t.input, listed |-> t.listed,
            found |-> t.found, row |-> t.row, mark |-> m, fade |-> f]
  <2> HIDE DEF u
  <2>1. u = [op |-> t.op, playlist |-> t.playlist, input |-> t.input, listed |-> t.listed,
         found |-> t.found, row |-> t.row, mark |-> m, fade |-> t.fade]
    BY <1>1 DEF u
  <2> QED BY <2>1, <1>2
<1> QED BY <1>3, <1>4

\* Only the list is set.
LEMMA TaskListed ==
  ASSUME NEW t, IsTask(t), NEW m
  PROVE  [t EXCEPT !.listed = m] =
           [op |-> t.op, playlist |-> t.playlist, input |-> t.input, listed |-> m,
            found |-> t.found, row |-> t.row, mark |-> t.mark, fade |-> t.fade]
<1>1. \A a, b, c, d, e, g, h, k :
        [[op |-> a, playlist |-> b, input |-> c, listed |-> d,
          found |-> e, row |-> g, mark |-> h, fade |-> k] EXCEPT !.listed = m] =
         [op |-> a, playlist |-> b, input |-> c, listed |-> m,
          found |-> e, row |-> g, mark |-> h, fade |-> k]
  OBVIOUS
<1> QED BY <1>1 DEF IsTask

\* Only the second list is set.
LEMMA TaskFound ==
  ASSUME NEW t, IsTask(t), NEW m
  PROVE  [t EXCEPT !.found = m] =
           [op |-> t.op, playlist |-> t.playlist, input |-> t.input, listed |-> t.listed,
            found |-> m, row |-> t.row, mark |-> t.mark, fade |-> t.fade]
<1>1. \A a, b, c, d, e, g, h, k :
        [[op |-> a, playlist |-> b, input |-> c, listed |-> d,
          found |-> e, row |-> g, mark |-> h, fade |-> k] EXCEPT !.found = m] =
         [op |-> a, playlist |-> b, input |-> c, listed |-> d,
          found |-> m, row |-> g, mark |-> h, fade |-> k]
  OBVIOUS
<1> QED BY <1>1 DEF IsTask

\* Only the row is set.
LEMMA TaskRow ==
  ASSUME NEW t, IsTask(t), NEW m
  PROVE  [t EXCEPT !.row = m] =
           [op |-> t.op, playlist |-> t.playlist, input |-> t.input, listed |-> t.listed,
            found |-> t.found, row |-> m, mark |-> t.mark, fade |-> t.fade]
<1>1. \A a, b, c, d, e, g, h, k :
        [[op |-> a, playlist |-> b, input |-> c, listed |-> d,
          found |-> e, row |-> g, mark |-> h, fade |-> k] EXCEPT !.row = m] =
         [op |-> a, playlist |-> b, input |-> c, listed |-> d,
          found |-> e, row |-> m, mark |-> h, fade |-> k]
  OBVIOUS
<1> QED BY <1>1 DEF IsTask

\* What a process does after it changed the items.
LEMMA ThenMarkEffect ==
  ASSUME PlaylistsTypeOK, TasksHold, NEW p \in Processes, NEW m, NEW f, ThenMark(p, m, f)
  PROVE  /\ step'[p] = IF m # {} THEN "mark" ELSE IF f # {} THEN "refresh" ELSE SettledStep(p)
         /\ IsTask(task'[p])
         /\ task'[p].mark = m /\ task'[p].fade = f
         /\ m # {} \/ f # {} => task'[p].op = task[p].op /\ task'[p].playlist = task[p].playlist
         /\ \A q \in Processes : q # p => step'[q] = step[q] /\ task'[q] = task[q]
         /\ step' \in [Processes -> Steps]
         /\ task' = [q \in Processes |-> task'[q]]
         /\ alone' = (alone /\ Busy \subseteq {p})
<1>1. CASE m = {} /\ f = {}
  <2>1. Go(p, SettledStep(p), Blank)
    BY <1>1 DEF ThenMark, Settle, SettledStep, Return, FinalStep
  <2>2. SettledStep(p) \in Steps
    BY DEF SettledStep, FinalStep, Steps
  <2> QED BY <1>1, <2>1, <2>2, GoEffect, BlankTask
<1>2. CASE ~(m = {} /\ f = {})
  <2> DEFINE s == IF m # {} THEN "mark" ELSE "refresh"
             t == [task[p] EXCEPT !.mark = m, !.fade = f]
  <2>1. Go(p, s, t)
    BY <1>2 DEF ThenMark
  <2>2. s \in Steps
    BY DEF Steps
  <2>3. IsTask(task[p])
    BY DEF TasksHold, TaskHolds
  <2>4. t = [op |-> task[p].op, playlist |-> task[p].playlist, input |-> task[p].input,
             listed |-> task[p].listed, found |-> task[p].found, row |-> task[p].row,
             mark |-> m, fade |-> f]
    BY <2>3, TaskMarked
  <2> HIDE DEF t
  <2>5. IsTask(t) /\ t.mark = m /\ t.fade = f /\ t.op = task[p].op /\ t.playlist = task[p].playlist
    BY <2>4 DEF IsTask
  <2> QED BY <1>2, <2>1, <2>2, <2>5, GoEffect
<1> QED BY <1>1, <1>2

(***************************************************************************)
(* The rows of playlists.                                                  *)
(***************************************************************************)

\* The rows of a playlist, for any table of items.
RowsIn(x, p) == [i \in {j \in ItemIds : x[j] # None /\ x[j].playlist = p} |-> x[i]]
Table == [ItemIds -> ItemRow \cup {None}]
UniqueItems(x) ==
  \A i, j \in ItemIds :
    x[i] # None /\ x[j] # None /\ x[i].playlist = x[j].playlist /\ x[i].sequence = x[j].sequence => i = j

\* The fields of a row.
LEMMA RowFields ==
  ASSUME NEW x \in ItemRow
  PROVE  /\ x.playlist \in PlaylistIds /\ x.content \in Contents
         /\ x.sequence \in Nat \ {0} /\ x.duration \in Nat \ {0} /\ x # None
BY PlaylistsAssumption DEF ItemRow

\* What the rows of a playlist are.
LEMMA RowsFacts ==
  \A x \in Table : \A p :
    /\ \A i : i \in DOMAIN RowsIn(x, p) <=> i \in ItemIds /\ x[i] # None /\ x[i].playlist = p
    /\ \A i \in DOMAIN RowsIn(x, p) : RowsIn(x, p)[i] = x[i] /\ x[i] \in ItemRow
BY DEF RowsIn, Table

\* The places of every playlist are distinct when those of the table are.
LEMMA UniqueRows ==
  ASSUME NEW x \in Table
  PROVE  (\A p \in PlaylistIds : Unique(RowsIn(x, p))) <=> UniqueItems(x)
<1>0. \A p, i : i \in DOMAIN RowsIn(x, p) <=> i \in ItemIds /\ x[i] # None /\ x[i].playlist = p
  BY RowsFacts
<1>f. \A p : \A i \in DOMAIN RowsIn(x, p) : RowsIn(x, p)[i] = x[i]
  BY RowsFacts
<1>1. ASSUME UniqueItems(x), NEW p \in PlaylistIds PROVE Unique(RowsIn(x, p))
  <2> SUFFICES ASSUME NEW i \in DOMAIN RowsIn(x, p), NEW j \in DOMAIN RowsIn(x, p),
                      RowsIn(x, p)[i].sequence = RowsIn(x, p)[j].sequence
               PROVE  i = j
    BY DEF Unique
  <2>1. RowsIn(x, p)[i] = x[i] /\ RowsIn(x, p)[j] = x[j]
    BY <1>f
  <2>2. /\ i \in ItemIds /\ x[i] # None /\ x[i].playlist = p
        /\ j \in ItemIds /\ x[j] # None /\ x[j].playlist = p
    BY <1>0
  <2> QED BY <1>1, <2>1, <2>2 DEF UniqueItems
<1>2. ASSUME \A p \in PlaylistIds : Unique(RowsIn(x, p)),
             NEW i \in ItemIds, NEW j \in ItemIds, x[i] # None, x[j] # None,
             x[i].playlist = x[j].playlist, x[i].sequence = x[j].sequence
      PROVE  i = j
  <2> DEFINE p == x[i].playlist
             X == RowsIn(x, p)
  <2>1. p \in PlaylistIds
    BY <1>2, RowFields DEF Table
  <2>2. i \in DOMAIN X /\ j \in DOMAIN X
    BY <1>0, <1>2
  <2>3. X[i] = x[i] /\ X[j] = x[j]
    BY <1>f, <2>2
  <2>4. Unique(X)
    BY <1>2, <2>1
  <2> HIDE DEF X
  <2> QED BY <1>2, <2>2, <2>3, <2>4 DEF Unique
<1> QED BY <1>1, <1>2 DEF UniqueItems

\* The rows the handlers read are those of the table.
LEMMA RowsAre ==
  \A p : RowsOf(p) = RowsIn(items, p) /\ RowsOf(p)' = RowsIn(items', p)
BY DEF RowsOf, RowsIn

IsRows(part, p) ==
  /\ part = [i \in DOMAIN part |-> part[i]] /\ DOMAIN part \subseteq ItemIds
  /\ \A i \in DOMAIN part : part[i] \in ItemRow /\ part[i].playlist = p

\* The table once the rows of playlist p are these.
WithRows(x, p, part) ==
  [i \in ItemIds |-> IF i \in DOMAIN part THEN part[i]
                     ELSE IF i \in DOMAIN RowsIn(x, p) THEN None ELSE x[i]]

\* The table remains a table, and has the rows it was given and those it had elsewhere.
LEMMA WithRowsFacts ==
  ASSUME NEW x \in Table, UniqueItems(x), NEW p \in PlaylistIds, NEW part, IsRows(part, p), Unique(part),
         \A i \in DOMAIN part : x[i] # None => x[i].playlist = p
  PROVE  LET y == WithRows(x, p, part)
         IN  /\ y \in Table /\ UniqueItems(y)
             /\ RowsIn(y, p) = part
             /\ \A q \in PlaylistIds : q # p => RowsIn(y, q) = RowsIn(x, q)
<1> DEFINE y == WithRows(x, p, part)
<1>1. \A i \in ItemIds : y[i] = IF i \in DOMAIN part THEN part[i]
                                ELSE IF i \in DOMAIN RowsIn(x, p) THEN None ELSE x[i]
  BY DEF WithRows
<1>2. y \in Table
  <2>1. \A i \in ItemIds : (IF i \in DOMAIN part THEN part[i]
                            ELSE IF i \in DOMAIN RowsIn(x, p) THEN None ELSE x[i]) \in ItemRow \cup {None}
    BY DEF IsRows, Table
  <2> QED BY <2>1 DEF WithRows, Table
<1> HIDE DEF y
<1>d. \A z \in Table : \A q, i : i \in DOMAIN RowsIn(z, q) <=> i \in ItemIds /\ z[i] # None /\ z[i].playlist = q
  BY RowsFacts
<1>f. \A z \in Table : \A q : \A i \in DOMAIN RowsIn(z, q) : RowsIn(z, q)[i] = z[i]
  BY RowsFacts
<1>r. \A i \in DOMAIN part : i \in ItemIds /\ part[i] # None /\ part[i].playlist = p
  BY RowFields DEF IsRows
<1>3. DOMAIN RowsIn(y, p) = DOMAIN part
  <2>1. ASSUME NEW i \in DOMAIN RowsIn(y, p) PROVE i \in DOMAIN part
    <3>1. i \in ItemIds /\ y[i] # None /\ y[i].playlist = p
      BY <1>2, <1>d, <2>1
    <3>2. CASE i \notin DOMAIN part
      <4>1. i \notin DOMAIN RowsIn(x, p) /\ y[i] = x[i]
        BY <1>1, <3>1, <3>2
      <4> QED BY <1>d, <3>1, <4>1
    <3> QED BY <3>2
  <2>2. ASSUME NEW i \in DOMAIN part PROVE i \in DOMAIN RowsIn(y, p)
    <3>1. y[i] = part[i]
      BY <1>1, <1>r
    <3> QED BY <1>2, <1>d, <1>r, <3>1
  <2> QED BY <2>1, <2>2
<1>4. RowsIn(y, p) = part
  <2>1. ASSUME NEW i \in DOMAIN part PROVE RowsIn(y, p)[i] = part[i]
    <3>1. i \in DOMAIN RowsIn(y, p)
      BY <1>3
    <3> QED BY <1>1, <1>2, <1>f, <1>r, <3>1
  <2>2. RowsIn(y, p) = [i \in DOMAIN RowsIn(y, p) |-> RowsIn(y, p)[i]]
    BY DEF RowsIn
  <2> QED BY <1>3, <2>1, <2>2 DEF IsRows
<1>5. ASSUME NEW q \in PlaylistIds, q # p PROVE RowsIn(y, q) = RowsIn(x, q)
  <2>1. ASSUME NEW i \in ItemIds
        PROVE  /\ (y[i] # None /\ y[i].playlist = q) <=> (x[i] # None /\ x[i].playlist = q)
               /\ x[i] # None /\ x[i].playlist = q => y[i] = x[i]
    <3>1. CASE i \in DOMAIN part
      <4>1. y[i] # None /\ y[i].playlist = p
        BY <1>1, <1>r, <3>1
      <4> QED BY <1>5, <3>1, <4>1
    <3>2. CASE i \notin DOMAIN part /\ i \in DOMAIN RowsIn(x, p)
      <4>1. y[i] = None /\ x[i].playlist = p
        BY <1>1, <1>d, <3>2
      <4> QED BY <1>5, <4>1
    <3>3. CASE i \notin DOMAIN part /\ i \notin DOMAIN RowsIn(x, p)
      BY <1>1, <3>3
    <3> QED BY <3>1, <3>2, <3>3
  <2> QED BY <2>1 DEF RowsIn
<1>6. UniqueItems(y)
  <2>1. \A q \in PlaylistIds : Unique(RowsIn(x, q))
    BY UniqueRows
  <2> QED BY <1>2, <1>4, <1>5, <2>1, UniqueRows
<1> QED BY <1>2, <1>4, <1>5, <1>6 DEF y

\* What the type invariant says of the items.
LEMMA TypedItems ==
  ASSUME PlaylistsTypeOK
  PROVE  /\ items \in Table /\ UniqueItems(items)
         /\ \A i \in ItemIds : items[i] # None =>
              i \in 1..made /\ playlist[items[i].playlist] = "there" /\ There(items[i].content)
<1>1. items \in Table
  BY DEF PlaylistsTypeOK, Table
<1>2. UniqueItems(items)
  BY <1>1, UniqueRows, RowsAre DEF PlaylistsTypeOK
<1>3. \A i \in ItemIds : i \in Nat /\ i >= 1
  BY PlaylistsAssumption DEF ItemIds
<1> QED BY <1>1, <1>2, <1>3 DEF PlaylistsTypeOK

\* One playlist is given other rows.
SetRows(p, part) ==
  /\ p \in PlaylistIds /\ IsRows(part, p) /\ Unique(part)
  /\ \A i \in DOMAIN part : items[i] # None => items[i].playlist = p
  /\ items' = WithRows(items, p, part)

\* The table remains one, with the rows given and those of the other playlists.
LEMMA SetRowsEffect ==
  ASSUME PlaylistsTypeOK, NEW p, NEW part, SetRows(p, part)
  PROVE  /\ items' \in Table /\ UniqueItems(items')
         /\ RowsOf(p)' = part
         /\ \A q \in PlaylistIds : q # p => RowsOf(q)' = RowsOf(q)
<1>1. items \in Table /\ UniqueItems(items)
  BY TypedItems
<1> QED BY <1>1, WithRowsFacts, RowsAre DEF SetRows

\* Nothing else moves: the table is as it was.
LEMMA SameRows ==
  ASSUME items' = items
  PROVE  \A q : RowsOf(q)' = RowsOf(q)
BY DEF RowsOf

\* Playlists are deleted with their items.
LEMMA DropEffect ==
  ASSUME PlaylistsTypeOK, NEW ps, DropPlaylists(ps)
  PROVE  /\ items' \in Table /\ UniqueItems(items')
         /\ \A q \in ps : DOMAIN RowsOf(q)' = {}
         /\ \A q : q \notin ps => RowsOf(q)' = RowsOf(q)
         /\ \A i \in ItemIds : items'[i] = IF items[i] # None /\ items[i].playlist \in ps THEN None ELSE items[i]
<1>1. items \in Table /\ UniqueItems(items)
  BY TypedItems
<1>2. \A i \in ItemIds : items'[i] = IF items[i] # None /\ items[i].playlist \in ps THEN None ELSE items[i]
  BY DEF DropPlaylists
<1>3. items' \in Table
  BY <1>1 DEF DropPlaylists, Table
<1>4. UniqueItems(items')
  <2> SUFFICES ASSUME NEW i \in ItemIds, NEW j \in ItemIds, items'[i] # None, items'[j] # None,
                      items'[i].playlist = items'[j].playlist, items'[i].sequence = items'[j].sequence
               PROVE  i = j
    BY DEF UniqueItems
  <2>1. items'[i] = items[i] /\ items'[j] = items[j]
    BY <1>2
  <2> QED BY <1>1, <2>1 DEF UniqueItems
<1>5. ASSUME NEW q \in ps PROVE DOMAIN RowsOf(q)' = {}
  <2>1. {j \in ItemIds : items'[j] # None /\ items'[j].playlist = q} = {}
    BY <1>2, <1>5
  <2> QED BY <2>1 DEF RowsOf
<1>6. ASSUME NEW q, q \notin ps PROVE RowsOf(q)' = RowsOf(q)
  <2>1. \A i \in ItemIds : (items'[i] # None /\ items'[i].playlist = q) <=> (items[i] # None /\ items[i].playlist = q)
    BY <1>2, <1>6
  <2>2. \A i \in ItemIds : items[i] # None /\ items[i].playlist = q => items'[i] = items[i]
    BY <1>2, <1>6
  <2> QED BY <2>1, <2>2 DEF RowsOf
<1> QED BY <1>2, <1>3, <1>4, <1>5, <1>6

(***************************************************************************)
(* What a step keeps.                                                      *)
(***************************************************************************)

\* What one step leaves of the items that were there.
Moves ==
  /\ made' \in Nat /\ made <= made'
  /\ \A i \in ItemIds : i <= made /\ items'[i] # None =>
       /\ items[i] # None
       /\ items'[i].playlist = items[i].playlist /\ items'[i].content = items[i].content

Turns(p) ==
  /\ \A q \in Processes : q # p => step'[q] = step[q] /\ task'[q] = task[q]
  /\ step' \in [Processes -> Steps]
  /\ task' = [q \in Processes |-> task'[q]]
  /\ alone' = (alone /\ Busy \subseteq {p})

\* The type invariant in the next state, from its parts.
LEMMA TypeNext ==
  ASSUME items' \in Table, UniqueItems(items'), made' \in 0..MaxItems,
         \A i \in ItemIds : items'[i] # None =>
           i <= made' /\ playlist'[items'[i].playlist] = "there" /\ unused'[items'[i].content] # "gone",
         playlist' \in [PlaylistIds -> {"absent", "there", "gone"}],
         unused' \in [Contents -> {None, "recent", "old", "gone"}],
         slot' \in [Slots -> Contents \cup {None, NoContent}],
         step' \in [Processes -> Steps]
  PROVE  PlaylistsTypeOK'
<1>1. \A p \in PlaylistIds : Unique(RowsIn(items', p))
  BY UniqueRows
<1>2. \A p \in PlaylistIds : Unique(RowsOf(p)')
  BY <1>1, RowsAre
<1>3. \A p \in PlaylistIds : Unique(RowsOf(p))'
  BY <1>2 DEF Unique
<1> QED BY <1>3 DEF PlaylistsTypeOK, There, Table

\* The same data.
LEMMA SameData ==
  ASSUME PlaylistsTypeOK, UNCHANGED dataVars, step' \in [Processes -> Steps]
  PROVE  PlaylistsTypeOK' /\ Moves
<1>1. items \in Table /\ UniqueItems(items) /\ made \in 0..MaxItems
  BY TypedItems DEF PlaylistsTypeOK
<1>2. \A i \in ItemIds : items[i] # None =>
           i <= made /\ playlist[items[i].playlist] = "there" /\ unused[items[i].content] # "gone"
  BY DEF PlaylistsTypeOK, There
<1>3. Moves
  BY <1>1, PlaylistsAssumption DEF Moves, dataVars
<1>4. PlaylistsTypeOK'
  BY <1>1, <1>2, TypeNext DEF dataVars, PlaylistsTypeOK
<1> QED BY <1>3, <1>4

\* The same items, other things known of contents and slots.
LEMMA SameItems ==
  ASSUME PlaylistsTypeOK, UNCHANGED <<items, made, playlist>>, step' \in [Processes -> Steps],
         unused' \in [Contents -> {None, "recent", "old", "gone"}],
         slot' \in [Slots -> Contents \cup {None, NoContent}],
         \A c \in Contents : unused'[c] = "gone" => unused[c] = "gone" \/ ~InItems(c)
  PROVE  PlaylistsTypeOK' /\ Moves
<1>1. items \in Table /\ UniqueItems(items) /\ made \in 0..MaxItems
  BY TypedItems DEF PlaylistsTypeOK
<1>2. \A i \in ItemIds : items[i] # None =>
           i <= made /\ playlist[items[i].playlist] = "there" /\ unused'[items[i].content] # "gone"
  <2>1. \A i \in ItemIds : items[i] # None => items[i].content \in Contents
    BY <1>1, RowFields DEF Table
  <2> QED BY <2>1 DEF PlaylistsTypeOK, There, InItems
<1>3. Moves
  BY <1>1, PlaylistsAssumption DEF Moves
<1>4. PlaylistsTypeOK'
  BY <1>1, <1>2, TypeNext DEF PlaylistsTypeOK
<1> QED BY <1>3, <1>4

\* One playlist is given other rows.
LEMMA RowsSet ==
  ASSUME PlaylistsTypeOK, NEW p, NEW part, SetRows(p, part), step' \in [Processes -> Steps],
         UNCHANGED <<playlist, unused, slot>>, made' \in 0..MaxItems, made <= made',
         DOMAIN part # {} => playlist[p] = "there",
         \A i \in DOMAIN part :
           IF i <= made THEN items[i] # None /\ part[i].content = items[i].content
           ELSE i <= made' /\ There(part[i].content)
  PROVE  PlaylistsTypeOK' /\ Moves
<1>1. /\ items \in Table /\ UniqueItems(items)
      /\ \A i \in ItemIds : items[i] # None =>
           i \in 1..made /\ playlist[items[i].playlist] = "there" /\ There(items[i].content)
  BY TypedItems
<1>2. items' \in Table /\ UniqueItems(items')
  BY SetRowsEffect
<1>3. \A i \in ItemIds :
        /\ i \in DOMAIN part => items'[i] = part[i]
        /\ i \notin DOMAIN part => items'[i] = None \/ items'[i] = items[i]
  BY DEF SetRows, WithRows
<1>4. \A i \in DOMAIN part : i \in ItemIds /\ part[i] # None /\ part[i].playlist = p /\ DOMAIN part # {}
  BY RowFields DEF SetRows, IsRows
<1>5. made \in 0..MaxItems
  BY DEF PlaylistsTypeOK
<1>6. ASSUME NEW i \in ItemIds, items'[i] # None
      PROVE  i <= made' /\ playlist'[items'[i].playlist] = "there" /\ unused'[items'[i].content] # "gone"
  <2>1. CASE i \in DOMAIN part /\ i <= made
    BY <1>1, <1>3, <1>4, <1>5, <2>1, PlaylistsAssumption DEF There, ItemIds
  <2>2. CASE i \in DOMAIN part /\ ~ (i <= made)
    BY <1>3, <1>4, <2>2 DEF There
  <2>3. CASE i \notin DOMAIN part
    BY <1>1, <1>3, <1>5, <1>6, <2>3, PlaylistsAssumption DEF There, ItemIds
  <2> QED BY <2>1, <2>2, <2>3
<1>7. Moves
  <2> SUFFICES ASSUME NEW i \in ItemIds, i <= made, items'[i] # None
               PROVE  /\ items[i] # None
                      /\ items'[i].playlist = items[i].playlist /\ items'[i].content = items[i].content
    BY <1>5, PlaylistsAssumption DEF Moves
  <2>1. CASE i \in DOMAIN part
    BY <1>3, <1>4, <2>1 DEF SetRows
  <2>2. CASE i \notin DOMAIN part
    BY <1>3, <2>2
  <2> QED BY <2>1, <2>2
<1> QED BY <1>2, <1>6, <1>7, TypeNext DEF PlaylistsTypeOK

\* Playlists are deleted with their items.
LEMMA PlaylistsDropped ==
  ASSUME PlaylistsTypeOK, NEW ps, DropPlaylists(ps), step' \in [Processes -> Steps],
         UNCHANGED <<made, unused, slot>>
  PROVE  PlaylistsTypeOK' /\ Moves
<1>1. /\ items \in Table /\ UniqueItems(items) /\ made \in 0..MaxItems
      /\ \A i \in ItemIds : items[i] # None =>
           i \in 1..made /\ playlist[items[i].playlist] = "there" /\ There(items[i].content)
  BY TypedItems DEF PlaylistsTypeOK
<1>2. /\ items' \in Table /\ UniqueItems(items')
      /\ \A i \in ItemIds : items'[i] = IF items[i] # None /\ items[i].playlist \in ps THEN None ELSE items[i]
  BY DropEffect
<1>3. playlist' \in [PlaylistIds -> {"absent", "there", "gone"}]
  BY DEF PlaylistsTypeOK, DropPlaylists
<1>4. ASSUME NEW i \in ItemIds, items'[i] # None
      PROVE  i <= made' /\ playlist'[items'[i].playlist] = "there" /\ unused'[items'[i].content] # "gone"
  <2>1. items'[i] = items[i] /\ items[i].playlist \notin ps
    BY <1>2, <1>4
  <2>2. items[i].playlist \in PlaylistIds
    BY <1>1, <1>4, <2>1, RowFields DEF Table
  <2>3. playlist'[items[i].playlist] = playlist[items[i].playlist]
    BY <2>1, <2>2 DEF DropPlaylists
  <2> QED BY <1>1, <1>4, <2>1, <2>3, PlaylistsAssumption DEF There, ItemIds
<1>5. Moves
  BY <1>1, <1>2, PlaylistsAssumption DEF Moves
<1> QED BY <1>1, <1>2, <1>3, <1>4, <1>5, TypeNext DEF PlaylistsTypeOK

\* What the rows of a playlist are, of the items there are.
LEMMA RowsOfFacts ==
  ASSUME PlaylistsTypeOK
  PROVE  /\ \A p, i : i \in DOMAIN RowsOf(p) <=> i \in ItemIds /\ items[i] # None /\ items[i].playlist = p
         /\ \A p : \A i \in DOMAIN RowsOf(p) : RowsOf(p)[i] = items[i] /\ items[i] \in ItemRow
         /\ \A p : IsRows(RowsOf(p), p)
         /\ \A p \in PlaylistIds : Unique(RowsOf(p))
<1>1. items \in Table
  BY TypedItems
<1>2. \A p, i : i \in DOMAIN RowsOf(p) <=> i \in ItemIds /\ items[i] # None /\ items[i].playlist = p
  BY <1>1, RowsFacts, RowsAre
<1>3. \A p : \A i \in DOMAIN RowsOf(p) : RowsOf(p)[i] = items[i] /\ items[i] \in ItemRow
  BY <1>1, RowsFacts, RowsAre
<1>4. \A p : RowsOf(p) = [i \in DOMAIN RowsOf(p) |-> RowsOf(p)[i]]
  BY DEF RowsOf
<1>5. ASSUME NEW p PROVE IsRows(RowsOf(p), p)
  BY <1>2, <1>3, <1>4 DEF IsRows
<1> QED BY <1>2, <1>3, <1>5 DEF PlaylistsTypeOK

\* One row is written, a new one or another for an item of the playlist.
LEMMA RowPut ==
  ASSUME PlaylistsTypeOK, NEW p \in PlaylistIds, NEW id \in ItemIds, NEW row \in ItemRow, row.playlist = p,
         items[id] # None => items[id].playlist = p,
         items' = [items EXCEPT ![id] = row], NEW part,
         part = [i \in DOMAIN RowsOf(p) \cup {id} |-> IF i = id THEN row ELSE items[i]], Unique(part)
  PROVE  SetRows(p, part)
<1>1. items \in Table
  BY TypedItems
<1>2. \A i : i \in DOMAIN RowsOf(p) <=> i \in ItemIds /\ items[i] # None /\ items[i].playlist = p
  BY RowsOfFacts
<1>3. DOMAIN part = DOMAIN RowsOf(p) \cup {id} /\ \A i \in DOMAIN part : part[i] = IF i = id THEN row ELSE items[i]
  OBVIOUS
<1>4. IsRows(part, p)
  <2>1. part = [i \in DOMAIN part |-> part[i]]
    OBVIOUS
  <2>2. \A i \in DOMAIN part : i \in ItemIds /\ part[i] \in ItemRow /\ part[i].playlist = p
    BY <1>1, <1>2, <1>3 DEF Table
  <2> HIDE DEF IsRows
  <2> QED BY <2>1, <2>2 DEF IsRows
<1>5. \A i \in DOMAIN part : items[i] # None => items[i].playlist = p
  BY <1>2, <1>3
<1>6. items' = WithRows(items, p, part)
  <2>1. DOMAIN items = ItemIds
    BY <1>1 DEF Table
  <2>2. ASSUME NEW i \in ItemIds
        PROVE  items'[i] = IF i \in DOMAIN part THEN part[i]
                           ELSE IF i \in DOMAIN RowsIn(items, p) THEN None ELSE items[i]
    <3>1. RowsIn(items, p) = RowsOf(p)
      BY RowsAre
    <3> QED BY <1>3, <2>1, <3>1
  <2>3. items' = [i \in ItemIds |-> items'[i]]
    BY <2>1
  <2> QED BY <2>2, <2>3 DEF WithRows
<1> QED BY <1>4, <1>5, <1>6 DEF SetRows

\* A row goes.
LEMMA RowOut ==
  ASSUME PlaylistsTypeOK, NEW id \in ItemIds, items[id] # None,
         items' = [items EXCEPT ![id] = None], NEW p, p = items[id].playlist, NEW part,
         part = [i \in DOMAIN RowsOf(p) \ {id} |-> items[i]]
  PROVE  SetRows(p, part)
<1>1. items \in Table
  BY TypedItems
<1>0. p \in PlaylistIds
  BY <1>1, RowFields DEF Table
<1>2. \A i : i \in DOMAIN RowsOf(p) <=> i \in ItemIds /\ items[i] # None /\ items[i].playlist = p
  BY RowsOfFacts
<1>3. DOMAIN part = DOMAIN RowsOf(p) \ {id} /\ \A i \in DOMAIN part : part[i] = items[i]
  OBVIOUS
<1>4. IsRows(part, p)
  <2>1. part = [i \in DOMAIN part |-> part[i]]
    OBVIOUS
  <2>2. \A i \in DOMAIN part : i \in ItemIds /\ part[i] \in ItemRow /\ part[i].playlist = p
    BY <1>1, <1>2, <1>3 DEF Table
  <2> QED BY <2>1, <2>2 DEF IsRows
<1>5. \A i \in DOMAIN part : items[i] # None => items[i].playlist = p
  BY <1>2, <1>3
<1>6. items' = WithRows(items, p, part)
  <2>1. DOMAIN items = ItemIds
    BY <1>1 DEF Table
  <2>2. ASSUME NEW i \in ItemIds
        PROVE  items'[i] = IF i \in DOMAIN part THEN part[i]
                           ELSE IF i \in DOMAIN RowsIn(items, p) THEN None ELSE items[i]
    <3>1. RowsIn(items, p) = RowsOf(p)
      BY RowsAre
    <3> QED BY <1>2, <1>3, <2>1, <3>1
  <2>3. items' = [i \in ItemIds |-> items'[i]]
    BY <2>1
  <2> QED BY <2>2, <2>3 DEF WithRows
<1>7. Unique(part)
  <2>1. Unique(RowsOf(p))
    BY <1>0, RowsOfFacts
  <2>2. \A i \in DOMAIN part : i \in DOMAIN RowsOf(p) /\ part[i] = RowsOf(p)[i]
    BY <1>3, RowsOfFacts
  <2> QED BY <2>1, <2>2 DEF Unique
<1> QED BY <1>0, <1>4, <1>5, <1>6, <1>7 DEF SetRows

(***************************************************************************)
(* Tasks.                                                                  *)
(***************************************************************************)

\* Steps at which a process holds nothing but contents to look at.
CalmSteps == {"idle", "done", "mark", "refresh", "age", "choose", "sweep", "purge", "deleteContent"}

\* At such a step a process holds what it should.
LEMMA Calm ==
  ASSUME NEW p \in Processes, step'[p] \in CalmSteps, IsTask(task'[p]),
         \/ p \notin Requests \/ step'[p] \in {"idle", "done"}
         \/ task'[p].op = "create" => task'[p].playlist \in PlaylistIds
  PROVE  TaskHolds(p)' /\ ListHolds(p)'
<1>1. TaskHolds(p)'
  BY DEF TaskHolds, CalmSteps, ListSteps, SlotSteps, IsTask
<1>2. ListHolds(p)'
  BY DEF ListHolds, CalmSteps
<1> QED BY <1>1, <1>2

\* Going on to a step is a turn of the process.
LEMMA GoTurns ==
  ASSUME PlaylistsTypeOK, TasksHold, NEW p \in Processes, NEW s \in Steps, NEW t, Go(p, s, t)
  PROVE  Turns(p) /\ step'[p] = s /\ task'[p] = t
BY GoEffect DEF Turns

\* So is the end of a request, after which nothing is held.
LEMMA ReturnTurns ==
  ASSUME PlaylistsTypeOK, TasksHold, NEW p \in Processes, Return(p)
  PROVE  /\ Turns(p) /\ step'[p] = FinalStep(p) /\ task'[p] = Blank
         /\ TaskHolds(p)' /\ ListHolds(p)'
<1>1. Turns(p) /\ step'[p] = FinalStep(p) /\ task'[p] = Blank
  BY ReturnEffect DEF Turns
<1>2. /\ step'[p] \in CalmSteps /\ IsTask(task'[p])
      /\ p \notin Requests \/ step'[p] \in {"idle", "done"}
  BY <1>1, BlankTask DEF FinalStep, CalmSteps
<1> QED BY <1>1, <1>2, Calm

\* So is what follows a change of items.
LEMMA ThenMarkTurns ==
  ASSUME PlaylistsTypeOK, TasksHold, NEW p \in Processes, NEW m, NEW f, ThenMark(p, m, f),
         step[p] \notin {"idle", "done"}
  PROVE  /\ Turns(p)
         /\ step'[p] = IF m # {} THEN "mark" ELSE IF f # {} THEN "refresh" ELSE SettledStep(p)
         /\ task'[p].mark = m /\ task'[p].fade = f
         /\ TaskHolds(p)' /\ ListHolds(p)'
<1>1. /\ Turns(p) /\ IsTask(task'[p])
      /\ step'[p] = IF m # {} THEN "mark" ELSE IF f # {} THEN "refresh" ELSE SettledStep(p)
      /\ task'[p].mark = m /\ task'[p].fade = f
      /\ m # {} \/ f # {} => task'[p].op = task[p].op /\ task'[p].playlist = task[p].playlist
  BY ThenMarkEffect DEF Turns
<1>2. step'[p] \in CalmSteps
  BY <1>1 DEF SettledStep, FinalStep, CalmSteps
<1>3. \/ p \notin Requests \/ step'[p] \in {"idle", "done"}
      \/ task'[p].op = "create" => task'[p].playlist \in PlaylistIds
  <2>1. CASE m # {} \/ f # {}
    BY <1>1, <2>1 DEF TasksHold, TaskHolds
  <2>2. CASE m = {} /\ f = {}
    BY <1>1, <2>2, PlaylistsAssumption DEF SettledStep, FinalStep
  <2> QED BY <2>1, <2>2
<1> QED BY <1>1, <1>2, <1>3, Calm

\* So is the end of either.
LEMMA SettleTurns ==
  ASSUME PlaylistsTypeOK, TasksHold, NEW p \in Processes, Settle(p)
  PROVE  /\ Turns(p) /\ step'[p] = SettledStep(p) /\ task'[p] = Blank
         /\ TaskHolds(p)' /\ ListHolds(p)'
<1>1. Go(p, SettledStep(p), Blank)
  BY DEF Settle, SettledStep, Return, FinalStep
<1>2. /\ SettledStep(p) \in Steps /\ SettledStep(p) \in CalmSteps
      /\ p \notin Requests \/ SettledStep(p) \in {"idle", "done"}
  BY PlaylistsAssumption DEF SettledStep, FinalStep, Steps, CalmSteps
<1>3. Turns(p) /\ step'[p] = SettledStep(p) /\ task'[p] = Blank
  BY <1>1, <1>2, GoTurns
<1> QED BY <1>2, <1>3, Calm, BlankTask

\* A task with some of its fields set.
TaskOf(a, b, c, d, e, g, h, k) ==
  [op |-> a, playlist |-> b, input |-> c, listed |-> d, found |-> e, row |-> g, mark |-> h, fade |-> k]

\* A record's fields are set one by one: the operation,
LEMMA SetOp ==
  \A a, b, c, d, e, g, h, k, x :
    [TaskOf(a, b, c, d, e, g, h, k) EXCEPT !.op = x] = TaskOf(x, b, c, d, e, g, h, k)
BY DEF TaskOf

\* the playlist,
LEMMA SetPlaylist ==
  \A a, b, c, d, e, g, h, k, x :
    [TaskOf(a, b, c, d, e, g, h, k) EXCEPT !.playlist = x] = TaskOf(a, x, c, d, e, g, h, k)
BY DEF TaskOf

\* what is asked for,
LEMMA SetInput ==
  \A a, b, c, d, e, g, h, k, x :
    [TaskOf(a, b, c, d, e, g, h, k) EXCEPT !.input = x] = TaskOf(a, b, x, d, e, g, h, k)
BY DEF TaskOf

\* the list,
LEMMA SetListed ==
  \A a, b, c, d, e, g, h, k, x :
    [TaskOf(a, b, c, d, e, g, h, k) EXCEPT !.listed = x] = TaskOf(a, b, c, x, e, g, h, k)
BY DEF TaskOf

\* the second list,
LEMMA SetFound ==
  \A a, b, c, d, e, g, h, k, x :
    [TaskOf(a, b, c, d, e, g, h, k) EXCEPT !.found = x] = TaskOf(a, b, c, d, x, g, h, k)
BY DEF TaskOf

\* the row,
LEMMA SetRow ==
  \A a, b, c, d, e, g, h, k, x :
    [TaskOf(a, b, c, d, e, g, h, k) EXCEPT !.row = x] = TaskOf(a, b, c, d, e, x, h, k)
BY DEF TaskOf

\* the contents to mark,
LEMMA SetMark ==
  \A a, b, c, d, e, g, h, k, x :
    [TaskOf(a, b, c, d, e, g, h, k) EXCEPT !.mark = x] = TaskOf(a, b, c, d, e, g, x, k)
BY DEF TaskOf

\* and those to refresh.
LEMMA SetFade ==
  \A a, b, c, d, e, g, h, k, x :
    [TaskOf(a, b, c, d, e, g, h, k) EXCEPT !.fade = x] = TaskOf(a, b, c, d, e, g, h, x)
BY DEF TaskOf

\* A blank task in this form.
LEMMA BlankIs == Blank = TaskOf(None, None, None, <<>>, <<>>, None, {}, {})
BY DEF Blank, TaskOf

\* The fields of a task.
LEMMA TaskOfFields ==
  \A a, b, c, d, e, g, h, k :
    LET t == TaskOf(a, b, c, d, e, g, h, k)
    IN  /\ t.op = a /\ t.playlist = b /\ t.input = c /\ t.listed = d
        /\ t.found = e /\ t.row = g /\ t.mark = h /\ t.fade = k /\ IsTask(t)
BY DEF TaskOf, IsTask

\* The task of a deletion of a playlist.
LEMMA BlankOf ==
  ASSUME NEW a, NEW b
  PROVE  [Blank EXCEPT !.op = a, !.playlist = b] =
         TaskOf(a, b, None, <<>>, <<>>, None, {}, {})
<1> DEFINE u1 == [Blank EXCEPT !.op = a]
           u2 == [u1 EXCEPT !.playlist = b]
<1>1. [Blank EXCEPT !.op = a, !.playlist = b] = u2
  OBVIOUS
<1>2. u1 = TaskOf(a, None, None, <<>>, <<>>, None, {}, {})
  BY BlankIs, SetOp
<1> HIDE DEF u1
<1>3. u2 = TaskOf(a, b, None, <<>>, <<>>, None, {}, {})
  BY <1>2, SetPlaylist
<1> HIDE DEF u2
<1> QED BY <1>1, <1>3

\* The task of a replacement or of a creation.
LEMMA BlankAbout ==
  ASSUME NEW a, NEW b, NEW c
  PROVE  [Blank EXCEPT !.op = a, !.playlist = b, !.input = c] =
         TaskOf(a, b, c, <<>>, <<>>, None, {}, {})
<1> DEFINE u1 == [Blank EXCEPT !.op = a]
           u2 == [u1 EXCEPT !.playlist = b]
           u3 == [u2 EXCEPT !.input = c]
<1>1. [Blank EXCEPT !.op = a, !.playlist = b, !.input = c] = u3
  OBVIOUS
<1>2. u1 = TaskOf(a, None, None, <<>>, <<>>, None, {}, {})
  BY BlankIs, SetOp
<1> HIDE DEF u1
<1>3. u2 = TaskOf(a, b, None, <<>>, <<>>, None, {}, {})
  BY <1>2, SetPlaylist
<1> HIDE DEF u2
<1>4. u3 = TaskOf(a, b, c, <<>>, <<>>, None, {}, {})
  BY <1>3, SetInput
<1> HIDE DEF u3
<1> QED BY <1>1, <1>4

\* The task of an addition, an update or a deletion.
LEMMA BlankSet ==
  ASSUME NEW a, NEW b, NEW c, NEW d
  PROVE  [Blank EXCEPT !.op = a, !.playlist = b, !.input = c, !.listed = d] =
         TaskOf(a, b, c, d, <<>>, None, {}, {})
<1> DEFINE u1 == [Blank EXCEPT !.op = a]
           u2 == [u1 EXCEPT !.playlist = b]
           u3 == [u2 EXCEPT !.input = c]
           u4 == [u3 EXCEPT !.listed = d]
<1>1. [Blank EXCEPT !.op = a, !.playlist = b, !.input = c, !.listed = d] = u4
  OBVIOUS
<1>2. u1 = TaskOf(a, None, None, <<>>, <<>>, None, {}, {})
  BY BlankIs, SetOp
<1> HIDE DEF u1
<1>3. u2 = TaskOf(a, b, None, <<>>, <<>>, None, {}, {})
  BY <1>2, SetPlaylist
<1> HIDE DEF u2
<1>4. u3 = TaskOf(a, b, c, <<>>, <<>>, None, {}, {})
  BY <1>3, SetInput
<1> HIDE DEF u3
<1>5. u4 = TaskOf(a, b, c, d, <<>>, None, {}, {})
  BY <1>4, SetListed
<1> HIDE DEF u4
<1> QED BY <1>1, <1>5

\* The task of setting or clearing a slot.
LEMMA BlankSlot ==
  ASSUME NEW a, NEW b
  PROVE  [Blank EXCEPT !.op = a, !.input = b] =
         TaskOf(a, None, b, <<>>, <<>>, None, {}, {})
<1> DEFINE u1 == [Blank EXCEPT !.op = a]
           u2 == [u1 EXCEPT !.input = b]
<1>1. [Blank EXCEPT !.op = a, !.input = b] = u2
  OBVIOUS
<1>2. u1 = TaskOf(a, None, None, <<>>, <<>>, None, {}, {})
  BY BlankIs, SetOp
<1> HIDE DEF u1
<1>3. u2 = TaskOf(a, None, b, <<>>, <<>>, None, {}, {})
  BY <1>2, SetInput
<1> HIDE DEF u2
<1> QED BY <1>1, <1>3

\* The task of deleting a content.
LEMMA BlankContent ==
  ASSUME NEW a, NEW b
  PROVE  [Blank EXCEPT !.op = a, !.mark = b] =
         TaskOf(a, None, None, <<>>, <<>>, None, b, {})
<1> DEFINE u1 == [Blank EXCEPT !.op = a]
           u2 == [u1 EXCEPT !.mark = b]
<1>1. [Blank EXCEPT !.op = a, !.mark = b] = u2
  OBVIOUS
<1>2. u1 = TaskOf(a, None, None, <<>>, <<>>, None, {}, {})
  BY BlankIs, SetOp
<1> HIDE DEF u1
<1>3. u2 = TaskOf(a, None, None, <<>>, <<>>, None, b, {})
  BY <1>2, SetMark
<1> HIDE DEF u2
<1> QED BY <1>1, <1>3

\* The task of purging contents.
LEMMA BlankPurge ==
  ASSUME NEW a, NEW b
  PROVE  [Blank EXCEPT !.mark = a, !.listed = b] =
         TaskOf(None, None, None, b, <<>>, None, a, {})
<1> DEFINE u1 == [Blank EXCEPT !.mark = a]
           u2 == [u1 EXCEPT !.listed = b]
<1>1. [Blank EXCEPT !.mark = a, !.listed = b] = u2
  OBVIOUS
<1>2. u1 = TaskOf(None, None, None, <<>>, <<>>, None, a, {})
  BY BlankIs, SetMark
<1> HIDE DEF u1
<1>3. u2 = TaskOf(None, None, None, b, <<>>, None, a, {})
  BY <1>2, SetListed
<1> HIDE DEF u2
<1> QED BY <1>1, <1>3

\* The task of sweeping playlists.
LEMMA BlankSweep ==
  ASSUME NEW a, NEW b
  PROVE  [Blank EXCEPT !.input = a, !.fade = b] =
         TaskOf(None, None, a, <<>>, <<>>, None, {}, b)
<1> DEFINE u1 == [Blank EXCEPT !.input = a]
           u2 == [u1 EXCEPT !.fade = b]
<1>1. [Blank EXCEPT !.input = a, !.fade = b] = u2
  OBVIOUS
<1>2. u1 = TaskOf(None, None, a, <<>>, <<>>, None, {}, {})
  BY BlankIs, SetInput
<1> HIDE DEF u1
<1>3. u2 = TaskOf(None, None, a, <<>>, <<>>, None, {}, b)
  BY <1>2, SetFade
<1> HIDE DEF u2
<1> QED BY <1>1, <1>3

\* The task of a reordering.
LEMMA BlankReorder ==
  ASSUME NEW a, NEW b, NEW c, NEW d, NEW e
  PROVE  [Blank EXCEPT !.op = a, !.playlist = b, !.input = c, !.listed = d, !.found = e] =
         TaskOf(a, b, c, d, e, None, {}, {})
<1> DEFINE u1 == [Blank EXCEPT !.op = a]
           u2 == [u1 EXCEPT !.playlist = b]
           u3 == [u2 EXCEPT !.input = c]
           u4 == [u3 EXCEPT !.listed = d]
           u5 == [u4 EXCEPT !.found = e]
<1>1. [Blank EXCEPT !.op = a, !.playlist = b, !.input = c, !.listed = d, !.found = e] = u5
  OBVIOUS
<1>2. u1 = TaskOf(a, None, None, <<>>, <<>>, None, {}, {})
  BY BlankIs, SetOp
<1> HIDE DEF u1
<1>3. u2 = TaskOf(a, b, None, <<>>, <<>>, None, {}, {})
  BY <1>2, SetPlaylist
<1> HIDE DEF u2
<1>4. u3 = TaskOf(a, b, c, <<>>, <<>>, None, {}, {})
  BY <1>3, SetInput
<1> HIDE DEF u3
<1>5. u4 = TaskOf(a, b, c, d, <<>>, None, {}, {})
  BY <1>4, SetListed
<1> HIDE DEF u4
<1>6. u5 = TaskOf(a, b, c, d, e, None, {}, {})
  BY <1>5, SetFound
<1> HIDE DEF u5
<1> QED BY <1>1, <1>6

(***************************************************************************)
(* Every action keeps the base.                                            *)
(***************************************************************************)

\* What a step of process p has to leave for the invariant to hold.
BaseStep(p) ==
  /\ PlaylistsTypeOK' /\ Moves /\ Turns(p)
  /\ TaskHolds(p)' /\ ListHolds(p)' /\ SlotsThere'

\* Who does not move holds what it held, whatever the others do to items.
LEMMA TaskStays ==
  ASSUME PlaylistsTypeOK, Moves, NEW q \in Processes, TaskHolds(q), ListHolds(q),
         step'[q] = step[q], task'[q] = task[q], made' \in Nat
  PROVE  TaskHolds(q)' /\ ListHolds(q)'
<1>1. made \in Nat /\ \A i \in ItemIds : i \in Nat
  BY PlaylistsAssumption DEF PlaylistsTypeOK, ItemIds
<1> DEFINE t == task[q]
<1>2. TaskHolds(q)'
  <2>1. IsTask(t)' /\ t' = t
    BY DEF TaskHolds, IsTask
  <2>2. step[q] \in {"fetch", "write"} => t.input.id <= made' /\ t.input.id <= made /\ t.input.id \in ItemIds
    BY <1>1 DEF TaskHolds, Moves
  <2>3. step[q] \in {"fetch", "write"} => (items'[t.input.id] # None => items'[t.input.id].playlist = t.playlist)
    BY <2>2 DEF TaskHolds, Moves
  <2>4. step[q] = "write" => (items'[t.input.id] # None => items'[t.input.id].content = t.row.content)
    BY <2>2 DEF TaskHolds, Moves
  <2>5. step[q] = "delete" => t.input <= made' /\ (items'[t.input] # None => items'[t.input].playlist = t.playlist)
    BY <1>1 DEF TaskHolds, Moves
  <2> QED BY <2>1, <2>2, <2>3, <2>4, <2>5 DEF TaskHolds
<1>3. ListHolds(q)'
  <2>1. step[q] \in {"relist", "replace"} =>
          \A i \in DOMAIN t.listed : i \in 1..made /\ i \in 1..made' /\ i \in ItemIds
    BY <1>1, PlaylistsAssumption DEF ListHolds, Moves, ItemIds, PlaylistsTypeOK
  <2>p. step[q] \in {"relist", "replace"} =>
          \A i \in DOMAIN t.listed : items'[i] # None => items'[i].playlist = t.playlist
    BY <1>1, <2>1 DEF ListHolds, Moves
  <2>2. step[q] = "replace" => \A i \in DOMAIN t.listed \ DOMAIN t.found : items[i] = None => items'[i] = None
    <3> SUFFICES ASSUME step[q] = "replace", NEW i \in DOMAIN t.listed \ DOMAIN t.found, items[i] = None
                 PROVE  items'[i] = None
      OBVIOUS
    <3>1. i \in 1..made
      BY <2>1
    <3>2. i \in ItemIds
      BY <1>1, <3>1, PlaylistsAssumption DEF ItemIds, PlaylistsTypeOK
    <3> QED BY <1>1, <3>1, <3>2 DEF Moves
  <2>3. t' = t /\ step'[q] = step[q]
    OBVIOUS
  <2> HIDE DEF t
  <2>4. step[q] \in {"relist", "replace"} =>
           /\ Kept(t.input) \subseteq DOMAIN t.listed
           /\ \A m, n \in DOMAIN t.input :
                t.input[m].item = t.input[n].item /\ t.input[m].item # None => m = n
           /\ ListTotal(t.input) <= MaxDuration
    BY DEF ListHolds, t
  <2>5. step[q] = "replace" => \A i \in DOMAIN t.listed \ DOMAIN t.found : items'[i] = None
    BY <2>2 DEF ListHolds, t
  <2>6. /\ step[q] = "insert" => Total(t.listed) + t.input.duration <= MaxDuration
        /\ step[q] \in {"fetch", "write"} =>
             /\ t.input.id \in DOMAIN t.listed
             /\ t.input.duration # 0 =>
                  Total(t.listed) - t.listed[t.input.id].duration + t.input.duration <= MaxDuration
        /\ step[q] = "delete" =>
             t.input \in DOMAIN t.listed /\ Cardinality(DOMAIN t.listed) > 1
        /\ step[q] = "reorder" =>
             /\ {t.input[n] : n \in DOMAIN t.input} = DOMAIN t.listed
             /\ Len(t.input) = Cardinality(DOMAIN t.listed)
    BY DEF ListHolds, t
  <2> QED BY <2>1, <2>p, <2>3, <2>4, <2>5, <2>6 DEF ListHolds, t
<1> QED BY <1>2, <1>3

\* Such a step keeps the base of the invariant.
LEMMA BaseNext ==
  ASSUME PlaylistsBase, NEW p \in Processes, BaseStep(p)
  PROVE  PlaylistsBase'
<1>1. made' \in Nat
  BY DEF BaseStep, PlaylistsTypeOK
<1>2. \A q \in Processes : TaskHolds(q)' /\ ListHolds(q)'
  <2> SUFFICES ASSUME NEW q \in Processes, q # p PROVE TaskHolds(q)' /\ ListHolds(q)'
    BY DEF BaseStep
  <2>1. step'[q] = step[q] /\ task'[q] = task[q]
    BY DEF BaseStep, Turns
  <2> QED BY <1>1, <2>1, TaskStays DEF PlaylistsBase, BaseStep, TasksHold, ListsHold
<1>3. TasksHold' /\ ListsHold'
  BY <1>2 DEF TasksHold, ListsHold, BaseStep, Turns
<1>4. AloneNow'
  <2>1. alone \in BOOLEAN
    BY DEF PlaylistsBase, AloneNow
  <2>2. Busy' \subseteq Busy \cup {p}
    BY DEF Busy, BaseStep, Turns
  <2>3. alone' = (alone /\ Busy \subseteq {p})
    BY DEF BaseStep, Turns
  <2> QED BY <2>1, <2>2, <2>3 DEF AloneNow
<1> QED BY <1>3, <1>4 DEF PlaylistsBase, BaseStep

\* A step that changes processes alone is of that kind.
LEMMA Quiet ==
  ASSUME PlaylistsBase, UNCHANGED dataVars, NEW p \in Processes, Turns(p), TaskHolds(p)', ListHolds(p)'
  PROVE  BaseStep(p)
<1>1. PlaylistsTypeOK' /\ Moves
  BY SameData DEF PlaylistsBase, Turns
<1>2. SlotsThere'
  BY DEF dataVars, PlaylistsBase, SlotsThere, There
<1> QED BY <1>1, <1>2 DEF BaseStep

\* The clean-up, or a request, ends.
LEMMA QuietReturn ==
  ASSUME PlaylistsBase, UNCHANGED dataVars, NEW p \in Processes, Return(p)
  PROVE  BaseStep(p)
BY ReturnTurns, Quiet DEF PlaylistsBase

\* An id of a playlist's rows was made before.
LEMMA RowMade ==
  ASSUME PlaylistsTypeOK
  PROVE  \A p : \A i \in DOMAIN RowsOf(p) : i \in ItemIds /\ i \in 1..made
BY RowsOfFacts, TypedItems

\* BeginAdd keeps the base of the invariant.
LEMMA BeginAddStep ==
  ASSUME PlaylistsBase, NEW r \in Requests, NEW p \in PlaylistIds, NEW new \in Adds, BeginAdd(r, p, new)
  PROVE  BaseStep(r)
<1>0. r \in Processes /\ PlaylistsTypeOK /\ TasksHold /\ UNCHANGED dataVars
  BY DEF Processes, PlaylistsBase, BeginAdd
<1> DEFINE t == [Blank EXCEPT !.op = "add", !.playlist = p, !.input = new, !.listed = RowsOf(p)]
<1>1. Go(r, "insert", t) /\ CanAdd(RowsOf(p), new)
  BY DEF BeginAdd
<1>2. t = TaskOf("add", p, new, RowsOf(p), <<>>, None, {}, {})
  BY BlankSet
<1> HIDE DEF t
<1>3. Turns(r) /\ step'[r] = "insert" /\ task'[r] = t
  BY <1>0, <1>1, GoTurns DEF Steps
<1>4. IsTask(t) /\ t.playlist = p /\ t.input = new /\ t.listed = RowsOf(p)
  BY <1>2, TaskOfFields
<1>5. new.content \in Contents /\ new.sequence \in Nat \ {0} /\ new.duration \in Nat \ {0}
  BY PlaylistsAssumption
<1>6. TaskHolds(r)'
  BY <1>3, <1>4, <1>5 DEF TaskHolds, ListSteps, SlotSteps, IsTask
<1>7. ListHolds(r)'
  <2>1. Total(task'[r].listed) + task'[r].input.duration <= MaxDuration
    BY <1>1, <1>3, <1>4 DEF CanAdd
  <2> QED BY <1>3, <2>1 DEF ListHolds
<1> QED BY <1>0, <1>3, <1>6, <1>7, Quiet

\* BeginUpdate keeps the base of the invariant.
LEMMA BeginUpdateStep ==
  ASSUME PlaylistsBase, NEW r \in Requests, NEW p \in PlaylistIds, NEW change \in Updates,
         BeginUpdate(r, p, change)
  PROVE  BaseStep(r)
<1>0. r \in Processes /\ PlaylistsTypeOK /\ TasksHold /\ UNCHANGED dataVars
  BY DEF Processes, PlaylistsBase, BeginUpdate
<1> DEFINE t == [Blank EXCEPT !.op = "update", !.playlist = p, !.input = change, !.listed = RowsOf(p)]
<1>1. /\ Go(r, "fetch", t) /\ change.id \in DOMAIN RowsOf(p)
      /\ change.duration # 0 =>
           Total(RowsOf(p)) - items[change.id].duration + change.duration <= MaxDuration
  BY DEF BeginUpdate
<1>2. t = TaskOf("update", p, change, RowsOf(p), <<>>, None, {}, {})
  BY BlankSet
<1> HIDE DEF t
<1>3. Turns(r) /\ step'[r] = "fetch" /\ task'[r] = t
  BY <1>0, <1>1, GoTurns DEF Steps
<1>4. IsTask(t) /\ t.op = "update" /\ t.playlist = p /\ t.input = change /\ t.listed = RowsOf(p)
  BY <1>2, TaskOfFields
<1>5. change.id \in ItemIds /\ change.sequence \in Nat /\ change.duration \in Nat
  BY PlaylistsAssumption
<1>6. /\ items[change.id].playlist = p /\ change.id \in 1..made
      /\ RowsOf(p)[change.id] = items[change.id]
  BY <1>0, <1>1, RowsOfFacts, RowMade
<1>a. /\ change.id <= made'
      /\ items'[change.id] # None => items'[change.id].playlist = p
  BY <1>0, <1>6 DEF dataVars
<1>7. TaskHolds(r)'
  BY <1>3, <1>4, <1>5, <1>a DEF TaskHolds, ListSteps, SlotSteps, IsTask
<1>8. ListHolds(r)'
  <2>1. /\ change.id \in DOMAIN t.listed
        /\ change.duration # 0 =>
             Total(t.listed) - t.listed[change.id].duration + change.duration <= MaxDuration
    BY <1>1, <1>4, <1>6
  <2> QED BY <1>3, <1>4, <2>1 DEF ListHolds
<1> QED BY <1>0, <1>3, <1>7, <1>8, Quiet

\* Fetch keeps the base of the invariant.
LEMMA FetchStep ==
  ASSUME PlaylistsBase, NEW r \in Requests, Fetch(r)
  PROVE  BaseStep(r)
<1>0. /\ r \in Processes /\ PlaylistsTypeOK /\ TasksHold /\ UNCHANGED dataVars
      /\ step[r] = "fetch" /\ TaskHolds(r) /\ ListHolds(r)
  BY DEF Processes, PlaylistsBase, Fetch, TasksHold, ListsHold
<1> DEFINE id == task[r].input.id
           t == [task[r] EXCEPT !.row = items[id]]
<1>1. CASE items[id] = None
  BY <1>0, <1>1, QuietReturn DEF Fetch
<1>2. CASE items[id] # None
  <2>1. Go(r, "write", t)
    BY <1>2 DEF Fetch
  <2>2. t = TaskOf(task[r].op, task[r].playlist, task[r].input, task[r].listed, task[r].found,
                   items[id], task[r].mark, task[r].fade)
    BY <1>0, TaskRow DEF TaskHolds, TaskOf
  <2> HIDE DEF t
  <2>3. Turns(r) /\ step'[r] = "write" /\ task'[r] = t
    BY <1>0, <2>1, GoTurns DEF Steps
  <2>4. /\ IsTask(t) /\ t.op = task[r].op /\ t.playlist = task[r].playlist /\ t.input = task[r].input
        /\ t.listed = task[r].listed /\ t.row = items[id]
    BY <2>2, TaskOfFields
  <2>5. /\ id \in ItemIds /\ id <= made /\ items[id].playlist = task[r].playlist
        /\ items[id] \in ItemRow
    BY <1>0, <1>2, TypedItems DEF TaskHolds, Table
  <2>6. TaskHolds(r)'
    BY <1>0, <1>2, <2>3, <2>4, <2>5 DEF TaskHolds, ListSteps, SlotSteps, dataVars, IsTask
  <2>7. ListHolds(r)'
    BY <1>0, <2>3, <2>4 DEF ListHolds
  <2> QED BY <1>0, <2>3, <2>6, <2>7, Quiet
<1> QED BY <1>1, <1>2

\* BeginDelete keeps the base of the invariant.
LEMMA BeginDeleteStep ==
  ASSUME PlaylistsBase, NEW r \in Requests, NEW p \in PlaylistIds, NEW id \in ItemIds, BeginDelete(r, p, id)
  PROVE  BaseStep(r)
<1>0. r \in Processes /\ PlaylistsTypeOK /\ TasksHold /\ UNCHANGED dataVars
  BY DEF Processes, PlaylistsBase, BeginDelete
<1> DEFINE t == [Blank EXCEPT !.op = "delete", !.playlist = p, !.input = id, !.listed = RowsOf(p)]
<1>1. /\ Go(r, "delete", t) /\ id \in DOMAIN RowsOf(p) /\ Cardinality(DOMAIN RowsOf(p)) > 1
  BY DEF BeginDelete
<1>2. t = TaskOf("delete", p, id, RowsOf(p), <<>>, None, {}, {})
  BY BlankSet
<1> HIDE DEF t
<1>3. Turns(r) /\ step'[r] = "delete" /\ task'[r] = t
  BY <1>0, <1>1, GoTurns DEF Steps
<1>4. IsTask(t) /\ t.playlist = p /\ t.input = id /\ t.listed = RowsOf(p)
  BY <1>2, TaskOfFields
<1>5. items[id].playlist = p /\ id \in 1..made
  BY <1>0, <1>1, RowsOfFacts, RowMade
<1>6. TaskHolds(r)'
  BY <1>0, <1>3, <1>4, <1>5 DEF TaskHolds, ListSteps, SlotSteps, dataVars, IsTask
<1>7. ListHolds(r)'
  BY <1>1, <1>3, <1>4 DEF ListHolds
<1> QED BY <1>0, <1>3, <1>6, <1>7, Quiet

\* BeginReorder keeps the base of the invariant.
LEMMA BeginReorderStep ==
  ASSUME PlaylistsBase, NEW r \in Requests, NEW p \in PlaylistIds, NEW order \in Orders,
         BeginReorder(r, p, order)
  PROVE  BaseStep(r)
<1>0. r \in Processes /\ PlaylistsTypeOK /\ TasksHold /\ UNCHANGED dataVars
  BY DEF Processes, PlaylistsBase, BeginReorder
<1> DEFINE t == [Blank EXCEPT !.op = "reorder", !.playlist = p, !.input = order,
                              !.listed = RowsOf(p), !.found = RowsOf(p)]
<1>1. /\ Go(r, "reorder", t)
      /\ {order[n] : n \in DOMAIN order} = DOMAIN RowsOf(p)
      /\ Len(order) = Cardinality(DOMAIN RowsOf(p))
  BY DEF BeginReorder
<1>2. t = TaskOf("reorder", p, order, RowsOf(p), RowsOf(p), None, {}, {})
  BY BlankReorder
<1> HIDE DEF t
<1>3. Turns(r) /\ step'[r] = "reorder" /\ task'[r] = t
  BY <1>0, <1>1, GoTurns DEF Steps
<1>4. IsTask(t) /\ t.op = "reorder" /\ t.playlist = p /\ t.input = order /\ t.listed = RowsOf(p)
  BY <1>2, TaskOfFields
<1>6. TaskHolds(r)'
  BY <1>0, <1>3, <1>4 DEF TaskHolds, ListSteps, SlotSteps, dataVars, IsTask
<1>7. ListHolds(r)'
  BY <1>1, <1>3, <1>4 DEF ListHolds
<1> QED BY <1>0, <1>3, <1>6, <1>7, Quiet

\* BeginReplace keeps the base of the invariant.
LEMMA BeginReplaceStep ==
  ASSUME PlaylistsBase, NEW r \in Requests, NEW p \in PlaylistIds, NEW list \in Lists,
         BeginReplace(r, p, list)
  PROVE  BaseStep(r)
<1>0. r \in Processes /\ PlaylistsTypeOK /\ TasksHold /\ UNCHANGED dataVars
  BY DEF Processes, PlaylistsBase, BeginReplace
<1> DEFINE t == [Blank EXCEPT !.op = "replace", !.playlist = p, !.input = list]
<1>1. Go(r, "list", t) /\ list # <<>>
  BY DEF BeginReplace
<1>2. t = TaskOf("replace", p, list, <<>>, <<>>, None, {}, {})
  BY BlankAbout
<1> HIDE DEF t
<1>3. Turns(r) /\ step'[r] = "list" /\ task'[r] = t
  BY <1>0, <1>1, GoTurns DEF Steps
<1>4. IsTask(t) /\ t.op = "replace" /\ t.playlist = p /\ t.input = list
  BY <1>2, TaskOfFields
<1>6. TaskHolds(r)'
  BY <1>0, <1>1, <1>3, <1>4 DEF TaskHolds, ListSteps, SlotSteps, dataVars, IsTask
<1>7. ListHolds(r)'
  BY <1>1, <1>3, <1>4 DEF ListHolds
<1> QED BY <1>0, <1>3, <1>6, <1>7, Quiet

\* A creation that fails is taken back; any other request ends.
LEMMA RefuseTurns ==
  ASSUME PlaylistsTypeOK, TasksHold, NEW r \in Requests, Refuse(r), step[r] \notin {"idle", "done"}
  PROVE  /\ Turns(r) /\ TaskHolds(r)' /\ ListHolds(r)'
         /\ IF task[r].op = "create" THEN step'[r] = "undo" /\ task'[r] = task[r]
            ELSE step'[r] = "done" /\ task'[r] = Blank
<1>0. r \in Processes /\ TaskHolds(r)
  BY DEF Processes, TasksHold
<1>1. CASE task[r].op = "create"
  <2>1. Go(r, "undo", task[r])
    BY <1>1 DEF Refuse
  <2>2. Turns(r) /\ step'[r] = "undo" /\ task'[r] = task[r]
    BY <1>0, <2>1, GoTurns DEF Steps
  <2>3. TaskHolds(r)'
    BY <1>0, <1>1, <2>2 DEF TaskHolds, ListSteps, SlotSteps, IsTask
  <2>4. ListHolds(r)'
    BY <2>2 DEF ListHolds
  <2> QED BY <1>1, <2>2, <2>3, <2>4
<1>2. CASE task[r].op # "create"
  BY <1>0, <1>2, ReturnTurns DEF Refuse, FinalStep
<1> QED BY <1>1, <1>2

\* BeginCreate keeps the base of the invariant.
LEMMA BeginCreateStep ==
  ASSUME PlaylistsBase, NEW r \in Requests, NEW p \in PlaylistIds, NEW list \in Lists,
         BeginCreate(r, p, list)
  PROVE  BaseStep(r)
<1>0. r \in Processes /\ PlaylistsTypeOK /\ TasksHold
  BY DEF Processes, PlaylistsBase, BeginCreate
<1> DEFINE t == [Blank EXCEPT !.op = "create", !.playlist = p, !.input = list]
<1>1. /\ Go(r, "list", t) /\ list # <<>> /\ Kept(list) = {} /\ playlist[p] = "absent"
      /\ playlist' = [playlist EXCEPT ![p] = "there"] /\ UNCHANGED <<items, made, unused, slot>>
  BY DEF BeginCreate
<1>2. t = TaskOf("create", p, list, <<>>, <<>>, None, {}, {})
  BY BlankAbout
<1> HIDE DEF t
<1>3. Turns(r) /\ step'[r] = "list" /\ task'[r] = t
  BY <1>0, <1>1, GoTurns DEF Steps
<1>4. IsTask(t) /\ t.op = "create" /\ t.playlist = p /\ t.input = list
  BY <1>2, TaskOfFields
<1>5. TaskHolds(r)'
  BY <1>0, <1>1, <1>3, <1>4 DEF TaskHolds, ListSteps, SlotSteps, IsTask
<1>6. ListHolds(r)'
  BY <1>1, <1>3, <1>4 DEF ListHolds
<1>7. PlaylistsTypeOK'
  <2>1. /\ items \in Table /\ UniqueItems(items) /\ made \in 0..MaxItems
    BY <1>0, TypedItems DEF PlaylistsTypeOK
  <2>2. playlist' \in [PlaylistIds -> {"absent", "there", "gone"}]
    BY <1>0, <1>1 DEF PlaylistsTypeOK
  <2>3. \A i \in ItemIds : items[i] # None =>
           i <= made /\ playlist'[items[i].playlist] = "there" /\ unused[items[i].content] # "gone"
    BY <1>0, <1>1, <2>2 DEF PlaylistsTypeOK, There
  <2> QED BY <1>0, <1>1, <1>3, <2>1, <2>2, <2>3, TypeNext DEF PlaylistsTypeOK, Turns
<1>8. Moves
  BY <1>0, <1>1, PlaylistsAssumption DEF Moves, PlaylistsTypeOK
<1>9. SlotsThere'
  BY <1>1 DEF PlaylistsBase, SlotsThere, There
<1> QED BY <1>3, <1>5, <1>6, <1>7, <1>8, <1>9 DEF BaseStep

\* CheckList keeps the base of the invariant.
LEMMA CheckListStep ==
  ASSUME PlaylistsBase, NEW r \in Requests, CheckList(r)
  PROVE  BaseStep(r)
<1>0. /\ r \in Processes /\ PlaylistsTypeOK /\ TasksHold /\ UNCHANGED dataVars
      /\ step[r] = "list" /\ TaskHolds(r) /\ ListHolds(r)
  BY DEF Processes, PlaylistsBase, CheckList, TasksHold, ListsHold
<1> DEFINE p == task[r].playlist
           t == [task[r] EXCEPT !.listed = RowsOf(p)]
<1>1. CASE ~ Acceptable(task[r].input, RowsOf(p))
  <2>1. Refuse(r)
    BY <1>1 DEF CheckList
  <2> QED BY <1>0, <2>1, RefuseTurns, Quiet
<1>2. CASE Acceptable(task[r].input, RowsOf(p))
  <2>1. Go(r, "relist", t)
    BY <1>2 DEF CheckList
  <2>2. t = TaskOf(task[r].op, task[r].playlist, task[r].input, RowsOf(p), task[r].found,
                   task[r].row, task[r].mark, task[r].fade)
    BY <1>0, TaskListed DEF TaskHolds, TaskOf
  <2> HIDE DEF t
  <2>3. Turns(r) /\ step'[r] = "relist" /\ task'[r] = t
    BY <1>0, <2>1, GoTurns DEF Steps
  <2>4. /\ IsTask(t) /\ t.op = task[r].op /\ t.playlist = task[r].playlist /\ t.input = task[r].input
        /\ t.listed = RowsOf(p)
    BY <2>2, TaskOfFields
  <2>5. TaskHolds(r)'
    BY <1>0, <2>3, <2>4 DEF TaskHolds, ListSteps, SlotSteps, IsTask
  <2>6. ListHolds(r)'
    <3>1. \A i \in DOMAIN RowsOf(p) : i \in 1..made' /\ (items'[i] # None => items'[i].playlist = p)
      BY <1>0, RowMade, RowsOfFacts DEF dataVars
    <3>2. /\ Kept(task[r].input) \subseteq DOMAIN RowsOf(p)
          /\ \A m, n \in DOMAIN task[r].input :
               task[r].input[m].item = task[r].input[n].item /\ task[r].input[m].item # None => m = n
          /\ ListTotal(task[r].input) <= MaxDuration
      BY <1>2 DEF Acceptable
    <3> QED BY <2>3, <2>4, <3>1, <3>2 DEF ListHolds
  <2> QED BY <1>0, <2>3, <2>5, <2>6, Quiet
<1> QED BY <1>1, <1>2

\* Relist keeps the base of the invariant.
LEMMA RelistStep ==
  ASSUME PlaylistsBase, NEW r \in Requests, Relist(r)
  PROVE  BaseStep(r)
<1>0. /\ r \in Processes /\ PlaylistsTypeOK /\ TasksHold /\ UNCHANGED dataVars
      /\ step[r] = "relist" /\ TaskHolds(r) /\ ListHolds(r)
  BY DEF Processes, PlaylistsBase, Relist, TasksHold, ListsHold
<1> DEFINE p == task[r].playlist
           t == [task[r] EXCEPT !.found = RowsOf(p)]
<1>1. Go(r, "replace", t)
  BY DEF Relist
<1>2. t = TaskOf(task[r].op, task[r].playlist, task[r].input, task[r].listed, RowsOf(p),
                 task[r].row, task[r].mark, task[r].fade)
  BY <1>0, TaskFound DEF TaskHolds, TaskOf
<1> HIDE DEF t
<1>3. Turns(r) /\ step'[r] = "replace" /\ task'[r] = t
  BY <1>0, <1>1, GoTurns DEF Steps
<1>4. /\ IsTask(t) /\ t.op = task[r].op /\ t.playlist = task[r].playlist /\ t.input = task[r].input
      /\ t.listed = task[r].listed /\ t.found = RowsOf(p)
  BY <1>2, TaskOfFields
<1>5. TaskHolds(r)'
  BY <1>0, <1>3, <1>4 DEF TaskHolds, ListSteps, SlotSteps, IsTask
<1>6. ListHolds(r)'
  <2>1. \A i \in DOMAIN task[r].listed \ DOMAIN RowsOf(p) : items'[i] = None
    <3> SUFFICES ASSUME NEW i \in DOMAIN task[r].listed \ DOMAIN RowsOf(p), items[i] # None
                 PROVE  FALSE
      BY <1>0 DEF dataVars
    <3>1. i \in 1..made /\ items[i].playlist = p
      BY <1>0 DEF ListHolds
    <3>2. i \in ItemIds
      BY <1>0, <3>1, PlaylistsAssumption DEF ItemIds, PlaylistsTypeOK
    <3> QED BY <1>0, <3>1, <3>2, RowsOfFacts
  <2> QED BY <1>0, <1>3, <1>4, <2>1 DEF ListHolds, dataVars
<1> QED BY <1>0, <1>3, <1>5, <1>6, Quiet

\* BeginDeletePlaylist keeps the base of the invariant.
LEMMA BeginDeletePlaylistStep ==
  ASSUME PlaylistsBase, NEW r \in Requests, NEW p \in PlaylistIds, BeginDeletePlaylist(r, p)
  PROVE  BaseStep(r)
<1>0. r \in Processes /\ PlaylistsTypeOK /\ TasksHold /\ UNCHANGED dataVars
  BY DEF Processes, PlaylistsBase, BeginDeletePlaylist
<1> DEFINE t == [Blank EXCEPT !.op = "drop", !.playlist = p]
<1>1. Go(r, "drop", t)
  BY DEF BeginDeletePlaylist
<1>2. t = TaskOf("drop", p, None, <<>>, <<>>, None, {}, {})
  BY BlankOf
<1> HIDE DEF t
<1>3. Turns(r) /\ step'[r] = "drop" /\ task'[r] = t
  BY <1>0, <1>1, GoTurns DEF Steps
<1>4. IsTask(t) /\ t.playlist = p
  BY <1>2, TaskOfFields
<1>5. TaskHolds(r)'
  BY <1>3, <1>4 DEF TaskHolds, ListSteps, SlotSteps, IsTask
<1>6. ListHolds(r)'
  BY <1>3 DEF ListHolds
<1> QED BY <1>0, <1>3, <1>5, <1>6, Quiet

\* A playlist goes with its items.
LEMMA DropStep ==
  ASSUME PlaylistsBase, NEW p \in Processes, NEW ps, DropPlaylists(ps), UNCHANGED <<made, unused, slot>>,
         Turns(p), TaskHolds(p)', ListHolds(p)'
  PROVE  BaseStep(p)
<1>1. PlaylistsTypeOK' /\ Moves
  BY PlaylistsDropped DEF PlaylistsBase, Turns
<1>2. SlotsThere'
  BY DEF PlaylistsBase, SlotsThere, There
<1> QED BY <1>1, <1>2 DEF BaseStep

\* UndoCreate keeps the base of the invariant.
LEMMA UndoCreateStep ==
  ASSUME PlaylistsBase, NEW r \in Requests, UndoCreate(r)
  PROVE  BaseStep(r)
<1>1. r \in Processes /\ PlaylistsTypeOK /\ TasksHold
  BY DEF Processes, PlaylistsBase
<1>2. Return(r) /\ DropPlaylists({task[r].playlist}) /\ UNCHANGED <<made, unused, slot>>
  BY DEF UndoCreate
<1> QED BY <1>1, <1>2, ReturnTurns, DropStep

\* DeletePlaylist keeps the base of the invariant.
LEMMA DeletePlaylistStep ==
  ASSUME PlaylistsBase, NEW r \in Requests, DeletePlaylist(r)
  PROVE  BaseStep(r)
<1>1. r \in Processes /\ PlaylistsTypeOK /\ TasksHold
  BY DEF Processes, PlaylistsBase
<1>2. Return(r) /\ DropPlaylists({task[r].playlist}) /\ UNCHANGED <<made, unused, slot>>
  BY DEF DeletePlaylist
<1> QED BY <1>1, <1>2, ReturnTurns, DropStep

\* BeginCleanup keeps the base of the invariant.
LEMMA BeginCleanupStep ==
  ASSUME PlaylistsBase, NEW ps \in SUBSET PlaylistIds, BeginCleanup(ps)
  PROVE  BaseStep(Cleanup)
<1>0. Cleanup \in Processes /\ Cleanup \notin Requests /\ PlaylistsTypeOK /\ TasksHold /\ UNCHANGED dataVars
  BY PlaylistsAssumption DEF Processes, PlaylistsBase, BeginCleanup
<1> DEFINE t == [Blank EXCEPT !.input = ps, !.fade = ContentsOf(ps)]
           s == IF ps = {} THEN "choose" ELSE "sweep"
<1>1. Go(Cleanup, s, t)
  BY DEF BeginCleanup
<1>2. t = TaskOf(None, None, ps, <<>>, <<>>, None, {}, ContentsOf(ps))
  BY BlankSweep
<1> HIDE DEF t
<1>3. Turns(Cleanup) /\ step'[Cleanup] = s /\ task'[Cleanup] = t
  BY <1>0, <1>1, GoTurns DEF Steps
<1>4. IsTask(t) /\ s \in CalmSteps
  BY <1>2, TaskOfFields DEF CalmSteps
<1>5. TaskHolds(Cleanup)' /\ ListHolds(Cleanup)'
  BY <1>0, <1>3, <1>4, Calm
<1> QED BY <1>0, <1>3, <1>5, Quiet

\* Sweep keeps the base of the invariant.
LEMMA SweepStep ==
  ASSUME PlaylistsBase, Sweep
  PROVE  BaseStep(Cleanup)
<1>0. Cleanup \in Processes /\ PlaylistsTypeOK /\ TasksHold
  BY DEF Processes, PlaylistsBase
<1>1. /\ step[Cleanup] \notin {"idle", "done"} /\ ThenMark(Cleanup, {}, task[Cleanup].fade)
      /\ DropPlaylists(task[Cleanup].input) /\ UNCHANGED <<made, unused, slot>>
  BY DEF Sweep
<1> QED BY <1>0, <1>1, ThenMarkTurns, DropStep

\* Choose keeps the base of the invariant.
LEMMA ChooseStep ==
  ASSUME PlaylistsBase, Choose
  PROVE  BaseStep(Cleanup)
<1>0. Cleanup \in Processes /\ Cleanup \notin Requests /\ PlaylistsTypeOK /\ TasksHold /\ UNCHANGED dataVars
  BY PlaylistsAssumption DEF Processes, PlaylistsBase, Choose
<1> DEFINE t == [Blank EXCEPT !.mark = Expired, !.listed = slot]
<1>1. CASE Expired = {}
  BY <1>0, <1>1, QuietReturn DEF Choose
<1>2. CASE Expired # {}
  <2>1. Go(Cleanup, "purge", t)
    BY <1>2 DEF Choose
  <2>2. t = TaskOf(None, None, None, slot, <<>>, None, Expired, {})
    BY BlankPurge
  <2> HIDE DEF t
  <2>3. Turns(Cleanup) /\ step'[Cleanup] = "purge" /\ task'[Cleanup] = t
    BY <1>0, <2>1, GoTurns DEF Steps
  <2>4. IsTask(t)
    BY <2>2, TaskOfFields
  <2>5. TaskHolds(Cleanup)' /\ ListHolds(Cleanup)'
    BY <1>0, <2>3, <2>4, Calm DEF CalmSteps
  <2> QED BY <1>0, <2>3, <2>5, Quiet
<1> QED BY <1>1, <1>2

\* BeginSetSlot keeps the base of the invariant.
LEMMA BeginSetSlotStep ==
  ASSUME PlaylistsBase, NEW r \in Requests, NEW s \in Slots, NEW c \in Contents, BeginSetSlot(r, s, c)
  PROVE  BaseStep(r)
<1>0. r \in Processes /\ PlaylistsTypeOK /\ TasksHold /\ UNCHANGED dataVars
  BY DEF Processes, PlaylistsBase, BeginSetSlot
<1> DEFINE in == [slot |-> s, content |-> c]
           t == [Blank EXCEPT !.op = "set", !.input = in]
<1>1. Go(r, "readSlot", t)
  BY DEF BeginSetSlot
<1>2. t = TaskOf("set", None, in, <<>>, <<>>, None, {}, {})
  BY BlankSlot
<1> HIDE DEF t
<1>3. Turns(r) /\ step'[r] = "readSlot" /\ task'[r] = t
  BY <1>0, <1>1, GoTurns DEF Steps
<1>4. IsTask(t) /\ t.op = "set" /\ t.input = in
  BY <1>2, TaskOfFields
<1>5. TaskHolds(r)'
  BY <1>3, <1>4 DEF TaskHolds, ListSteps, SlotSteps, IsTask
<1>6. ListHolds(r)'
  BY <1>3 DEF ListHolds
<1> QED BY <1>0, <1>3, <1>5, <1>6, Quiet

\* BeginClearSlot keeps the base of the invariant.
LEMMA BeginClearSlotStep ==
  ASSUME PlaylistsBase, NEW r \in Requests, NEW s \in Slots, BeginClearSlot(r, s)
  PROVE  BaseStep(r)
<1>0. r \in Processes /\ PlaylistsTypeOK /\ TasksHold /\ UNCHANGED dataVars
  BY DEF Processes, PlaylistsBase, BeginClearSlot
<1> DEFINE in == [slot |-> s, content |-> None]
           t == [Blank EXCEPT !.op = "clear", !.input = in]
<1>1. Go(r, "readSlot", t)
  BY DEF BeginClearSlot
<1>2. t = TaskOf("clear", None, in, <<>>, <<>>, None, {}, {})
  BY BlankSlot
<1> HIDE DEF t
<1>3. Turns(r) /\ step'[r] = "readSlot" /\ task'[r] = t
  BY <1>0, <1>1, GoTurns DEF Steps
<1>4. IsTask(t) /\ t.op = "clear" /\ t.input = in
  BY <1>2, TaskOfFields
<1>5. TaskHolds(r)'
  BY <1>3, <1>4 DEF TaskHolds, ListSteps, SlotSteps, IsTask
<1>6. ListHolds(r)'
  BY <1>3 DEF ListHolds
<1> QED BY <1>0, <1>3, <1>5, <1>6, Quiet

\* ReadSlot keeps the base of the invariant.
LEMMA ReadSlotStep ==
  ASSUME PlaylistsBase, NEW r \in Requests, ReadSlot(r)
  PROVE  BaseStep(r)
<1>0. /\ r \in Processes /\ PlaylistsTypeOK /\ TasksHold /\ UNCHANGED dataVars
      /\ step[r] = "readSlot" /\ TaskHolds(r)
  BY DEF Processes, PlaylistsBase, ReadSlot, TasksHold
<1> DEFINE s == IF task[r].op = "set" THEN "writeSlot" ELSE "clearSlot"
           t == [task[r] EXCEPT !.row = slot[task[r].input.slot]]
<1>1. Go(r, s, t)
  BY DEF ReadSlot
<1>2. t = TaskOf(task[r].op, task[r].playlist, task[r].input, task[r].listed, task[r].found,
                 slot[task[r].input.slot], task[r].mark, task[r].fade)
  BY <1>0, TaskRow DEF TaskHolds, TaskOf
<1> HIDE DEF t
<1>3. Turns(r) /\ step'[r] = s /\ task'[r] = t
  BY <1>0, <1>1, GoTurns DEF Steps
<1>4. IsTask(t) /\ t.op = task[r].op /\ t.input = task[r].input
  BY <1>2, TaskOfFields
<1>5. TaskHolds(r)'
  BY <1>0, <1>3, <1>4 DEF TaskHolds, ListSteps, SlotSteps, IsTask
<1>6. ListHolds(r)'
  BY <1>3 DEF ListHolds
<1> QED BY <1>0, <1>3, <1>5, <1>6, Quiet

\* WriteSlot keeps the base of the invariant.
LEMMA WriteSlotStep ==
  ASSUME PlaylistsBase, NEW r \in Requests, WriteSlot(r)
  PROVE  BaseStep(r)
<1>0. /\ r \in Processes /\ PlaylistsTypeOK /\ TasksHold /\ UNCHANGED <<playlist, items, made, unused>>
      /\ step[r] = "writeSlot" /\ TaskHolds(r)
  BY DEF Processes, PlaylistsBase, WriteSlot, TasksHold
<1> DEFINE in == task[r].input
<1>1. CASE ~ There(in.content)
  BY <1>0, <1>1, QuietReturn DEF WriteSlot, dataVars
<1>2. CASE There(in.content)
  <2>1. Go(r, "rereadSlot", task[r]) /\ slot' = [slot EXCEPT ![in.slot] = in.content]
    BY <1>2 DEF WriteSlot
  <2>2. in.slot \in Slots /\ in.content \in Contents
    BY <1>0 DEF TaskHolds, SlotSteps
  <2>3. Turns(r) /\ step'[r] = "rereadSlot" /\ task'[r] = task[r]
    BY <1>0, <2>1, GoTurns DEF Steps
  <2>4. TaskHolds(r)'
    BY <1>0, <2>3 DEF TaskHolds, ListSteps, SlotSteps, IsTask
  <2>5. ListHolds(r)'
    BY <2>3 DEF ListHolds
  <2>6. slot' \in [Slots -> Contents \cup {None, NoContent}]
    BY <1>0, <2>1, <2>2 DEF PlaylistsTypeOK
  <2>7. PlaylistsTypeOK' /\ Moves
    BY <1>0, <2>3, <2>6, SameItems DEF Turns, PlaylistsTypeOK
  <2>8. SlotsThere'
    BY <1>0, <1>2, <2>1, <2>2 DEF PlaylistsBase, SlotsThere, There, PlaylistsTypeOK
  <2> QED BY <2>3, <2>4, <2>5, <2>7, <2>8 DEF BaseStep
<1> QED BY <1>1, <1>2

\* RereadSlot keeps the base of the invariant.
LEMMA RereadSlotStep ==
  ASSUME PlaylistsBase, NEW r \in Requests, RereadSlot(r)
  PROVE  BaseStep(r)
<1>0. /\ r \in Processes /\ PlaylistsTypeOK /\ TasksHold /\ UNCHANGED dataVars
      /\ step[r] \notin {"idle", "done"}
  BY DEF Processes, PlaylistsBase, RereadSlot
<1>1. CASE Return(r)
  BY <1>0, <1>1, QuietReturn
<1>2. CASE ThenMark(r, {task[r].input.content}, Former(r))
  BY <1>0, <1>2, ThenMarkTurns, Quiet
<1> QED BY <1>1, <1>2 DEF RereadSlot

\* ClearSlot keeps the base of the invariant.
LEMMA ClearSlotStep ==
  ASSUME PlaylistsBase, NEW r \in Requests, ClearSlot(r)
  PROVE  BaseStep(r)
<1>0. /\ r \in Processes /\ PlaylistsTypeOK /\ TasksHold /\ UNCHANGED <<playlist, items, made, unused>>
      /\ step[r] \notin {"idle", "done"}
      /\ slot' = [slot EXCEPT ![task[r].input.slot] = None]
  BY DEF Processes, PlaylistsBase, ClearSlot
<1>1. Turns(r) /\ TaskHolds(r)' /\ ListHolds(r)'
  <2>1. CASE Return(r)
    BY <1>0, <2>1, ReturnTurns
  <2>2. CASE ThenMark(r, {}, Former(r))
    BY <1>0, <2>2, ThenMarkTurns
  <2> QED BY <2>1, <2>2 DEF ClearSlot
<1>2. slot' \in [Slots -> Contents \cup {None, NoContent}]
  BY <1>0 DEF PlaylistsTypeOK
<1>3. PlaylistsTypeOK' /\ Moves
  BY <1>0, <1>1, <1>2, SameItems DEF Turns, PlaylistsTypeOK
<1>4. SlotsThere'
  BY <1>0, PlaylistsAssumption DEF PlaylistsBase, SlotsThere, There, PlaylistsTypeOK
<1> QED BY <1>1, <1>3, <1>4 DEF BaseStep

\* The use of contents is written, and none goes.
LEMMA UseWritten ==
  ASSUME PlaylistsBase, NEW p \in Processes, UNCHANGED <<playlist, items, made, slot>>,
         unused' \in [Contents -> {None, "recent", "old", "gone"}],
         \A c \in Contents : unused'[c] = "gone" => unused[c] = "gone",
         Turns(p), TaskHolds(p)', ListHolds(p)'
  PROVE  BaseStep(p)
<1>1. PlaylistsTypeOK' /\ Moves
  BY SameItems DEF PlaylistsBase, Turns, PlaylistsTypeOK
<1>2. SlotsThere'
  BY DEF PlaylistsBase, SlotsThere, There
<1> QED BY <1>1, <1>2 DEF BaseStep

\* MarkContentUsed keeps the base of the invariant.
LEMMA MarkContentUsedStep ==
  ASSUME PlaylistsBase, NEW p \in Processes, MarkContentUsed(p)
  PROVE  BaseStep(p)
<1>0. /\ PlaylistsTypeOK /\ TasksHold /\ UNCHANGED <<playlist, items, made, slot>>
      /\ step[p] \notin {"idle", "done"} /\ ThenMark(p, {}, task[p].fade)
      /\ unused' = [c \in Contents |-> IF c \in task[p].mark /\ There(c) THEN None ELSE unused[c]]
  BY DEF PlaylistsBase, MarkContentUsed
<1>1. Turns(p) /\ TaskHolds(p)' /\ ListHolds(p)'
  BY <1>0, ThenMarkTurns
<1>2. /\ unused' \in [Contents -> {None, "recent", "old", "gone"}]
      /\ \A c \in Contents : unused'[c] = "gone" => unused[c] = "gone"
  BY <1>0, PlaylistsAssumption DEF PlaylistsTypeOK
<1> QED BY <1>0, <1>1, <1>2, UseWritten

\* RefreshUsed keeps the base of the invariant.
LEMMA RefreshUsedStep ==
  ASSUME PlaylistsBase, NEW p \in Processes, RefreshUsed(p)
  PROVE  BaseStep(p)
<1>0. /\ PlaylistsTypeOK /\ TasksHold /\ UNCHANGED <<playlist, items, made, slot>>
      /\ step[p] = "refresh" /\ Go(p, "age", task[p]) /\ TaskHolds(p)
      /\ unused' = [c \in Contents |-> IF c \in task[p].fade /\ Referenced(c) THEN None ELSE unused[c]]
  BY DEF PlaylistsBase, RefreshUsed, TasksHold
<1>1. Turns(p) /\ step'[p] = "age" /\ task'[p] = task[p]
  BY <1>0, GoTurns DEF Steps
<1>2. TaskHolds(p)' /\ ListHolds(p)'
  BY <1>0, <1>1, Calm DEF CalmSteps, TaskHolds
<1>3. /\ unused' \in [Contents -> {None, "recent", "old", "gone"}]
      /\ \A c \in Contents : unused'[c] = "gone" => unused[c] = "gone"
  BY <1>0, PlaylistsAssumption DEF PlaylistsTypeOK
<1> QED BY <1>0, <1>1, <1>2, <1>3, UseWritten

\* RefreshUnused keeps the base of the invariant.
LEMMA RefreshUnusedStep ==
  ASSUME PlaylistsBase, NEW p \in Processes, RefreshUnused(p)
  PROVE  BaseStep(p)
<1>0. /\ PlaylistsTypeOK /\ TasksHold /\ UNCHANGED <<playlist, items, made, slot>>
      /\ Settle(p)
      /\ unused' = [c \in Contents |->
                      IF c \in task[p].fade /\ unused[c] = None /\ ~Referenced(c) THEN "recent"
                      ELSE unused[c]]
  BY DEF PlaylistsBase, RefreshUnused
<1>1. Turns(p) /\ TaskHolds(p)' /\ ListHolds(p)'
  BY <1>0, SettleTurns
<1>2. /\ unused' \in [Contents -> {None, "recent", "old", "gone"}]
      /\ \A c \in Contents : unused'[c] = "gone" => unused[c] = "gone"
  BY <1>0, PlaylistsAssumption DEF PlaylistsTypeOK
<1> QED BY <1>0, <1>1, <1>2, UseWritten

\* EditContent keeps the base of the invariant.
LEMMA EditContentStep ==
  ASSUME PlaylistsBase, NEW r \in Requests, NEW c \in Contents, EditContent(r, c)
  PROVE  BaseStep(r)
<1>0. /\ r \in Processes /\ PlaylistsTypeOK /\ TasksHold /\ UNCHANGED <<playlist, items, made, slot>>
      /\ Return(r)
      /\ unused' = [unused EXCEPT ![c] = IF Referenced(c) THEN None ELSE "recent"]
  BY DEF Processes, PlaylistsBase, EditContent
<1>1. Turns(r) /\ TaskHolds(r)' /\ ListHolds(r)'
  BY <1>0, ReturnTurns
<1>2. /\ unused' \in [Contents -> {None, "recent", "old", "gone"}]
      /\ \A d \in Contents : unused'[d] = "gone" => unused[d] = "gone"
  BY <1>0, PlaylistsAssumption DEF PlaylistsTypeOK
<1> QED BY <1>0, <1>1, <1>2, UseWritten

\* BeginDeleteContent keeps the base of the invariant.
LEMMA BeginDeleteContentStep ==
  ASSUME PlaylistsBase, NEW r \in Requests, NEW c \in Contents, BeginDeleteContent(r, c)
  PROVE  BaseStep(r)
<1>0. r \in Processes /\ PlaylistsTypeOK /\ TasksHold /\ UNCHANGED dataVars
  BY DEF Processes, PlaylistsBase, BeginDeleteContent
<1> DEFINE t == [Blank EXCEPT !.op = "deleteContent", !.mark = {c}]
<1>1. Go(r, "deleteContent", t)
  BY DEF BeginDeleteContent
<1>2. t = TaskOf("deleteContent", None, None, <<>>, <<>>, None, {c}, {})
  BY BlankContent
<1> HIDE DEF t
<1>3. Turns(r) /\ step'[r] = "deleteContent" /\ task'[r] = t
  BY <1>0, <1>1, GoTurns DEF Steps
<1>4. IsTask(t) /\ t.op = "deleteContent"
  BY <1>2, TaskOfFields
<1>5. TaskHolds(r)' /\ ListHolds(r)'
  BY <1>0, <1>3, <1>4, Calm DEF CalmSteps
<1> QED BY <1>0, <1>3, <1>5, Quiet

\* Contents are deleted, or none of them.
LEMMA DropContentsStep ==
  ASSUME PlaylistsBase, NEW p \in Processes, NEW cs, DropContents(cs), UNCHANGED <<playlist, items, made>>,
         Return(p)
  PROVE  BaseStep(p)
<1>0. PlaylistsTypeOK /\ TasksHold
  BY DEF PlaylistsBase
<1>1. Turns(p) /\ TaskHolds(p)' /\ ListHolds(p)'
  BY <1>0, ReturnTurns
<1>2. CASE \E c \in cs : InItems(c)
  BY <1>1, <1>2, Quiet DEF DropContents, dataVars
<1>3. CASE ~ \E c \in cs : InItems(c)
  <2>1. /\ unused' = [c \in Contents |-> IF c \in cs THEN "gone" ELSE unused[c]]
        /\ slot' = [s \in Slots |-> IF slot[s] \in cs THEN NoContent ELSE slot[s]]
    BY <1>3 DEF DropContents
  <2>2. /\ unused' \in [Contents -> {None, "recent", "old", "gone"}]
        /\ slot' \in [Slots -> Contents \cup {None, NoContent}]
        /\ \A c \in Contents : unused'[c] = "gone" => unused[c] = "gone" \/ ~InItems(c)
    BY <1>0, <1>3, <2>1 DEF PlaylistsTypeOK
  <2>3. PlaylistsTypeOK' /\ Moves
    BY <1>0, <1>1, <2>2, SameItems DEF Turns
  <2>4. SlotsThere'
    BY <1>0, <2>1, PlaylistsAssumption DEF PlaylistsBase, SlotsThere, There, PlaylistsTypeOK
  <2> QED BY <1>1, <2>3, <2>4 DEF BaseStep
<1> QED BY <1>2, <1>3

\* DeleteContent keeps the base of the invariant.
LEMMA DeleteContentStep ==
  ASSUME PlaylistsBase, NEW r \in Requests, DeleteContent(r)
  PROVE  BaseStep(r)
BY DropContentsStep DEF DeleteContent, Processes

\* Purge keeps the base of the invariant.
LEMMA PurgeStep ==
  ASSUME PlaylistsBase, Purge
  PROVE  BaseStep(Cleanup)
BY DropContentsStep DEF Purge, Processes

\* Break keeps the base of the invariant.
LEMMA BreakStep ==
  ASSUME PlaylistsBase, NEW r \in Requests, Break(r)
  PROVE  BaseStep(r)
<1>0. /\ r \in Processes /\ PlaylistsTypeOK /\ TasksHold /\ UNCHANGED dataVars
      /\ step[r] \notin {"idle", "done"}
  BY DEF Processes, PlaylistsBase, Break, Busy
<1>1. CASE Return(r)
  BY <1>0, <1>1, QuietReturn
<1>2. CASE Refuse(r)
  BY <1>0, <1>2, RefuseTurns, Quiet
<1> QED BY <1>1, <1>2 DEF Break

\* Age keeps the base of the invariant.
LEMMA AgeStep ==
  ASSUME PlaylistsBase, Age
  PROVE  PlaylistsBase'
<1>0. /\ PlaylistsTypeOK /\ TasksHold /\ ListsHold /\ UNCHANGED <<playlist, items, made, slot, step, task, alone>>
  BY DEF PlaylistsBase, Age
<1>1. PICK c \in Contents : unused[c] = "recent" /\ unused' = [unused EXCEPT ![c] = "old"]
  BY DEF Age
<1>2. /\ unused' \in [Contents -> {None, "recent", "old", "gone"}]
      /\ \A d \in Contents : unused'[d] = "gone" => unused[d] = "gone"
  BY <1>0, <1>1 DEF PlaylistsTypeOK
<1>3. PlaylistsTypeOK' /\ Moves
  BY <1>0, <1>2, SameItems DEF PlaylistsTypeOK
<1>4. SlotsThere'
  BY <1>0, <1>2 DEF PlaylistsBase, SlotsThere, There
<1>5. \A q \in Processes : TaskHolds(q)' /\ ListHolds(q)'
  <2> SUFFICES ASSUME NEW q \in Processes PROVE TaskHolds(q)' /\ ListHolds(q)'
    OBVIOUS
  <2>1. TaskHolds(q) /\ ListHolds(q) /\ made' \in Nat
    BY <1>0, <1>3 DEF TasksHold, ListsHold, PlaylistsTypeOK
  <2> QED BY <1>0, <1>3, <2>1, TaskStays
<1>6. AloneNow'
  BY <1>0 DEF PlaylistsBase, AloneNow, Busy
<1> QED BY <1>0, <1>3, <1>4, <1>5, <1>6 DEF PlaylistsBase, TasksHold, ListsHold

\* Crash keeps the base of the invariant.
LEMMA CrashStep ==
  ASSUME PlaylistsBase, Crash
  PROVE  PlaylistsBase'
<1>0. /\ PlaylistsTypeOK /\ UNCHANGED dataVars /\ alone' = alone
      /\ step' = [p \in Processes |-> IF p \notin Busy THEN step[p]
                                      ELSE IF p = Cleanup THEN "idle" ELSE "done"]
      /\ task' = [p \in Processes |-> Blank]
  BY DEF PlaylistsBase, Crash
<1>1. \A p \in Processes : step'[p] \in {"idle", "done"} /\ task'[p] = Blank
  BY <1>0 DEF Busy
<1>2. step' \in [Processes -> Steps]
  BY <1>0, <1>1 DEF Steps
<1>3. PlaylistsTypeOK' /\ Moves
  BY <1>0, <1>2, SameData
<1>4. SlotsThere'
  BY <1>0 DEF PlaylistsBase, SlotsThere, There, dataVars
<1>5. \A q \in Processes : TaskHolds(q)' /\ ListHolds(q)'
  BY <1>1, Calm, BlankTask DEF CalmSteps
<1>6. AloneNow'
  <2>1. Busy' = {}
    BY <1>1 DEF Busy
  <2> QED BY <1>0, <2>1 DEF PlaylistsBase, AloneNow
<1>7. TasksHold'
  BY <1>0, <1>5 DEF TasksHold
<1> QED BY <1>3, <1>4, <1>5, <1>6, <1>7 DEF PlaylistsBase, ListsHold

(***************************************************************************)
(* Actions on items: the rows they leave.  First an insertion.             *)
(***************************************************************************)

\* A row with another place, or another duration too.
LEMMA RowPlaced ==
  \A x \in ItemRow : \A n \in Nat \ {0} :
    LET y == [x EXCEPT !.sequence = n]
    IN  y \in ItemRow /\ y.playlist = x.playlist /\ y.content = x.content /\ y.sequence = n /\ y.duration = x.duration
BY DEF ItemRow

\* A row with another duration.
LEMMA RowTimed ==
  \A x \in ItemRow : \A d \in Nat \ {0} :
    LET y == [x EXCEPT !.duration = d]
    IN  y \in ItemRow /\ y.playlist = x.playlist /\ y.content = x.content /\ y.sequence = x.sequence /\ y.duration = d
BY DEF ItemRow

Placed(x, n) == [x EXCEPT !.sequence = n]
Changed(x, n, d) == [x EXCEPT !.sequence = n, !.duration = d]

\* A row with another place, and one with another duration too.
LEMMA RowChanged ==
  \A x \in ItemRow : \A n, d \in Nat \ {0} :
    /\ Changed(x, n, d) \in ItemRow /\ Changed(x, n, d).playlist = x.playlist
    /\ Changed(x, n, d).content = x.content /\ Changed(x, n, d).sequence = n
    /\ Changed(x, n, d).duration = d
    /\ Placed(x, n) \in ItemRow /\ Placed(x, n).playlist = x.playlist
    /\ Placed(x, n).content = x.content /\ Placed(x, n).sequence = n
    /\ Placed(x, n).duration = x.duration
<1> SUFFICES ASSUME NEW x \in ItemRow, NEW n \in Nat \ {0}, NEW d \in Nat \ {0}
    PROVE  /\ Changed(x, n, d) \in ItemRow /\ Changed(x, n, d).playlist = x.playlist
           /\ Changed(x, n, d).content = x.content /\ Changed(x, n, d).sequence = n
           /\ Changed(x, n, d).duration = d
           /\ Placed(x, n) \in ItemRow /\ Placed(x, n).playlist = x.playlist
           /\ Placed(x, n).content = x.content /\ Placed(x, n).sequence = n
           /\ Placed(x, n).duration = x.duration
  OBVIOUS
<1> DEFINE u == [x EXCEPT !.sequence = n]
<1>1. Changed(x, n, d) = [u EXCEPT !.duration = d] /\ Placed(x, n) = u
  BY DEF Changed, Placed
<1>2. u \in ItemRow /\ u.playlist = x.playlist /\ u.content = x.content /\ u.sequence = n /\ u.duration = x.duration
  BY RowPlaced
<1> HIDE DEF u
<1>3. [u EXCEPT !.duration = d] \in ItemRow /\ [u EXCEPT !.duration = d].playlist = u.playlist
      /\ [u EXCEPT !.duration = d].content = u.content /\ [u EXCEPT !.duration = d].sequence = u.sequence
      /\ [u EXCEPT !.duration = d].duration = d
  BY <1>2, RowTimed
<1> QED BY <1>1, <1>2, <1>3

\* What an insertion makes of the playlist.
InsertedRow(r) ==
  [playlist |-> task[r].playlist, content |-> task[r].input.content,
   sequence |-> task[r].input.sequence, duration |-> task[r].input.duration]
InsertedRows(r) ==
  [i \in DOMAIN RowsOf(task[r].playlist) \cup {made + 1} |-> IF i = made + 1 THEN InsertedRow(r) ELSE items[i]]
CanInsert(r) ==
  /\ playlist[task[r].playlist] = "there" /\ There(task[r].input.content)
  /\ task[r].input.sequence \notin SequencesOf(RowsOf(task[r].playlist))

\* An insertion gives the playlist its rows and a new one.
LEMMA InsertedSet ==
  ASSUME PlaylistsBase, NEW r \in Requests, InsertItem(r), CanInsert(r)
  PROVE  /\ SetRows(task[r].playlist, InsertedRows(r))
         /\ made' = made + 1 /\ made + 1 \in ItemIds /\ items[made + 1] = None
         /\ DOMAIN InsertedRows(r) = DOMAIN RowsOf(task[r].playlist) \cup {made + 1}
         /\ \A i \in DOMAIN RowsOf(task[r].playlist) : i # made + 1 /\ InsertedRows(r)[i] = items[i]
         /\ InsertedRows(r)[made + 1] = InsertedRow(r) /\ InsertedRow(r) \in ItemRow
         /\ ThenMark(r, {task[r].input.content}, {})
<1>0. /\ r \in Processes /\ PlaylistsTypeOK
      /\ step[r] = "insert" /\ TaskHolds(r) /\ made < MaxItems
  BY DEF Processes, PlaylistsBase, InsertItem, TasksHold
<1> DEFINE p == task[r].playlist
           new == task[r].input
           row == InsertedRow(r)
           id == made + 1
           R == InsertedRows(r)
<1>1. items' = [items EXCEPT ![id] = row] /\ made' = id /\ ThenMark(r, {new.content}, {})
  BY DEF InsertItem, CanInsert, InsertedRow
<1>2. /\ p \in PlaylistIds /\ new.content \in Contents
      /\ new.sequence \in Nat \ {0} /\ new.duration \in Nat \ {0}
  BY <1>0 DEF TaskHolds
<1>3. row \in ItemRow /\ row.playlist = p /\ row.sequence = new.sequence
  BY <1>2 DEF ItemRow, InsertedRow
<1>4. made \in Nat /\ id \in ItemIds /\ id \in 0..MaxItems
  BY <1>0, PlaylistsAssumption DEF PlaylistsTypeOK, ItemIds
<1>5. items[id] = None
  <2>1. id \notin 1..made
    BY <1>4
  <2> QED BY <1>0, <1>4, <2>1, TypedItems
<1>6. /\ DOMAIN R = DOMAIN RowsOf(p) \cup {id}
      /\ \A i \in DOMAIN R : R[i] = IF i = id THEN row ELSE items[i]
      /\ R = [i \in DOMAIN RowsOf(p) \cup {id} |-> IF i = id THEN row ELSE items[i]]
  BY DEF InsertedRows
<1> HIDE DEF row, R
<1>7. \A i \in DOMAIN RowsOf(p) : i # id /\ R[i] = items[i] /\ R[i] = RowsOf(p)[i]
  BY <1>0, <1>5, <1>6, RowsOfFacts
<1>8. Unique(R)
  <2> SUFFICES ASSUME NEW i \in DOMAIN R, NEW j \in DOMAIN R, R[i].sequence = R[j].sequence
               PROVE  i = j
    BY DEF Unique
  <2>1. \A k \in DOMAIN RowsOf(p) : R[k].sequence # new.sequence
    BY <1>7 DEF CanInsert, SequencesOf
  <2>2. R[id].sequence = new.sequence
    BY <1>3, <1>6
  <2>3. Unique(RowsOf(p))
    BY <1>0, <1>2, RowsOfFacts
  <2>4. i \in DOMAIN RowsOf(p) \/ i = id
    BY <1>6
  <2>5. j \in DOMAIN RowsOf(p) \/ j = id
    BY <1>6
  <2> QED BY <1>7, <2>1, <2>2, <2>3, <2>4, <2>5 DEF Unique
<1>9. SetRows(p, R)
  <2> HIDE DEF id, p
  <2> QED BY <1>0, <1>1, <1>2, <1>3, <1>4, <1>5, <1>6, <1>8, RowPut
<1> QED BY <1>1, <1>3, <1>4, <1>5, <1>6, <1>7, <1>9 DEF row, R

\* InsertItem keeps the base of the invariant.
LEMMA InsertItemStep ==
  ASSUME PlaylistsBase, NEW r \in Requests, InsertItem(r)
  PROVE  BaseStep(r)
<1>0. /\ r \in Processes /\ PlaylistsTypeOK /\ TasksHold /\ UNCHANGED <<playlist, unused, slot>>
      /\ step[r] = "insert" /\ TaskHolds(r) /\ made < MaxItems
  BY DEF Processes, PlaylistsBase, InsertItem, TasksHold
<1> DEFINE p == task[r].playlist
           id == made + 1
           R == InsertedRows(r)
<1>s. SlotsThere'
  BY <1>0 DEF PlaylistsBase, SlotsThere, There
<1>1. CASE ~CanInsert(r)
  <2>1. Return(r) /\ UNCHANGED dataVars
    BY <1>0, <1>1 DEF InsertItem, CanInsert, dataVars
  <2> QED BY <1>0, <2>1, QuietReturn
<1>2. CASE CanInsert(r)
  <2>1. /\ SetRows(p, R) /\ made' = id /\ id \in ItemIds /\ ThenMark(r, {task[r].input.content}, {})
        /\ DOMAIN R = DOMAIN RowsOf(p) \cup {id}
        /\ \A i \in DOMAIN RowsOf(p) : R[i] = items[i]
        /\ R[id] = InsertedRow(r)
    BY <1>2, InsertedSet
  <2>2. made \in Nat /\ id \in 0..MaxItems /\ made <= id
    BY <1>0, PlaylistsAssumption DEF PlaylistsTypeOK
  <2>3. There(R[id].content) /\ playlist[p] = "there"
    BY <1>2, <2>1 DEF CanInsert, InsertedRow
  <2> HIDE DEF R
  <2>9. \A i \in DOMAIN R : IF i <= made THEN items[i] # None /\ R[i].content = items[i].content
                            ELSE i <= id /\ There(R[i].content)
    <3> SUFFICES ASSUME NEW i \in DOMAIN R
                 PROVE  IF i <= made THEN items[i] # None /\ R[i].content = items[i].content
                        ELSE i <= id /\ There(R[i].content)
      OBVIOUS
    <3>1. CASE i = id
      BY <2>2, <2>3, <3>1
    <3>2. CASE i # id
      <4>1. i \in DOMAIN RowsOf(p) /\ R[i] = items[i]
        BY <2>1, <3>2
      <4>2. items[i] # None /\ i \in 1..made
        BY <1>0, <4>1, RowsOfFacts, RowMade
      <4> QED BY <2>2, <4>1, <4>2
    <3> QED BY <3>1, <3>2
  <2>10. Turns(r) /\ TaskHolds(r)' /\ ListHolds(r)'
    BY <1>0, <2>1, ThenMarkTurns
  <2>11. PlaylistsTypeOK' /\ Moves
    <3> HIDE DEF id
    <3> QED BY <1>0, <2>1, <2>2, <2>3, <2>9, <2>10, RowsSet DEF Turns
  <2> QED BY <1>s, <2>10, <2>11 DEF BaseStep
<1> QED BY <1>1, <1>2

(***************************************************************************)
(* An update.                                                              *)
(***************************************************************************)

UpdatedRow(r) == Merged(task[r].row, task[r].input)
UpdatedRows(r) ==
  LET p == task[r].playlist  id == task[r].input.id
  IN  [i \in DOMAIN RowsOf(p) \cup {id} |-> IF i = id THEN UpdatedRow(r) ELSE items[i]]

\* An update gives the playlist its rows with one of them changed, or fails.
LEMMA UpdatedSet ==
  ASSUME PlaylistsBase, NEW r \in Requests, WriteItem(r)
  PROVE  \/ UNCHANGED items
         \/ /\ SetRows(task[r].playlist, UpdatedRows(r))
            /\ task[r].input.id \in DOMAIN RowsOf(task[r].playlist)
            /\ DOMAIN UpdatedRows(r) = DOMAIN RowsOf(task[r].playlist)
            /\ \A i \in DOMAIN UpdatedRows(r) :
                 UpdatedRows(r)[i] = IF i = task[r].input.id THEN UpdatedRow(r) ELSE items[i]
            /\ \A i \in DOMAIN UpdatedRows(r) : UpdatedRows(r)[i].content = items[i].content
            /\ UpdatedRow(r) \in ItemRow
            /\ UpdatedRow(r).duration = IF task[r].input.duration = 0 THEN task[r].row.duration
                                        ELSE task[r].input.duration
<1>0. /\ r \in Processes /\ PlaylistsTypeOK /\ TaskHolds(r) /\ step[r] = "write"
  BY DEF Processes, PlaylistsBase, WriteItem, TasksHold
<1> DEFINE p == task[r].playlist
           in == task[r].input
           id == in.id
           row == UpdatedRow(r)
           R == UpdatedRows(r)
<1>1. /\ p \in PlaylistIds /\ in.sequence \in Nat /\ in.duration \in Nat /\ id \in ItemIds
      /\ task[r].row \in ItemRow /\ task[r].row.playlist = p
      /\ items[id] # None => items[id].playlist = p /\ items[id].content = task[r].row.content
  BY <1>0 DEF TaskHolds
<1>2. /\ row \in ItemRow /\ row.playlist = p /\ row.content = task[r].row.content
      /\ row.duration = IF in.duration = 0 THEN task[r].row.duration ELSE in.duration
  <2> DEFINE n == IF in.sequence = 0 THEN task[r].row.sequence ELSE in.sequence
             d == IF in.duration = 0 THEN task[r].row.duration ELSE in.duration
  <2>1. n \in Nat \ {0} /\ d \in Nat \ {0}
    BY <1>1, RowFields
  <2>2. row = Changed(task[r].row, n, d)
    BY DEF UpdatedRow, Merged, Changed
  <2> HIDE DEF n, row
  <2>3. d = IF in.duration = 0 THEN task[r].row.duration ELSE in.duration
    OBVIOUS
  <2> HIDE DEF d
  <2> DEFINE x == task[r].row
  <2>4. x \in ItemRow
    BY <1>1
  <2> HIDE DEF x
  <2>5. /\ Changed(x, n, d) \in ItemRow /\ Changed(x, n, d).playlist = x.playlist
        /\ Changed(x, n, d).content = x.content /\ Changed(x, n, d).duration = d
    BY <2>1, <2>4, RowChanged, ZenonT(30)
  <2>6. row = Changed(x, n, d)
    BY <2>2 DEF x
  <2>7. row \in ItemRow /\ row.playlist = x.playlist /\ row.content = x.content /\ row.duration = d
    BY <2>5, <2>6
  <2> QED BY <1>1, <2>3, <2>7 DEF x
<1>3. /\ DOMAIN R = DOMAIN RowsOf(p) \cup {id}
      /\ \A i \in DOMAIN R : R[i] = IF i = id THEN row ELSE items[i]
      /\ R = [i \in DOMAIN RowsOf(p) \cup {id} |-> IF i = id THEN row ELSE items[i]]
  BY DEF UpdatedRows
<1>4. items' = IF id \in DOMAIN RowsOf(p) /\ Unique([RowsOf(p) EXCEPT ![id] = row])
               THEN [items EXCEPT ![id] = row] ELSE items
  BY <1>2 DEF WriteItem, UpdatedRow
<1> HIDE DEF row, R
<1>5. CASE id \in DOMAIN RowsOf(p) /\ Unique([RowsOf(p) EXCEPT ![id] = row])
  <2>1. \A i : i \in DOMAIN RowsOf(p) => RowsOf(p)[i] = items[i]
    BY <1>0, RowsOfFacts
  <2>2. Unique(R)
    <3> DEFINE Y == [RowsOf(p) EXCEPT ![id] = row]
    <3>1. DOMAIN Y = DOMAIN R /\ \A i \in DOMAIN R : R[i] = Y[i]
      BY <1>3, <1>5, <2>1
    <3>2. Unique(Y)
      BY <1>5
    <3> HIDE DEF Y
    <3> QED BY <3>1, <3>2 DEF Unique
  <2>3. items' = [items EXCEPT ![id] = row]
    BY <1>4, <1>5
  <2>4. SetRows(p, R)
    <3> HIDE DEF id, p
    <3> QED BY <1>0, <1>1, <1>2, <1>3, <2>2, <2>3, RowPut
  <2>5. items[id] # None
    BY <1>0, <1>5, RowsOfFacts
  <2>6. \A i \in DOMAIN R : R[i].content = items[i].content
    BY <1>1, <1>2, <1>3, <2>5
  <2> QED BY <1>2, <1>3, <1>5, <2>4, <2>6 DEF row, R
<1>6. CASE ~(id \in DOMAIN RowsOf(p) /\ Unique([RowsOf(p) EXCEPT ![id] = row]))
  BY <1>4, <1>6
<1> QED BY <1>5, <1>6

\* A step that leaves the playlist rows of items it had.
LEMMA KeptRowsStep ==
  ASSUME PlaylistsBase, NEW p \in Processes, NEW q, NEW part, SetRows(q, part),
         UNCHANGED <<playlist, made, unused, slot>>, Turns(p), TaskHolds(p)', ListHolds(p)',
         DOMAIN part \subseteq DOMAIN RowsOf(q),
         \A i \in DOMAIN part : part[i].content = items[i].content
  PROVE  BaseStep(p)
<1>0. PlaylistsTypeOK /\ made \in 0..MaxItems
  BY DEF PlaylistsBase, PlaylistsTypeOK
<1>1. \A i \in DOMAIN part : items[i] # None /\ items[i].playlist = q /\ i \in ItemIds /\ i \in 1..made
  BY <1>0, RowsOfFacts, RowMade
<1>2. DOMAIN part # {} => playlist[q] = "there"
  BY <1>0, <1>1 DEF PlaylistsTypeOK
<1>3. PlaylistsTypeOK' /\ Moves
  BY <1>0, <1>1, <1>2, RowsSet DEF Turns
<1>4. SlotsThere'
  BY DEF PlaylistsBase, SlotsThere, There
<1> QED BY <1>3, <1>4 DEF BaseStep

\* WriteItem keeps the base of the invariant.
LEMMA WriteItemStep ==
  ASSUME PlaylistsBase, NEW r \in Requests, WriteItem(r)
  PROVE  BaseStep(r)
<1>0. /\ r \in Processes /\ PlaylistsTypeOK /\ TasksHold /\ UNCHANGED <<playlist, made, unused, slot>> /\ Return(r)
  BY DEF Processes, PlaylistsBase, WriteItem
<1>1. CASE UNCHANGED items
  BY <1>0, <1>1, QuietReturn DEF dataVars
<1>2. CASE /\ SetRows(task[r].playlist, UpdatedRows(r))
           /\ DOMAIN UpdatedRows(r) = DOMAIN RowsOf(task[r].playlist)
           /\ \A i \in DOMAIN UpdatedRows(r) : UpdatedRows(r)[i].content = items[i].content
  BY <1>0, <1>2, ReturnTurns, KeptRowsStep
<1> QED BY <1>1, <1>2, UpdatedSet

(***************************************************************************)
(* A deletion.                                                             *)
(***************************************************************************)

DeletedRows(r) == [i \in DOMAIN RowsOf(task[r].playlist) \ {task[r].input} |-> items[i]]

\* A deletion gives the playlist its rows without one of them.
LEMMA DeletedSet ==
  ASSUME PlaylistsBase, NEW r \in Requests, DeleteItem(r)
  PROVE  /\ task[r].input \in ItemIds
         /\ \/ items[task[r].input] = None /\ UNCHANGED items /\ Return(r)
            \/ /\ SetRows(task[r].playlist, DeletedRows(r))
               /\ items[task[r].input] # None
               /\ DOMAIN DeletedRows(r) = DOMAIN RowsOf(task[r].playlist) \ {task[r].input}
               /\ \A i \in DOMAIN DeletedRows(r) : DeletedRows(r)[i] = items[i]
               /\ ThenMark(r, {}, {items[task[r].input].content})
<1>0. /\ r \in Processes /\ PlaylistsTypeOK /\ TaskHolds(r) /\ step[r] = "delete"
      /\ items' = [items EXCEPT ![task[r].input] = None]
  BY DEF Processes, PlaylistsBase, DeleteItem, TasksHold
<1> DEFINE id == task[r].input
           p == task[r].playlist
           R == DeletedRows(r)
<1>1. id \in ItemIds /\ (items[id] # None => items[id].playlist = p)
  BY <1>0 DEF TaskHolds
<1>2. CASE items[id] = None
  <2>1. items' = items
    BY <1>0, <1>1, <1>2 DEF PlaylistsTypeOK
  <2> QED BY <1>1, <1>2, <2>1 DEF DeleteItem
<1>3. CASE items[id] # None
  <2>1. R = [i \in DOMAIN RowsOf(p) \ {id} |-> items[i]]
    BY DEF DeletedRows
  <2>2. DOMAIN R = DOMAIN RowsOf(p) \ {id} /\ \A i \in DOMAIN R : R[i] = items[i]
    BY <2>1
  <2> HIDE DEF R
  <2>3. SetRows(p, R)
    <3> HIDE DEF id, p
    <3> QED BY <1>0, <1>1, <1>3, <2>1, RowOut DEF id
  <2>4. ThenMark(r, {}, {items[id].content})
    BY <1>3 DEF DeleteItem
  <2> QED BY <1>1, <1>3, <2>2, <2>3, <2>4 DEF R
<1> QED BY <1>2, <1>3

\* DeleteItem keeps the base of the invariant.
LEMMA DeleteItemStep ==
  ASSUME PlaylistsBase, NEW r \in Requests, DeleteItem(r)
  PROVE  BaseStep(r)
<1>0. /\ r \in Processes /\ PlaylistsTypeOK /\ TasksHold /\ UNCHANGED <<playlist, made, unused, slot>>
      /\ step[r] \notin {"idle", "done"}
  BY DEF Processes, PlaylistsBase, DeleteItem
<1>1. CASE UNCHANGED items /\ Return(r)
  BY <1>0, <1>1, QuietReturn DEF dataVars
<1>2. CASE /\ SetRows(task[r].playlist, DeletedRows(r))
           /\ DOMAIN DeletedRows(r) = DOMAIN RowsOf(task[r].playlist) \ {task[r].input}
           /\ \A i \in DOMAIN DeletedRows(r) : DeletedRows(r)[i] = items[i]
           /\ ThenMark(r, {}, {items[task[r].input].content})
  <2>1. Turns(r) /\ TaskHolds(r)' /\ ListHolds(r)'
    BY <1>0, <1>2, ThenMarkTurns
  <2>2. /\ DOMAIN DeletedRows(r) \subseteq DOMAIN RowsOf(task[r].playlist)
        /\ \A i \in DOMAIN DeletedRows(r) : DeletedRows(r)[i].content = items[i].content
    BY <1>2
  <2> QED BY <1>0, <1>2, <2>1, <2>2, KeptRowsStep
<1> QED BY <1>1, <1>2, DeletedSet

(***************************************************************************)
(* A reordering.                                                           *)
(***************************************************************************)

ReorderedRows(r) == Reordered(RowsOf(task[r].playlist), task[r].input)

\* An item's place in an order has the item.
LEMMA PlaceFound ==
  ASSUME NEW order, NEW id, NEW m \in DOMAIN order, order[m] = id
  PROVE  PlaceOf(id, order) \in DOMAIN order /\ order[PlaceOf(id, order)] = id
BY DEF PlaceOf

\* A reordering changes no row but in its place.
LEMMA ReorderedFacts ==
  ASSUME PlaylistsBase, NEW r \in Requests, step[r] = "reorder"
  PROVE  LET R == ReorderedRows(r)  order == task[r].input  old == RowsOf(task[r].playlist)
         IN  /\ R = [i \in DOMAIN R |-> R[i]] /\ DOMAIN R = DOMAIN old
             /\ IsRows(R, task[r].playlist)
             /\ \A i \in DOMAIN R : R[i].content = items[i].content /\ R[i].duration = items[i].duration
             /\ \A i \in DOMAIN R : \/ PlaceOf(i, order) \in DOMAIN order /\ order[PlaceOf(i, order)] = i
                                       /\ R[i].sequence = PlaceOf(i, order)
                                    \/ R[i] = items[i] /\ \A n \in DOMAIN order : order[n] # i
             /\ order \in Seq(ItemIds)
<1>0. /\ r \in Processes /\ PlaylistsTypeOK /\ TaskHolds(r)
  BY DEF Processes, PlaylistsBase, TasksHold
<1> DEFINE p == task[r].playlist
           order == task[r].input
           old == RowsOf(p)
           R == ReorderedRows(r)
<1>1. order \in Seq(ItemIds) /\ \A n \in DOMAIN order : n \in Nat \ {0}
  <2>1. order \in Seq(ItemIds)
    BY <1>0, PlaylistsAssumption DEF TaskHolds
  <2> HIDE DEF order
  <2>2. DOMAIN order = 1..Len(order) /\ Len(order) \in Nat
    BY <2>1
  <2> QED BY <2>1, <2>2
<1>2. \A i \in DOMAIN old : old[i] = items[i] /\ items[i] \in ItemRow /\ i \in ItemIds /\ items[i].playlist = p
  BY <1>0, RowsOfFacts
<1> HIDE DEF order
<1>3. R = [i \in DOMAIN old |-> IF \E n \in DOMAIN order : order[n] = i
                                THEN Placed(old[i], PlaceOf(i, order)) ELSE old[i]]
  BY DEF ReorderedRows, Reordered, Placed, order
<1>4. DOMAIN R = DOMAIN old /\ R = [i \in DOMAIN R |-> R[i]]
  BY <1>3
<1>5. ASSUME NEW i \in DOMAIN old
      PROVE  /\ R[i] \in ItemRow /\ R[i].playlist = p
             /\ R[i].content = items[i].content /\ R[i].duration = items[i].duration
             /\ \/ PlaceOf(i, order) \in DOMAIN order /\ order[PlaceOf(i, order)] = i
                   /\ R[i].sequence = PlaceOf(i, order)
                \/ R[i] = items[i] /\ \A n \in DOMAIN order : order[n] # i
  <2>1. CASE \E n \in DOMAIN order : order[n] = i
    <3>1. PlaceOf(i, order) \in DOMAIN order /\ order[PlaceOf(i, order)] = i
      BY <2>1, PlaceFound
    <3>2. R[i] = Placed(items[i], PlaceOf(i, order))
      BY <1>2, <1>3, <2>1
    <3> DEFINE x == items[i]
               n == PlaceOf(i, order)
    <3>3. x \in ItemRow /\ n \in Nat \ {0} /\ x.playlist = p
      BY <1>1, <1>2, <3>1
    <3> HIDE DEF x, n
    <3>4. /\ Placed(x, n) \in ItemRow /\ Placed(x, n).playlist = x.playlist
          /\ Placed(x, n).content = x.content /\ Placed(x, n).sequence = n
          /\ Placed(x, n).duration = x.duration
      BY <3>3, RowChanged, ZenonT(30)
    <3> QED BY <3>1, <3>2, <3>3, <3>4 DEF x, n
  <2>2. CASE ~ \E n \in DOMAIN order : order[n] = i
    BY <1>2, <1>3, <2>2
  <2> QED BY <2>1, <2>2
<1>6. IsRows(R, p)
  BY <1>2, <1>4, <1>5 DEF IsRows
<1> QED BY <1>1, <1>4, <1>5, <1>6 DEF R, order

\* A reordering gives the playlist these rows, or fails.
LEMMA ReorderedSet ==
  ASSUME PlaylistsBase, NEW r \in Requests, ReorderItems(r)
  PROVE  IF Unique(ReorderedRows(r)) THEN SetRows(task[r].playlist, ReorderedRows(r)) ELSE UNCHANGED items
<1>0. /\ r \in Processes /\ PlaylistsTypeOK /\ TaskHolds(r) /\ step[r] = "reorder"
  BY DEF Processes, PlaylistsBase, ReorderItems, TasksHold
<1> DEFINE p == task[r].playlist
           R == ReorderedRows(r)
<1>1. DOMAIN R = DOMAIN RowsOf(p) /\ IsRows(R, p)
  BY <1>0, ReorderedFacts
<1>2. items' = IF Unique(R) THEN [i \in ItemIds |-> IF i \in DOMAIN R THEN R[i] ELSE items[i]] ELSE items
  BY DEF ReorderItems, ReorderedRows
<1> HIDE DEF R
<1>3. CASE Unique(R)
  <2>1. p \in PlaylistIds
    BY <1>0 DEF TaskHolds
  <2>2. \A i \in DOMAIN R : items[i] # None => items[i].playlist = p
    BY <1>0, <1>1, RowsOfFacts
  <2>3. items' = WithRows(items, p, R)
    BY <1>1, <1>2, <1>3, RowsAre DEF WithRows
  <2> QED BY <1>1, <1>3, <2>1, <2>2, <2>3 DEF SetRows, R
<1>4. CASE ~Unique(R)
  BY <1>2, <1>4 DEF R
<1> QED BY <1>3, <1>4

\* ReorderItems keeps the base of the invariant.
LEMMA ReorderItemsStep ==
  ASSUME PlaylistsBase, NEW r \in Requests, ReorderItems(r)
  PROVE  BaseStep(r)
<1>0. /\ r \in Processes /\ PlaylistsTypeOK /\ TasksHold /\ UNCHANGED <<playlist, made, unused, slot>>
      /\ step[r] = "reorder" /\ Return(r)
  BY DEF Processes, PlaylistsBase, ReorderItems
<1>1. CASE ~Unique(ReorderedRows(r))
  <2>1. UNCHANGED items
    BY <1>1, ReorderedSet
  <2> QED BY <1>0, <2>1, QuietReturn DEF dataVars
<1>2. CASE Unique(ReorderedRows(r))
  <2> DEFINE R == ReorderedRows(r)
  <2>1. SetRows(task[r].playlist, R)
    BY <1>2, ReorderedSet
  <2>2. /\ DOMAIN R = DOMAIN RowsOf(task[r].playlist)
        /\ \A i \in DOMAIN R : R[i].content = items[i].content
    BY <1>0, ReorderedFacts
  <2> HIDE DEF R
  <2> QED BY <1>0, <2>1, <2>2, ReturnTurns, KeptRowsStep
<1> QED BY <1>1, <1>2

(***************************************************************************)
(* A replacement.                                                          *)
(***************************************************************************)

\* What a list that clients ask for holds.
LEMMA ListEntries ==
  ASSUME NEW list \in Lists
  PROVE  /\ list \in Seq(Entry) /\ Len(list) \in Nat /\ DOMAIN list = 1..Len(list) /\ IsFiniteSet(DOMAIN list)
         /\ NewEntries(list) \subseteq DOMAIN list /\ IsFiniteSet(NewEntries(list))
         /\ \A n \in DOMAIN list :
              /\ n \in Nat \ {0} /\ list[n].duration \in Nat \ {0}
              /\ list[n].item = None => list[n].content \in Contents
              /\ list[n].item # None => list[n].item \in ItemIds /\ list[n].item \in Kept(list)
         /\ \A n \in NewEntries(list) : list[n].content \in Contents /\ list[n].content \in NewContents(list)
<1>1. list \in Seq(Entry)
  BY PlaylistsAssumption
<1>2. Len(list) \in Nat /\ DOMAIN list = 1..Len(list)
  BY <1>1
<1>3. \A n \in DOMAIN list : list[n] \in Entry /\ n \in Nat \ {0}
  BY <1>1, <1>2
<1>4. IsFiniteSet(DOMAIN list)
  BY <1>2, FS_Interval
<1>5. NewEntries(list) \subseteq DOMAIN list
  BY DEF NewEntries
<1>6. \A n \in DOMAIN list : /\ list[n].duration \in Nat \ {0}
                             /\ list[n].item = None => list[n].content \in Contents
                             /\ list[n].item # None => list[n].item \in ItemIds
  BY <1>3 DEF Entry
<1>7. \A n \in DOMAIN list : list[n].item # None => list[n].item \in Kept(list)
  BY DEF Kept
<1>8. \A n \in NewEntries(list) : list[n].content \in Contents /\ list[n].content \in NewContents(list)
  BY <1>6, PlaylistsAssumption DEF NewEntries, NewContents
<1> HIDE DEF Kept
<1> QED BY <1>1, <1>2, <1>3, <1>4, <1>5, <1>6, <1>7, <1>8, FS_Subset

\* New items get ids of their own, after all there were.
LEMMA NewIds ==
  ASSUME NEW list \in Lists, made \in Nat
  PROVE  /\ Cardinality(NewEntries(list)) \in Nat
         /\ \A n \in NewEntries(list) :
              /\ NewId(list, n) \in Nat /\ NewId(list, n) > made
              /\ NewId(list, n) <= made + Cardinality(NewEntries(list))
         /\ \A m, n \in NewEntries(list) : NewId(list, m) = NewId(list, n) => m = n
<1> DEFINE E == NewEntries(list)
           U(n) == {m \in E : m <= n}
<1>1. IsFiniteSet(E) /\ \A n \in E : n \in Nat
  BY ListEntries
<1>2. \A n : NewId(list, n) = made + Cardinality(U(n))
  BY DEF NewId
<1> HIDE DEF E
<1>3. ASSUME NEW n \in E
      PROVE  /\ IsFiniteSet(U(n)) /\ Cardinality(U(n)) \in Nat /\ Cardinality(U(n)) >= 1
             /\ Cardinality(U(n)) <= Cardinality(E)
  <2>1. U(n) \subseteq E /\ n \in U(n)
    BY <1>1
  <2>2. IsFiniteSet(U(n)) /\ Cardinality(U(n)) <= Cardinality(E)
    BY <1>1, <2>1, FS_Subset
  <2>3. Cardinality(U(n)) \in Nat
    BY <2>2, FS_CardinalityType
  <2>4. Cardinality(U(n)) # 0
    BY <2>1, <2>2, FS_EmptySet
  <2> QED BY <2>2, <2>3, <2>4
<1>4. ASSUME NEW m \in E, NEW n \in E, m < n PROVE Cardinality(U(m)) < Cardinality(U(n))
  <2>1. U(m) \subseteq U(n) /\ n \in U(n) /\ n \notin U(m)
    BY <1>1, <1>4
  <2>2. U(m) # U(n)
    BY <2>1
  <2>3. IsFiniteSet(U(n))
    BY <1>3
  <2> HIDE DEF U
  <2> QED BY <2>1, <2>2, <2>3, FS_Subset, FS_CardinalityType
<1>5. Cardinality(E) \in Nat
  BY <1>1, FS_CardinalityType
<1>6. ASSUME NEW m \in E, NEW n \in E, NewId(list, m) = NewId(list, n) PROVE m = n
  <2>1. Cardinality(U(m)) = Cardinality(U(n))
    BY <1>2, <1>3, <1>6
  <2>2. ~ (m < n) /\ ~ (n < m)
    BY <1>3, <1>4, <2>1
  <2> QED BY <1>1, <2>2
<1>7. \A n \in E : /\ NewId(list, n) \in Nat /\ NewId(list, n) > made
                   /\ NewId(list, n) <= made + Cardinality(E)
  <2> SUFFICES ASSUME NEW n \in E
               PROVE  /\ NewId(list, n) \in Nat /\ NewId(list, n) > made
                      /\ NewId(list, n) <= made + Cardinality(E)
    OBVIOUS
  <2> DEFINE a == Cardinality(U(n))
  <2>1. a \in Nat /\ a >= 1 /\ a <= Cardinality(E) /\ NewId(list, n) = made + a
    BY <1>2, <1>3
  <2> HIDE DEF a, U
  <2> QED BY <1>5, <2>1
<1> QED BY <1>5, <1>6, <1>7 DEF E

ReplacedRows(r) == Replaced(r, RowsOf(task[r].playlist))
FreshIds(r) == {NewId(task[r].input, n) : n \in NewEntries(task[r].input)}
KeptIds(r) == Kept(task[r].input) \cap DOMAIN RowsOf(task[r].playlist) \cap DOMAIN task[r].found
\* The place of an item in the list that is asked for.
PlaceIn(r, i) ==
  LET list == task[r].input
  IN  IF i \in FreshIds(r) THEN CHOOSE n \in NewEntries(list) : NewId(list, n) = i
      ELSE CHOOSE n \in DOMAIN list : list[n].item = i

\* The rows a replacement makes: the new ones for entries without an item, the kept at their
\* entry's place, the others as they were.
LEMMA ReplacedFacts ==
  ASSUME PlaylistsBase, NEW r \in Requests, step[r] = "replace"
  PROVE  LET R == ReplacedRows(r)  list == task[r].input  old == RowsOf(task[r].playlist)
         IN  /\ list \in Lists /\ list # <<>> /\ task[r].playlist \in PlaylistIds
             /\ DOMAIN R = (DOMAIN old \ Dropped(r)) \cup FreshIds(r)
             /\ \A i \in FreshIds(r) :
                  /\ i > made /\ i <= made + Cardinality(NewEntries(list)) /\ i \notin DOMAIN old
                  /\ PlaceIn(r, i) \in NewEntries(list) /\ NewId(list, PlaceIn(r, i)) = i
                  /\ R[i].playlist = task[r].playlist /\ R[i].content = list[PlaceIn(r, i)].content
                  /\ R[i].sequence = PlaceIn(r, i) /\ R[i].duration = list[PlaceIn(r, i)].duration
             /\ \A i \in KeptIds(r) :
                  /\ i \in DOMAIN R /\ i \notin FreshIds(r) /\ PlaceIn(r, i) \in DOMAIN list /\ list[PlaceIn(r, i)].item = i
                  /\ R[i].content = items[i].content
                  /\ R[i].sequence = PlaceIn(r, i) /\ R[i].duration = list[PlaceIn(r, i)].duration
             /\ \A i \in DOMAIN R : i \in FreshIds(r) \/ i \in KeptIds(r) \/ R[i] = items[i]
             /\ \A i \in DOMAIN R : i \in ItemIds \/ i \in FreshIds(r)
             /\ R = [i \in DOMAIN R |-> R[i]]
             /\ \A i \in DOMAIN R : R[i] \in ItemRow /\ R[i].playlist = task[r].playlist
             /\ \A i \in DOMAIN R \ FreshIds(r) : i \in DOMAIN old /\ R[i].content = items[i].content
<1>0. /\ r \in Processes /\ PlaylistsTypeOK /\ TaskHolds(r) /\ made \in Nat
  BY DEF Processes, PlaylistsBase, TasksHold, PlaylistsTypeOK
<1> DEFINE p == task[r].playlist
           list == task[r].input
           old == RowsOf(p)
           R == ReplacedRows(r)
           F == FreshIds(r)
           K == KeptIds(r)
           new(i) == [playlist |-> p, content |-> list[PlaceIn(r, i)].content, sequence |-> PlaceIn(r, i),
                      duration |-> list[PlaceIn(r, i)].duration]
<1>1. p \in PlaylistIds /\ list \in Lists /\ list # <<>>
  BY <1>0 DEF TaskHolds, ListSteps
<1>2. \A i \in DOMAIN old : /\ old[i] = items[i] /\ items[i] \in ItemRow /\ items[i].playlist = p
                            /\ i \in ItemIds /\ i \in 1..made
  BY <1>0, RowsOfFacts, RowMade
<1>3. R = [i \in (DOMAIN old \ Dropped(r)) \cup F |->
             IF i \in F THEN new(i)
             ELSE IF i \in K THEN Changed(old[i], PlaceIn(r, i), list[PlaceIn(r, i)].duration)
             ELSE old[i]]
  BY DEF ReplacedRows, Replaced, FreshIds, KeptIds, PlaceIn, Changed
<1>4. DOMAIN R = (DOMAIN old \ Dropped(r)) \cup F /\ R = [i \in DOMAIN R |-> R[i]]
  BY <1>3
<1> HIDE DEF list
<1>f. ASSUME NEW i \in F
      PROVE  /\ i > made /\ i <= made + Cardinality(NewEntries(list)) /\ i \notin DOMAIN old
             /\ PlaceIn(r, i) \in NewEntries(list) /\ NewId(list, PlaceIn(r, i)) = i
             /\ R[i] \in ItemRow
             /\ R[i].playlist = p /\ R[i].content = list[PlaceIn(r, i)].content
             /\ R[i].sequence = PlaceIn(r, i) /\ R[i].duration = list[PlaceIn(r, i)].duration
  <2>1. \E n \in NewEntries(list) : NewId(list, n) = i
    BY DEF FreshIds, list
  <2>2. PlaceIn(r, i) \in NewEntries(list) /\ NewId(list, PlaceIn(r, i)) = i
    BY <2>1 DEF PlaceIn, list
  <2>3. i \in Nat /\ i > made /\ i <= made + Cardinality(NewEntries(list))
    BY <1>0, <1>1, <2>2, NewIds
  <2>4. i \notin DOMAIN old
    BY <1>0, <1>2, <2>3
  <2>5. R[i] = new(i)
    BY <1>3
  <2>6. PlaceIn(r, i) \in Nat \ {0} /\ list[PlaceIn(r, i)].content \in Contents
        /\ list[PlaceIn(r, i)].duration \in Nat \ {0}
    BY <1>1, <2>2, ListEntries
  <2> HIDE DEF R, F, p
  <2>7. R[i] \in ItemRow
    BY <1>1, <2>5, <2>6 DEF ItemRow
  <2> QED BY <2>2, <2>3, <2>4, <2>5, <2>7
<1>k. ASSUME NEW i \in K
      PROVE  /\ i \in DOMAIN R /\ i \notin F /\ PlaceIn(r, i) \in DOMAIN list /\ list[PlaceIn(r, i)].item = i
             /\ R[i] \in ItemRow /\ R[i].playlist = p
             /\ R[i].content = items[i].content
             /\ R[i].sequence = PlaceIn(r, i) /\ R[i].duration = list[PlaceIn(r, i)].duration
  <2>1. /\ i \in DOMAIN old /\ i \notin Dropped(r)
        /\ \E n \in DOMAIN list : list[n].item = i
    BY DEF KeptIds, Kept, Dropped, list
  <2>2. i \notin F
    BY <1>f, <2>1
  <2>3. PlaceIn(r, i) \in DOMAIN list /\ list[PlaceIn(r, i)].item = i
    BY <2>1, <2>2 DEF PlaceIn, list
  <2> DEFINE x == old[i]
             n == PlaceIn(r, i)
             d == list[PlaceIn(r, i)].duration
  <2>4. x \in ItemRow /\ n \in Nat \ {0} /\ d \in Nat \ {0} /\ x.playlist = p /\ x.content = items[i].content
    BY <1>1, <1>2, <2>1, <2>3, ListEntries
  <2>5. R[i] = Changed(x, n, d) /\ i \in DOMAIN R
    BY <1>3, <2>1, <2>2
  <2>n. n = PlaceIn(r, i) /\ d = list[PlaceIn(r, i)].duration
    OBVIOUS
  <2> HIDE DEF x, n, d, R, F, K
  <2>6. /\ Changed(x, n, d) \in ItemRow /\ Changed(x, n, d).playlist = x.playlist
        /\ Changed(x, n, d).content = x.content /\ Changed(x, n, d).sequence = n
        /\ Changed(x, n, d).duration = d
    BY <2>4, RowChanged, ZenonT(30)
  <2> QED BY <2>2, <2>3, <2>4, <2>5, <2>6, <2>n
<1>o. ASSUME NEW i \in DOMAIN R, i \notin F, i \notin K PROVE R[i] = items[i] /\ i \in DOMAIN old
  BY <1>2, <1>3, <1>o
<1>5. ASSUME NEW i \in DOMAIN R
      PROVE  /\ i \in F \/ i \in K \/ R[i] = items[i]
             /\ i \in ItemIds \/ i \in F
             /\ R[i] \in ItemRow /\ R[i].playlist = p
             /\ i \notin F => i \in DOMAIN old /\ R[i].content = items[i].content
  <2>1. i \notin F => i \in DOMAIN old
    BY <1>4
  <2> HIDE DEF R, F, K, old
  <2> QED BY <1>2, <1>f, <1>k, <1>o, <2>1
<1> HIDE DEF R, F, K
<1> QED BY <1>1, <1>4, <1>5, <1>f, <1>k DEF R, F, K, list

\* A replacement gives the playlist these rows, or fails.
LEMMA ReplacedSet ==
  ASSUME PlaylistsBase, NEW r \in Requests, ReplaceItems(r)
  PROVE  \/ UNCHANGED <<items, made>> /\ Refuse(r)
            /\ ~ (/\ Unique(ReplacedRows(r))
                  /\ NewContents(task[r].input) # {} => playlist[task[r].playlist] = "there"
                  /\ \A c \in NewContents(task[r].input) : There(c))
         \/ /\ SetRows(task[r].playlist, ReplacedRows(r))
            /\ made' = made + Cardinality(NewEntries(task[r].input)) /\ made' <= MaxItems
            /\ NewContents(task[r].input) # {} => playlist[task[r].playlist] = "there"
            /\ \A c \in NewContents(task[r].input) : There(c)
            /\ ThenMark(r, NewContents(task[r].input), {task[r].found[i].content : i \in Dropped(r)})
<1>0. /\ r \in Processes /\ PlaylistsTypeOK /\ step[r] = "replace"
  BY DEF Processes, PlaylistsBase, ReplaceItems
<1> DEFINE p == task[r].playlist
           list == task[r].input
           R == ReplacedRows(r)
           new == NewContents(list)
           can == Unique(R) /\ (new # {} => playlist[p] = "there") /\ \A c \in new : There(c)
<1>1. /\ made + Cardinality(NewEntries(list)) <= MaxItems
      /\ IF can
         THEN /\ items' = [i \in ItemIds |-> IF i \in DOMAIN R THEN R[i]
                                             ELSE IF i \in DOMAIN RowsOf(p) THEN None
                                             ELSE items[i]]
              /\ made' = made + Cardinality(NewEntries(list))
              /\ ThenMark(r, new, {task[r].found[i].content : i \in Dropped(r)})
         ELSE Refuse(r) /\ UNCHANGED <<items, made>>
  BY DEF ReplaceItems, ReplacedRows
<1>2. /\ p \in PlaylistIds /\ list \in Lists
      /\ \A i \in DOMAIN R : i \in ItemIds \/ i \in FreshIds(r)
      /\ \A i \in DOMAIN R : i \in FreshIds(r) \/ i \in DOMAIN RowsOf(p)
      /\ R = [i \in DOMAIN R |-> R[i]]
      /\ \A i \in DOMAIN R : R[i] \in ItemRow /\ R[i].playlist = p
      /\ \A i \in FreshIds(r) : i > made /\ i <= made + Cardinality(NewEntries(list))
  BY <1>0, ReplacedFacts
<1> HIDE DEF R, list
<1>3. CASE can
  <2>1. made \in Nat /\ Cardinality(NewEntries(list)) \in Nat /\ MaxItems \in Nat
    BY <1>0, <1>2, NewIds, PlaylistsAssumption DEF PlaylistsTypeOK
  <2>2. \A i \in FreshIds(r) : i \in ItemIds /\ items[i] = None
    <3> SUFFICES ASSUME NEW i \in FreshIds(r) PROVE i \in ItemIds /\ items[i] = None
      OBVIOUS
    <3>1. i \in Nat
      BY <1>2, <2>1, NewIds DEF FreshIds, list
    <3>2. i \in ItemIds /\ i \notin 1..made
      BY <1>1, <1>2, <2>1, <3>1 DEF ItemIds
    <3> QED BY <1>0, <3>2, TypedItems
  <2>3. IsRows(R, p)
    BY <1>2, <2>2 DEF IsRows
  <2>4. \A i \in DOMAIN R : items[i] # None => items[i].playlist = p
    <3>1. \A i \in DOMAIN RowsOf(p) : items[i].playlist = p
      BY <1>0, RowsOfFacts
    <3> QED BY <1>2, <2>2, <3>1
  <2>5. items' = WithRows(items, p, R)
    BY <1>1, <1>3, RowsAre DEF WithRows
  <2>6. SetRows(p, R)
    BY <1>2, <1>3, <2>3, <2>4, <2>5 DEF SetRows
  <2> QED BY <1>1, <1>3, <2>6 DEF R, list
<1>4. CASE ~can
  BY <1>1, <1>4 DEF R, list
<1> QED BY <1>3, <1>4

\* ReplaceItems keeps the base of the invariant.
LEMMA ReplaceItemsStep ==
  ASSUME PlaylistsBase, NEW r \in Requests, ReplaceItems(r)
  PROVE  BaseStep(r)
<1>0. /\ r \in Processes /\ PlaylistsTypeOK /\ TasksHold /\ UNCHANGED <<playlist, unused, slot>>
      /\ step[r] = "replace" /\ made \in Nat
  BY DEF Processes, PlaylistsBase, ReplaceItems, PlaylistsTypeOK
<1> DEFINE p == task[r].playlist
           list == task[r].input
           R == ReplacedRows(r)
           new == NewContents(list)
<1>s. SlotsThere'
  BY <1>0 DEF PlaylistsBase, SlotsThere, There
<1>1. CASE UNCHANGED <<items, made>> /\ Refuse(r)
  <2>1. UNCHANGED dataVars
    BY <1>0, <1>1 DEF dataVars
  <2>2. Turns(r) /\ TaskHolds(r)' /\ ListHolds(r)'
    BY <1>0, <1>1, RefuseTurns
  <2> QED BY <1>0, <2>1, <2>2, Quiet
<1>2. CASE /\ SetRows(p, R)
           /\ made' = made + Cardinality(NewEntries(list)) /\ made' <= MaxItems
           /\ new # {} => playlist[p] = "there"
           /\ \A c \in new : There(c)
           /\ ThenMark(r, new, {task[r].found[i].content : i \in Dropped(r)})
  <2>1. Turns(r) /\ TaskHolds(r)' /\ ListHolds(r)'
    BY <1>0, <1>2, ThenMarkTurns
  <2>2. /\ list \in Lists
        /\ \A i \in FreshIds(r) : /\ i > made /\ i <= made + Cardinality(NewEntries(list))
                                  /\ R[i].content = list[PlaceIn(r, i)].content
                                  /\ PlaceIn(r, i) \in NewEntries(list)
        /\ \A i \in DOMAIN R \ FreshIds(r) : i \in DOMAIN RowsOf(p) /\ R[i].content = items[i].content
    BY <1>0, ReplacedFacts
  <2> HIDE DEF R, list
  <2>3. Cardinality(NewEntries(list)) \in Nat
    BY <1>0, <2>2, NewIds
  <2>4. made' \in 0..MaxItems /\ made <= made'
    BY <1>0, <1>2, <2>3, PlaylistsAssumption
  <2>5. \A i \in FreshIds(r) : ~ (i <= made) /\ i <= made' /\ There(R[i].content) /\ new # {}
    <3> SUFFICES ASSUME NEW i \in FreshIds(r)
                 PROVE  ~ (i <= made) /\ i <= made' /\ There(R[i].content) /\ new # {}
      OBVIOUS
    <3>1. i \in Nat
      BY <1>0, <2>2, NewIds DEF FreshIds, list
    <3>2. R[i].content \in new
      BY <2>2, ListEntries
    <3>3. ~ (i <= made) /\ i <= made'
      BY <1>0, <1>2, <2>2, <3>1
    <3> QED BY <1>2, <3>2, <3>3
  <2>6. \A i \in DOMAIN RowsOf(p) : items[i] # None /\ items[i].playlist = p /\ i \in ItemIds /\ i \in 1..made
    BY <1>0, RowsOfFacts, RowMade
  <2>7. \A i \in DOMAIN R : IF i <= made THEN items[i] # None /\ R[i].content = items[i].content
                            ELSE i <= made' /\ There(R[i].content)
    <3> SUFFICES ASSUME NEW i \in DOMAIN R
                 PROVE  IF i <= made THEN items[i] # None /\ R[i].content = items[i].content
                        ELSE i <= made' /\ There(R[i].content)
      OBVIOUS
    <3>1. CASE i \in FreshIds(r)
      BY <2>5, <3>1
    <3>2. CASE i \notin FreshIds(r)
      <4>1. items[i] # None /\ i \in 1..made /\ R[i].content = items[i].content
        BY <2>2, <2>6, <3>2
      <4> QED BY <1>0, <4>1
    <3> QED BY <3>1, <3>2
  <2>8. DOMAIN R # {} => playlist[p] = "there"
    <3> SUFFICES ASSUME NEW i \in DOMAIN R PROVE playlist[p] = "there"
      OBVIOUS
    <3>1. CASE i \in FreshIds(r)
      BY <1>2, <2>5, <3>1
    <3>2. CASE i \notin FreshIds(r)
      BY <1>0, <2>2, <2>6, <3>2 DEF PlaylistsTypeOK
    <3> QED BY <3>1, <3>2
  <2>9. PlaylistsTypeOK' /\ Moves
    BY <1>0, <1>2, <2>1, <2>4, <2>7, <2>8, RowsSet DEF Turns
  <2> QED BY <1>s, <2>1, <2>9 DEF BaseStep
<1> QED BY <1>1, <1>2, ReplacedSet

(***************************************************************************)
(* The base always holds.                                                  *)
(***************************************************************************)

\* The items there are at the start are the first ones.
LEMMA StartedFacts ==
  LET S == {i \in ItemIds : Started[i] # None}
  IN  Cardinality(S) \in 0..MaxItems /\ \A i \in S : i <= Cardinality(S)
<1> DEFINE S == {i \in ItemIds : Started[i] # None}
<1>0. MaxItems \in Nat /\ ItemIds = 1..MaxItems
  BY PlaylistsAssumption DEF ItemIds
<1>1. IsFiniteSet(ItemIds) /\ Cardinality(ItemIds) = MaxItems
  BY <1>0, FS_Interval
<1>2. IsFiniteSet(S) /\ Cardinality(S) <= MaxItems
  BY <1>1, FS_Subset
<1>3. Cardinality(S) \in Nat
  BY <1>2, FS_CardinalityType
<1>4. ASSUME NEW i \in S PROVE i <= Cardinality(S)
  <2>1. \A j \in ItemIds : j <= i => j \in S
    BY PlaylistsAssumption
  <2>2. i \in 1..MaxItems
    BY <1>0
  <2>3. 1..i \subseteq S
    <3> SUFFICES ASSUME NEW j \in 1..i PROVE j \in S
      OBVIOUS
    <3>1. j \in ItemIds /\ j <= i
      BY <1>0, <2>2
    <3> QED BY <2>1, <3>1
  <2> HIDE DEF S
  <2>4. Cardinality(1..i) = i
    BY <1>0, <2>2, FS_Interval
  <2>5. Cardinality(1..i) <= Cardinality(S)
    BY <1>2, <2>3, FS_Subset
  <2> QED BY <2>4, <2>5
<1> QED BY <1>0, <1>2, <1>3, <1>4

\* The base holds at the start,
LEMMA InitBase == PlaylistsInit => PlaylistsBase
<1> SUFFICES ASSUME PlaylistsInit PROVE PlaylistsBase
  OBVIOUS
<1> DEFINE S == {i \in ItemIds : Started[i] # None}
<1>0. /\ items = Started /\ made = Cardinality(S) /\ slot = [s \in Slots |-> None]
      /\ step = [p \in Processes |-> "idle"] /\ task = [p \in Processes |-> Blank] /\ alone = TRUE
      /\ playlist = [p \in PlaylistIds |->
                      IF \E i \in ItemIds : Started[i] # None /\ Started[i].playlist = p THEN "there" ELSE "absent"]
      /\ unused = [c \in Contents |->
                    IF \E i \in ItemIds : Started[i] # None /\ Started[i].content = c THEN None ELSE "recent"]
  BY DEF PlaylistsInit
<1>1. items \in Table
  BY <1>0, PlaylistsAssumption DEF Table
<1>2. UniqueItems(items)
  <2>1. \A i, j \in ItemIds : i \in Nat /\ j \in Nat
    BY PlaylistsAssumption DEF ItemIds
  <2>2. ASSUME NEW i \in ItemIds, NEW j \in ItemIds, items[i] # None, items[j] # None,
               items[i].playlist = items[j].playlist, items[i].sequence = items[j].sequence, i <= j
        PROVE  i = j
    BY <1>0, <2>2, PlaylistsAssumption
  <2>3. ASSUME NEW i \in ItemIds, NEW j \in ItemIds, items[i] # None, items[j] # None,
               items[i].playlist = items[j].playlist, items[i].sequence = items[j].sequence
        PROVE  i = j
    <3>1. i <= j \/ j <= i
      BY <2>1
    <3> QED BY <2>2, <2>3, <3>1
  <2> QED BY <2>3 DEF UniqueItems
<1>3. made \in 0..MaxItems /\ \A i \in ItemIds : items[i] # None => i <= made
  BY <1>0, StartedFacts
<1>4. \A i \in ItemIds : items[i] # None => playlist[items[i].playlist] = "there" /\ There(items[i].content)
  <2> SUFFICES ASSUME NEW i \in ItemIds, items[i] # None
               PROVE  playlist[items[i].playlist] = "there" /\ There(items[i].content)
    OBVIOUS
  <2>1. items[i].playlist \in PlaylistIds /\ items[i].content \in Contents
    BY <1>1, RowFields DEF Table
  <2>2. playlist[items[i].playlist] = "there"
    BY <1>0, <2>1
  <2>3. unused[items[i].content] = None
    BY <1>0, <2>1
  <2> QED BY <2>2, <2>3, PlaylistsAssumption DEF There
<1>5. PlaylistsTypeOK
  <2>1. \A p \in PlaylistIds : Unique(RowsOf(p))
    BY <1>1, <1>2, UniqueRows, RowsAre
  <2>2. step \in [Processes -> Steps]
    BY <1>0 DEF Steps
  <2>3. playlist \in [PlaylistIds -> {"absent", "there", "gone"}]
    BY <1>0
  <2>4. unused \in [Contents -> {None, "recent", "old", "gone"}] /\ slot \in [Slots -> Contents \cup {None, NoContent}]
    BY <1>0
  <2> QED BY <1>1, <1>3, <1>4, <2>1, <2>2, <2>3, <2>4 DEF PlaylistsTypeOK, Table
<1>6. TasksHold
  <2>1. \A p \in Processes : TaskHolds(p)
    BY <1>0, BlankTask DEF TaskHolds, ListSteps, SlotSteps, IsTask
  <2> QED BY <1>0, <2>1 DEF TasksHold
<1>7. ListsHold
  BY <1>0 DEF ListsHold, ListHolds
<1>8. SlotsThere
  BY <1>0, PlaylistsAssumption DEF SlotsThere
<1>9. AloneNow
  BY <1>0 DEF AloneNow, Busy
<1> QED BY <1>5, <1>6, <1>7, <1>8, <1>9 DEF PlaylistsBase

\* What a step of the specification is.
LEMMA NextCases ==
  ASSUME PlaylistsNext
  PROVE  \/ \E r \in Requests : BeginItemStep(r) \/ ItemStep(r) \/ OtherStep(r)
         \/ \E p \in Processes : ContentStep(p)
         \/ \E ps \in SUBSET PlaylistIds : BeginCleanup(ps)
         \/ Sweep \/ Choose \/ Purge \/ Age \/ Crash
BY DEF PlaylistsNext

\* Every step of a request keeps the base.
LEMMA RequestStepIs ==
  ASSUME PlaylistsBase, NEW r \in Requests, BeginItemStep(r) \/ ItemStep(r) \/ OtherStep(r)
  PROVE  BaseStep(r)
<1>1. CASE BeginItemStep(r)
  BY <1>1, BeginAddStep, BeginUpdateStep, BeginDeleteStep, BeginReorderStep, BeginReplaceStep, BeginCreateStep
     DEF BeginItemStep
<1>2. CASE ItemStep(r)
  BY <1>2, InsertItemStep, FetchStep, WriteItemStep, DeleteItemStep, ReorderItemsStep, CheckListStep, RelistStep,
     ReplaceItemsStep, UndoCreateStep DEF ItemStep
<1>3. CASE OtherStep(r)
  BY <1>3, BeginDeletePlaylistStep, DeletePlaylistStep, BeginSetSlotStep, BeginClearSlotStep, ReadSlotStep,
     WriteSlotStep, RereadSlotStep, ClearSlotStep, EditContentStep, BeginDeleteContentStep, DeleteContentStep,
     BreakStep DEF OtherStep
<1> QED BY <1>1, <1>2, <1>3

\* So does every step that writes the use of contents.
LEMMA ContentStepIs ==
  ASSUME PlaylistsBase, NEW p \in Processes, ContentStep(p)
  PROVE  BaseStep(p)
BY MarkContentUsedStep, RefreshUsedStep, RefreshUnusedStep DEF ContentStep

\* and every step keeps it.
LEMMA NextBase == PlaylistsBase /\ [PlaylistsNext]_playlistsVars => PlaylistsBase'
<1> SUFFICES ASSUME PlaylistsBase, [PlaylistsNext]_playlistsVars PROVE PlaylistsBase'
  OBVIOUS
<1>c. Cleanup \in Processes /\ \A r \in Requests : r \in Processes
  BY DEF Processes
<1>1. CASE \E r \in Requests : BeginItemStep(r) \/ ItemStep(r) \/ OtherStep(r)
  BY <1>1, <1>c, RequestStepIs, BaseNext
<1>2. CASE \E p \in Processes : ContentStep(p)
  BY <1>2, ContentStepIs, BaseNext
<1>3. CASE \E ps \in SUBSET PlaylistIds : BeginCleanup(ps)
  BY <1>3, <1>c, BeginCleanupStep, BaseNext
<1>4. CASE Sweep
  BY <1>4, <1>c, SweepStep, BaseNext
<1>5. CASE Choose
  BY <1>5, <1>c, ChooseStep, BaseNext
<1>6. CASE Purge
  BY <1>6, <1>c, PurgeStep, BaseNext
<1>7. CASE Age
  BY <1>7, AgeStep
<1>8. CASE Crash
  BY <1>8, CrashStep
<1>9. CASE UNCHANGED playlistsVars
  <2>1. UNCHANGED <<playlist, items, made, unused, slot, step, task, alone, strayed, breaks>>
    BY <1>9 DEF playlistsVars, dataVars
  <2>2. step' \in [Processes -> Steps] /\ UNCHANGED dataVars
    BY <2>1 DEF PlaylistsBase, PlaylistsTypeOK, dataVars
  <2>3. PlaylistsTypeOK' /\ Moves
    BY <2>2, SameData DEF PlaylistsBase
  <2>4. \A q \in Processes : TaskHolds(q)' /\ ListHolds(q)'
    <3> SUFFICES ASSUME NEW q \in Processes PROVE TaskHolds(q)' /\ ListHolds(q)'
      OBVIOUS
    <3>1. TaskHolds(q) /\ ListHolds(q) /\ made' \in Nat
      BY <2>3 DEF PlaylistsBase, TasksHold, ListsHold, PlaylistsTypeOK
    <3>2. step'[q] = step[q] /\ task'[q] = task[q]
      BY <2>1
    <3> QED BY <2>3, <3>1, <3>2, TaskStays DEF PlaylistsBase
  <2> QED BY <2>1, <2>3, <2>4 DEF PlaylistsBase, TasksHold, ListsHold, SlotsThere, There, AloneNow, Busy
<1> QED BY <1>1, <1>2, <1>3, <1>4, <1>5, <1>6, <1>7, <1>8, <1>9, NextCases

(***************************************************************************)
(* What is used is marked, or about to be.                                 *)
(***************************************************************************)

\* What a new item uses is to be marked.
NewMarked(p) ==
  \A i \in ItemIds : items'[i] # None /\ ~ (i <= made) =>
    step'[p] = "mark" /\ items'[i].content \in task'[p].mark

\* A step that starts no use without a mark, and lets nothing age that is used, keeps
\* UsedIsMarked.
LEMMA UsedStep ==
  ASSUME PlaylistsBase, UsedIsMarked, NEW p \in Processes, BaseStep(p),
         step[p] \notin {"mark", "rereadSlot"}, NewMarked(p),
         \A s \in Slots : \/ slot'[s] \notin Contents \/ slot'[s] = slot[s]
                          \/ step'[p] = "rereadSlot" /\ task'[p].input.slot = s /\ task'[p].input.content = slot'[s],
         \A c \in Contents : unused'[c] # None => unused[c] # None \/ ~Referenced(c)'
  PROVE  UsedIsMarked'
<1>0. Turns(p) /\ Moves /\ PlaylistsTypeOK'
  BY DEF BaseStep
<1>1. ASSUME NEW c \in Contents, Marking(c) PROVE Marking(c)'
  <2>1. PICK q \in Processes : step[q] = "mark" /\ c \in task[q].mark
    BY <1>1 DEF Marking
  <2>2. step'[q] = step[q] /\ task'[q] = task[q]
    BY <1>0, <2>1 DEF Turns
  <2> QED BY <2>1, <2>2 DEF Marking
<1>2. ASSUME NEW s \in Slots, NEW c \in Contents, Setting(s, c) PROVE Setting(s, c)'
  <2>1. PICK q \in Processes : step[q] = "rereadSlot" /\ task[q].input.slot = s /\ task[q].input.content = c
    BY <1>2 DEF Setting
  <2>2. step'[q] = step[q] /\ task'[q] = task[q]
    BY <1>0, <2>1 DEF Turns
  <2> QED BY <2>1, <2>2 DEF Setting
<1>3. ASSUME NEW c \in Contents, unused'[c] # None, InItems(c)' PROVE Marking(c)'
  <2>1. PICK i \in ItemIds : items'[i] # None /\ items'[i].content = c
    BY <1>3 DEF InItems
  <2>2. unused[c] # None
    BY <1>3 DEF Referenced
  <2>3. CASE i <= made
    <3>1. items[i] # None /\ items[i].content = c
      BY <1>0, <2>1, <2>3 DEF Moves
    <3> QED BY <1>1, <2>2, <3>1 DEF UsedIsMarked, InItems
  <2>4. CASE ~ (i <= made)
    BY <2>1, <2>4 DEF NewMarked, Marking
  <2> QED BY <2>3, <2>4
<1>4. ASSUME NEW c \in Contents, unused'[c] # None, NEW s \in Slots, slot'[s] = c
      PROVE  Marking(c)' \/ Setting(s, c)'
  <2>1. unused[c] # None
    BY <1>4 DEF Referenced, InSlots
  <2>2. CASE slot[s] = c
    BY <1>1, <1>2, <2>1, <2>2 DEF UsedIsMarked
  <2>3. CASE step'[p] = "rereadSlot" /\ task'[p].input.slot = s /\ task'[p].input.content = c
    BY <2>3 DEF Setting
  <2> QED BY <1>4, <2>2, <2>3
<1> QED BY <1>3, <1>4 DEF UsedIsMarked

\* Where no item is made there is no new use.
LEMMA NoneNew ==
  ASSUME PlaylistsTypeOK', made' = made, NEW p
  PROVE  NewMarked(p)
BY DEF NewMarked, PlaylistsTypeOK

\* A step that writes neither uses nor slots keeps it.
LEMMA UsedKept ==
  ASSUME PlaylistsBase, UsedIsMarked, NEW p \in Processes, BaseStep(p),
         step[p] \notin {"mark", "rereadSlot"}, UNCHANGED <<made, unused, slot>>
  PROVE  UsedIsMarked'
<1>1. NewMarked(p)
  BY NoneNew DEF BaseStep
<1> QED BY <1>1, UsedStep

\* Insert keeps UsedIsMarked.
LEMMA InsertUsed ==
  ASSUME PlaylistsBase, UsedIsMarked, NEW r \in Requests, InsertItem(r)
  PROVE  UsedIsMarked'
<1>0. /\ r \in Processes /\ PlaylistsTypeOK /\ TasksHold /\ UNCHANGED <<unused, slot>> /\ step[r] = "insert"
      /\ BaseStep(r) /\ made \in Nat
  <2>1. r \in Processes /\ BaseStep(r)
    BY InsertItemStep DEF Processes
  <2>2. PlaylistsTypeOK /\ TasksHold /\ UNCHANGED <<unused, slot>> /\ step[r] = "insert"
    BY DEF PlaylistsBase, InsertItem
  <2>3. made \in Nat
    BY <2>2 DEF PlaylistsTypeOK
  <2> QED BY <2>1, <2>2, <2>3
<1>1. CASE ~CanInsert(r)
  <2>1. UNCHANGED made
    BY <1>1 DEF InsertItem, CanInsert
  <2> QED BY <1>0, <2>1, UsedKept
<1>2. CASE CanInsert(r)
  <2> DEFINE c == task[r].input.content
             R == InsertedRows(r)
  <2>1. /\ SetRows(task[r].playlist, R) /\ ThenMark(r, {c}, {}) /\ made' = made + 1
        /\ R[made + 1] = InsertedRow(r)
        /\ made + 1 \in DOMAIN R
    BY <1>2, InsertedSet
  <2>2. R[made + 1].content = c
    BY <2>1 DEF InsertedRow
  <2> HIDE DEF R
  <2>3. step'[r] = "mark" /\ task'[r].mark = {c}
    <3>1. {c} # {} /\ step[r] \notin {"idle", "done"}
      BY <1>0
    <3> HIDE DEF c
    <3> QED BY <1>0, <2>1, <3>1, ThenMarkTurns
  <2>4. NewMarked(r)
    <3> SUFFICES ASSUME NEW i \in ItemIds, items'[i] # None, ~ (i <= made)
                 PROVE  items'[i].content = c
      BY <2>3 DEF NewMarked
    <3>1. i <= made + 1 /\ i \in Nat
      BY <1>0, <2>1, PlaylistsAssumption DEF BaseStep, PlaylistsTypeOK, ItemIds
    <3>2. i = made + 1
      BY <1>0, <3>1
    <3>3. items'[i] = R[i]
      BY <2>1, <3>2 DEF SetRows, WithRows
    <3> QED BY <2>2, <3>2, <3>3
  <2> QED BY <1>0, <2>4, UsedStep
<1> QED BY <1>1, <1>2

\* Replace keeps UsedIsMarked.
LEMMA ReplaceUsed ==
  ASSUME PlaylistsBase, UsedIsMarked, NEW r \in Requests, ReplaceItems(r)
  PROVE  UsedIsMarked'
<1>0. /\ r \in Processes /\ PlaylistsTypeOK /\ TasksHold /\ UNCHANGED <<unused, slot>> /\ step[r] = "replace"
      /\ BaseStep(r) /\ made \in Nat
  <2>1. r \in Processes /\ UNCHANGED <<unused, slot>> /\ step[r] = "replace"
    BY DEF Processes, ReplaceItems
  <2>2. PlaylistsTypeOK /\ TasksHold /\ made \in Nat
    BY DEF PlaylistsBase, PlaylistsTypeOK
  <2> QED BY <2>1, <2>2, ReplaceItemsStep
<1> DEFINE list == task[r].input
           new == NewContents(list)
           R == ReplacedRows(r)
<1>1. CASE UNCHANGED <<items, made>>
  BY <1>0, <1>1, UsedKept
<1>2. CASE /\ SetRows(task[r].playlist, R)
           /\ ThenMark(r, new, {task[r].found[i].content : i \in Dropped(r)})
  <2>1. /\ list \in Lists
        /\ \A i \in FreshIds(r) : R[i].content = list[PlaceIn(r, i)].content /\ PlaceIn(r, i) \in NewEntries(list)
        /\ \A i \in DOMAIN R \ FreshIds(r) : i \in DOMAIN RowsOf(task[r].playlist)
    BY <1>0, ReplacedFacts
  <2>2. NewMarked(r)
    <3> SUFFICES ASSUME NEW i \in ItemIds, items'[i] # None, ~ (i <= made)
                 PROVE  step'[r] = "mark" /\ items'[i].content \in task'[r].mark
      BY DEF NewMarked
    <3>0. i \notin DOMAIN RowsOf(task[r].playlist) /\ items[i] = None
      BY <1>0, RowMade, TypedItems
    <3>1. i \in DOMAIN R
      BY <1>2, <3>0 DEF SetRows, WithRows
    <3>2. items'[i] = R[i]
      BY <1>2, <3>1 DEF SetRows, WithRows
    <3>3. i \in FreshIds(r)
      BY <2>1, <3>0, <3>1
    <3>4. items'[i].content \in new
      BY <2>1, <3>2, <3>3, ListEntries
    <3> QED BY <1>0, <1>2, <3>4, ThenMarkTurns
  <2> QED BY <1>0, <2>2, UsedStep
<1> QED BY <1>1, <1>2, ReplacedSet

\* MarkContentUsed keeps UsedIsMarked.
LEMMA MarkContentUsedUsed ==
  ASSUME PlaylistsBase, UsedIsMarked, NEW p \in Processes, MarkContentUsed(p)
  PROVE  UsedIsMarked'
<1>0. /\ PlaylistsTypeOK /\ TasksHold /\ UNCHANGED <<items, slot>>
      /\ unused' = [c \in Contents |-> IF c \in task[p].mark /\ There(c) THEN None ELSE unused[c]]
      /\ BaseStep(p) /\ step[p] = "mark" /\ Turns(p)
  BY MarkContentUsedStep DEF PlaylistsBase, MarkContentUsed, BaseStep
<1>1. ASSUME NEW c \in Contents, unused'[c] # None, There(c), Marking(c) PROVE Marking(c)'
  <2>1. PICK q \in Processes : step[q] = "mark" /\ c \in task[q].mark
    BY <1>1 DEF Marking
  <2>2. q # p
    BY <1>0, <1>1, <2>1
  <2> QED BY <1>0, <2>1, <2>2 DEF Marking, Turns
<1>2. ASSUME NEW s \in Slots, NEW c \in Contents, Setting(s, c) PROVE Setting(s, c)'
  <2>1. PICK q \in Processes : step[q] = "rereadSlot" /\ task[q].input.slot = s /\ task[q].input.content = c
    BY <1>2 DEF Setting
  <2>2. q # p
    BY <1>0, <2>1
  <2> QED BY <1>0, <2>1, <2>2 DEF Setting, Turns
<1>3. ASSUME NEW c \in Contents, unused'[c] # None
      PROVE  /\ InItems(c)' => Marking(c)'
             /\ \A s \in Slots : slot'[s] = c => Marking(c)' \/ Setting(s, c)'
  <2>1. unused[c] # None
    BY <1>0, <1>3
  <2>2. InItems(c)' <=> InItems(c)
    BY <1>0 DEF InItems
  <2>3. InItems(c) => There(c)
    BY <1>0 DEF InItems, PlaylistsTypeOK
  <2>4. \A s \in Slots : slot[s] = c => There(c)
    BY DEF PlaylistsBase, SlotsThere
  <2> QED BY <1>0, <1>1, <1>2, <1>3, <2>1, <2>2, <2>3, <2>4 DEF UsedIsMarked
<1> QED BY <1>3 DEF UsedIsMarked

\* RereadSlot keeps UsedIsMarked.
LEMMA RereadSlotUsed ==
  ASSUME PlaylistsBase, UsedIsMarked, NEW r \in Requests, RereadSlot(r)
  PROVE  UsedIsMarked'
<1>0. /\ r \in Processes /\ PlaylistsTypeOK /\ TasksHold /\ UNCHANGED <<items, slot, unused>>
      /\ BaseStep(r) /\ step[r] = "rereadSlot" /\ Turns(r)
  BY RereadSlotStep DEF Processes, PlaylistsBase, RereadSlot, BaseStep, dataVars
<1>1. ASSUME NEW c \in Contents, Marking(c) PROVE Marking(c)'
  <2>1. PICK q \in Processes : step[q] = "mark" /\ c \in task[q].mark
    BY <1>1 DEF Marking
  <2>2. q # r
    BY <1>0, <2>1
  <2> QED BY <1>0, <2>1, <2>2 DEF Marking, Turns
<1>2. ASSUME NEW s \in Slots, NEW c \in Contents, Setting(s, c), slot[s] = c PROVE Setting(s, c)' \/ Marking(c)'
  <2>1. PICK q \in Processes : step[q] = "rereadSlot" /\ task[q].input.slot = s /\ task[q].input.content = c
    BY <1>2 DEF Setting
  <2>2. CASE q # r
    BY <1>0, <2>1, <2>2 DEF Setting, Turns
  <2>3. CASE q = r
    <3>1. slot[s] # None
      BY <1>2, PlaylistsAssumption
    <3>2. ThenMark(r, {c}, Former(r))
      BY <2>1, <2>3, <3>1 DEF RereadSlot
    <3>3. step'[r] = "mark" /\ task'[r].mark = {c}
      BY <1>0, <3>2, ThenMarkTurns
    <3> QED BY <1>0, <3>3 DEF Marking
  <2> QED BY <2>2, <2>3
<1>3. ASSUME NEW c \in Contents, unused'[c] # None
      PROVE  /\ InItems(c)' => Marking(c)'
             /\ \A s \in Slots : slot'[s] = c => Marking(c)' \/ Setting(s, c)'
  <2>1. InItems(c)' <=> InItems(c)
    BY <1>0 DEF InItems
  <2> QED BY <1>0, <1>1, <1>2, <1>3, <2>1 DEF UsedIsMarked
<1> QED BY <1>3 DEF UsedIsMarked

\* RefreshUsed keeps UsedIsMarked.
LEMMA RefreshUsedUsed ==
  ASSUME PlaylistsBase, UsedIsMarked, NEW p \in Processes, RefreshUsed(p)
  PROVE  UsedIsMarked'
<1>0. /\ UNCHANGED <<made, slot>> /\ step[p] = "refresh" /\ BaseStep(p)
      /\ unused' = [c \in Contents |-> IF c \in task[p].fade /\ Referenced(c) THEN None ELSE unused[c]]
  BY RefreshUsedStep DEF RefreshUsed
<1>1. NewMarked(p)
  BY <1>0, NoneNew DEF BaseStep
<1>2. \A c \in Contents : unused'[c] # None => unused[c] # None
  BY <1>0
<1> QED BY <1>0, <1>1, <1>2, UsedStep

\* RefreshUnused keeps UsedIsMarked.
LEMMA RefreshUnusedUsed ==
  ASSUME PlaylistsBase, UsedIsMarked, NEW p \in Processes, RefreshUnused(p)
  PROVE  UsedIsMarked'
<1>0. /\ UNCHANGED <<items, made, slot>> /\ step[p] = "age" /\ BaseStep(p)
      /\ unused' = [c \in Contents |->
                      IF c \in task[p].fade /\ unused[c] = None /\ ~Referenced(c) THEN "recent"
                      ELSE unused[c]]
  BY RefreshUnusedStep DEF RefreshUnused
<1>1. NewMarked(p)
  BY <1>0, NoneNew DEF BaseStep
<1>2. \A c : Referenced(c)' <=> Referenced(c)
  BY <1>0 DEF Referenced, InItems, InSlots
<1>3. \A c \in Contents : unused'[c] # None => unused[c] # None \/ ~Referenced(c)'
  BY <1>0, <1>2
<1> QED BY <1>0, <1>1, <1>3, UsedStep

\* EditContent keeps UsedIsMarked.
LEMMA EditContentUsed ==
  ASSUME PlaylistsBase, UsedIsMarked, NEW r \in Requests, NEW c \in Contents, EditContent(r, c)
  PROVE  UsedIsMarked'
<1>0. /\ r \in Processes /\ UNCHANGED <<items, made, slot>> /\ step[r] = "idle" /\ BaseStep(r)
      /\ unused' = [unused EXCEPT ![c] = IF Referenced(c) THEN None ELSE "recent"]
  BY EditContentStep DEF EditContent, Begin, Processes
<1>1. NewMarked(r)
  BY <1>0, NoneNew DEF BaseStep
<1>2. \A d : Referenced(d)' <=> Referenced(d)
  BY <1>0 DEF Referenced, InItems, InSlots
<1>3. \A d \in Contents : unused'[d] # None => unused[d] # None \/ ~Referenced(d)'
  BY <1>0, <1>2 DEF PlaylistsBase, PlaylistsTypeOK
<1> QED BY <1>0, <1>1, <1>3, UsedStep

\* DropContents keeps UsedIsMarked.
LEMMA DropContentsUsed ==
  ASSUME PlaylistsBase, UsedIsMarked, NEW p \in Processes, NEW cs, DropContents(cs),
         UNCHANGED <<items, made>>, BaseStep(p), step[p] \notin {"mark", "rereadSlot"}
  PROVE  UsedIsMarked'
<1>1. CASE \E c \in cs : InItems(c)
  BY <1>1, UsedKept DEF DropContents
<1>2. CASE ~ \E c \in cs : InItems(c)
  <2>1. /\ unused' = [c \in Contents |-> IF c \in cs THEN "gone" ELSE unused[c]]
        /\ slot' = [s \in Slots |-> IF slot[s] \in cs THEN NoContent ELSE slot[s]]
    BY <1>2 DEF DropContents
  <2>2. NewMarked(p)
    BY NoneNew DEF BaseStep
  <2>3. \A s \in Slots : slot'[s] \notin Contents \/ slot'[s] = slot[s]
    BY <2>1, PlaylistsAssumption
  <2>4. ASSUME NEW c \in Contents, c \in cs PROVE ~Referenced(c)'
    <3>1. ~InItems(c)'
      BY <1>2, <2>4 DEF InItems
    <3>2. ~InSlots(c)'
      BY <2>1, <2>4, PlaylistsAssumption DEF InSlots
    <3> QED BY <3>1, <3>2 DEF Referenced
  <2>5. \A c \in Contents : unused'[c] # None => unused[c] # None \/ ~Referenced(c)'
    BY <2>1, <2>4
  <2> QED BY <2>2, <2>3, <2>5, UsedStep
<1> QED BY <1>1, <1>2

\* WriteSlot keeps UsedIsMarked.
LEMMA WriteSlotUsed ==
  ASSUME PlaylistsBase, UsedIsMarked, NEW r \in Requests, WriteSlot(r)
  PROVE  UsedIsMarked'
<1>0. /\ r \in Processes /\ PlaylistsTypeOK /\ TasksHold /\ UNCHANGED <<items, made, unused>>
      /\ step[r] = "writeSlot" /\ BaseStep(r)
  BY WriteSlotStep DEF Processes, PlaylistsBase, WriteSlot
<1> DEFINE in == task[r].input
<1>1. CASE ~ There(in.content)
  BY <1>0, <1>1, UsedKept DEF WriteSlot
<1>2. CASE There(in.content)
  <2>1. Go(r, "rereadSlot", task[r]) /\ slot' = [slot EXCEPT ![in.slot] = in.content]
    BY <1>2 DEF WriteSlot
  <2>2. step'[r] = "rereadSlot" /\ task'[r] = task[r]
    BY <1>0, <2>1, GoTurns DEF Steps
  <2>3. NewMarked(r)
    BY <1>0, NoneNew DEF BaseStep
  <2>4. \A s \in Slots : \/ slot'[s] = slot[s]
                         \/ task'[r].input.slot = s /\ task'[r].input.content = slot'[s]
    BY <1>0, <2>1, <2>2 DEF PlaylistsTypeOK
  <2> QED BY <1>0, <2>2, <2>3, <2>4, UsedStep
<1> QED BY <1>1, <1>2

\* ClearSlot keeps UsedIsMarked.
LEMMA ClearSlotUsed ==
  ASSUME PlaylistsBase, UsedIsMarked, NEW r \in Requests, ClearSlot(r)
  PROVE  UsedIsMarked'
<1>0. /\ r \in Processes /\ PlaylistsTypeOK /\ UNCHANGED <<items, made, unused>>
      /\ step[r] = "clearSlot" /\ BaseStep(r) /\ slot' = [slot EXCEPT ![task[r].input.slot] = None]
  BY ClearSlotStep DEF Processes, PlaylistsBase, ClearSlot
<1>1. NewMarked(r)
  BY <1>0, NoneNew DEF BaseStep
<1>2. \A s \in Slots : slot'[s] \notin Contents \/ slot'[s] = slot[s]
  BY <1>0, PlaylistsAssumption DEF PlaylistsTypeOK
<1> QED BY <1>0, <1>1, <1>2, UsedStep

\* A step that writes no use of contents.
LEMMA BeginUsed ==
  ASSUME PlaylistsBase, UsedIsMarked, NEW r \in Requests, BeginItemStep(r)
  PROVE  UsedIsMarked'
<1>1. r \in Processes /\ BaseStep(r)
  BY RequestStepIs DEF Processes
<1>2. step[r] \notin {"mark", "rereadSlot"} /\ UNCHANGED <<made, unused, slot>>
  BY DEF BeginItemStep, BeginAdd, BeginUpdate, BeginDelete, BeginReorder, BeginReplace, BeginCreate, Begin, dataVars
<1> QED BY <1>1, <1>2, UsedKept

\* Item keeps UsedIsMarked.
LEMMA ItemUsed ==
  ASSUME PlaylistsBase, UsedIsMarked, NEW r \in Requests, ItemStep(r)
  PROVE  UsedIsMarked'
<1>1. r \in Processes /\ BaseStep(r)
  BY RequestStepIs DEF Processes
<1>2. CASE InsertItem(r)
  BY <1>2, InsertUsed
<1>3. CASE ReplaceItems(r)
  BY <1>3, ReplaceUsed
<1>4. CASE ~InsertItem(r) /\ ~ReplaceItems(r)
  <2>1. \/ Fetch(r) \/ WriteItem(r) \/ DeleteItem(r) \/ ReorderItems(r) \/ CheckList(r) \/ Relist(r) \/ UndoCreate(r)
    BY <1>4 DEF ItemStep
  <2>2. step[r] \notin {"mark", "rereadSlot"}
    BY <2>1 DEF Fetch, WriteItem, DeleteItem, ReorderItems, CheckList, Relist, UndoCreate
  <2>3. UNCHANGED <<made, unused, slot>>
    BY <2>1 DEF Fetch, WriteItem, DeleteItem, ReorderItems, CheckList, Relist, UndoCreate, dataVars
  <2> QED BY <1>1, <2>2, <2>3, UsedKept
<1> QED BY <1>2, <1>3, <1>4

\* Other keeps UsedIsMarked.
LEMMA OtherUsed ==
  ASSUME PlaylistsBase, UsedIsMarked, NEW r \in Requests, OtherStep(r), ~Break(r)
  PROVE  UsedIsMarked'
<1>1. r \in Processes /\ BaseStep(r)
  BY RequestStepIs DEF Processes
<1>2. CASE WriteSlot(r) \/ RereadSlot(r) \/ ClearSlot(r)
  BY <1>2, WriteSlotUsed, RereadSlotUsed, ClearSlotUsed
<1>3. CASE \E c \in Contents : EditContent(r, c)
  BY <1>3, EditContentUsed
<1>4. CASE DeleteContent(r)
  <2>1. DropContents(task[r].mark) /\ UNCHANGED <<items, made>> /\ step[r] \notin {"mark", "rereadSlot"}
    BY <1>4 DEF DeleteContent
  <2> QED BY <1>1, <2>1, DropContentsUsed
<1>5. CASE \/ \E p \in PlaylistIds : BeginDeletePlaylist(r, p)
           \/ DeletePlaylist(r)
           \/ \E s \in Slots, c \in Contents : BeginSetSlot(r, s, c)
           \/ \E s \in Slots : BeginClearSlot(r, s)
           \/ ReadSlot(r)
           \/ \E c \in Contents : BeginDeleteContent(r, c)
  <2>1. step[r] \notin {"mark", "rereadSlot"} /\ UNCHANGED <<made, unused, slot>>
    BY <1>5 DEF BeginDeletePlaylist, DeletePlaylist, BeginSetSlot, BeginClearSlot, ReadSlot, BeginDeleteContent,
                Begin, dataVars
  <2> QED BY <1>1, <2>1, UsedKept
<1> QED BY <1>2, <1>3, <1>4, <1>5 DEF OtherStep

\* Content keeps UsedIsMarked.
LEMMA ContentUsed ==
  ASSUME PlaylistsBase, UsedIsMarked, NEW p \in Processes, ContentStep(p)
  PROVE  UsedIsMarked'
BY MarkContentUsedUsed, RefreshUsedUsed, RefreshUnusedUsed DEF ContentStep

\* Cleanup keeps UsedIsMarked.
LEMMA CleanupUsed ==
  ASSUME PlaylistsBase, UsedIsMarked,
         (\E ps \in SUBSET PlaylistIds : BeginCleanup(ps)) \/ Sweep \/ Choose \/ Purge
  PROVE  UsedIsMarked'
<1>1. Cleanup \in Processes /\ BaseStep(Cleanup)
  BY BeginCleanupStep, SweepStep, ChooseStep, PurgeStep DEF Processes
<1>2. CASE Purge
  <2>1. DropContents(task[Cleanup].mark) /\ UNCHANGED <<items, made>> /\ step[Cleanup] \notin {"mark", "rereadSlot"}
    BY <1>2 DEF Purge
  <2> QED BY <1>1, <2>1, DropContentsUsed
<1>3. CASE (\E ps \in SUBSET PlaylistIds : BeginCleanup(ps)) \/ Sweep \/ Choose
  <2>1. step[Cleanup] \notin {"mark", "rereadSlot"} /\ UNCHANGED <<made, unused, slot>>
    BY <1>3 DEF BeginCleanup, Sweep, Choose, Begin, dataVars
  <2> QED BY <1>1, <2>1, UsedKept
<1> QED BY <1>2, <1>3

\* Where nothing but the ages change it is kept.
LEMMA SameUsed ==
  ASSUME UsedIsMarked, UNCHANGED <<items, slot, step, task>>,
         \A c \in Contents : unused'[c] # None => unused[c] # None
  PROVE  UsedIsMarked'
BY DEF UsedIsMarked, InItems, Marking, Setting

\* Age keeps UsedIsMarked.
LEMMA AgeUsed ==
  ASSUME PlaylistsBase, UsedIsMarked, Age
  PROVE  UsedIsMarked'
<1>1. PICK c \in Contents : unused[c] = "recent" /\ unused' = [unused EXCEPT ![c] = "old"]
  BY DEF Age
<1>2. \A d \in Contents : unused'[d] # None => unused[d] # None
  BY <1>1, PlaylistsAssumption DEF PlaylistsBase, PlaylistsTypeOK
<1> QED BY <1>2, SameUsed DEF Age

\* How breaks are counted.
LEMMA BreaksCount ==
  ASSUME breaks \in Nat, [PlaylistsNext]_playlistsVars
  PROVE  /\ breaks' \in Nat
         /\ breaks' = 0 => breaks = 0 /\ ~Crash /\ \A r \in Requests : ~Break(r)
<1>1. \A r \in Requests : Break(r) => breaks' = breaks + 1
  BY DEF Break
<1>2. Crash => breaks' = breaks + 1
  BY DEF Crash
<1>3. ASSUME NEW r \in Requests, BeginItemStep(r) \/ ItemStep(r) PROVE breaks' = breaks
  <2>1. CASE BeginItemStep(r)
    BY <2>1 DEF BeginItemStep, BeginAdd, BeginUpdate, BeginDelete, BeginReorder, BeginReplace, BeginCreate
  <2>2. CASE ItemStep(r)
    BY <2>2 DEF ItemStep, InsertItem, Fetch, WriteItem, DeleteItem, ReorderItems, CheckList, Relist, ReplaceItems,
                UndoCreate
  <2> QED BY <1>3, <2>1, <2>2
<1>4. ASSUME NEW r \in Requests, OtherStep(r) PROVE breaks' = breaks \/ Break(r)
  BY <1>4 DEF OtherStep, BeginDeletePlaylist, DeletePlaylist, BeginSetSlot, BeginClearSlot, ReadSlot, WriteSlot,
              RereadSlot, ClearSlot, EditContent, BeginDeleteContent, DeleteContent
<1>5. ASSUME NEW p \in Processes, ContentStep(p) PROVE breaks' = breaks
  BY <1>5 DEF ContentStep, MarkContentUsed, RefreshUsed, RefreshUnused
<1>6. (\E ps \in SUBSET PlaylistIds : BeginCleanup(ps)) \/ Sweep \/ Choose \/ Purge \/ Age => breaks' = breaks
  BY DEF BeginCleanup, Sweep, Choose, Purge, Age
<1>7. breaks' = breaks \/ Crash \/ \E r \in Requests : Break(r)
  BY <1>3, <1>4, <1>5, <1>6, NextCases DEF playlistsVars
<1>8. breaks' = breaks \/ breaks' = breaks + 1
  BY <1>1, <1>2, <1>7
<1> QED BY <1>1, <1>2, <1>8

\* Every step without a fault keeps it.
LEMMA NextUsed ==
  ASSUME PlaylistsBase, UsedIsMarked, breaks \in Nat, [PlaylistsNext]_playlistsVars, breaks' = 0
  PROVE  UsedIsMarked'
<1>0. ~Crash /\ \A r \in Requests : ~Break(r)
  BY BreaksCount
<1>1. CASE \E r \in Requests : BeginItemStep(r) \/ ItemStep(r) \/ OtherStep(r)
  BY <1>0, <1>1, BeginUsed, ItemUsed, OtherUsed
<1>2. CASE \E p \in Processes : ContentStep(p)
  BY <1>2, ContentUsed
<1>3. CASE (\E ps \in SUBSET PlaylistIds : BeginCleanup(ps)) \/ Sweep \/ Choose \/ Purge
  BY <1>3, CleanupUsed
<1>4. CASE Age
  BY <1>4, AgeUsed
<1>5. CASE UNCHANGED playlistsVars
  BY <1>5, SameUsed DEF playlistsVars, dataVars
<1> QED BY <1>0, <1>1, <1>2, <1>3, <1>4, <1>5, NextCases

\* It holds at the start.
LEMMA InitUsed == PlaylistsInit => UsedIsMarked
<1> SUFFICES ASSUME PlaylistsInit PROVE UsedIsMarked
  OBVIOUS
<1>1. /\ items = Started /\ slot = [s \in Slots |-> None]
      /\ unused = [c \in Contents |->
                    IF \E i \in ItemIds : Started[i] # None /\ Started[i].content = c THEN None ELSE "recent"]
  BY DEF PlaylistsInit
<1>2. \A c \in Contents : unused[c] # None => ~InItems(c)
  BY <1>1 DEF InItems
<1>3. \A c \in Contents, s \in Slots : slot[s] # c
  BY <1>1, PlaylistsAssumption
<1> QED BY <1>2, <1>3 DEF UsedIsMarked

(***************************************************************************)
(* Requests one at a time: what a process holds is what there is.          *)
(***************************************************************************)

FadesOn(p) ==
  \A c \in Contents \ strayed' :
    unused'[c] = None /\ ~Referenced(c)' =>
      (unused[c] = None /\ ~Referenced(c) /\ ~Fading(p, c)) \/ Fading(p, c)'

EmptyOn(p) ==
  \A q \in PlaylistIds : Empty(q)' => (Empty(q) /\ ~Creating(p, q)) \/ (p \in Requests /\ Creating(p, q)')

\* What a step of the only process at work has to leave for AloneInv to hold.
LEMMA AloneStep ==
  ASSUME PlaylistsBase, AloneInv, NEW p \in Processes, BaseStep(p), alone', strayed \subseteq strayed',
         Exact(p)', FadesOn(p), EmptyOn(p)
  PROVE  AloneInv'
<1>1. Busy \subseteq {p} /\ Turns(p)
  BY DEF BaseStep, Turns
<1>2. \A q \in Processes : q # p => step[q] \in {"idle", "done"} /\ step'[q] = step[q]
  BY <1>1 DEF Busy, Turns
<1>3. \A q \in Processes : Exact(q)'
  <2> SUFFICES ASSUME NEW q \in Processes, q # p PROVE Exact(q)'
    OBVIOUS
  <2> QED BY <1>2 DEF Exact
<1>4. UnusedFades'
  <2> SUFFICES ASSUME NEW c \in Contents \ strayed', unused'[c] = None, ~Referenced(c)'
               PROVE  Fading(p, c)'
    BY DEF UnusedFades
  <2>1. CASE unused[c] = None /\ ~Referenced(c) /\ ~Fading(p, c)
    <3>1. PICK q \in Processes : Fading(q, c)
      BY <2>1 DEF AloneInv, UnusedFades
    <3>2. step[q] \notin {"idle", "done"}
      BY <3>1 DEF Fading
    <3> QED BY <1>2, <2>1, <3>1, <3>2
  <2> QED BY <2>1 DEF FadesOn
<1>5. EmptyIsNew'
  <2> SUFFICES ASSUME NEW q \in PlaylistIds, Empty(q)' PROVE p \in Requests /\ Creating(p, q)'
    BY DEF EmptyIsNew
  <2>1. CASE Empty(q) /\ ~Creating(p, q)
    <3>1. PICK r \in Requests : Creating(r, q)
      BY <2>1 DEF AloneInv, EmptyIsNew
    <3>2. step[r] \notin {"idle", "done"} /\ r \in Processes
      BY <3>1 DEF Creating, ListSteps, Processes
    <3> QED BY <1>2, <2>1, <3>1, <3>2
  <2> QED BY <2>1 DEF EmptyOn
<1> QED BY <1>3, <1>4, <1>5 DEF AloneInv

\* The same items and slots refer to the same contents.
LEMMA SameReferences ==
  ASSUME UNCHANGED <<items, slot>>
  PROVE  \A c : Referenced(c)' <=> Referenced(c)
BY DEF Referenced, InItems, InSlots

\* The same items leave the same playlists empty.
LEMMA SameEmpty ==
  ASSUME UNCHANGED <<items, playlist>>
  PROVE  \A q : Empty(q)' <=> Empty(q)
BY DEF Empty, RowsOf

\* A step that writes nothing, by a process that awaits no refresh and creates nothing.
LEMMA AloneQuiet ==
  ASSUME PlaylistsBase, AloneInv, NEW p \in Processes, BaseStep(p), alone', strayed' = strayed,
         UNCHANGED dataVars, Exact(p)',
         \A c : Fading(p, c) => Fading(p, c)',
         \A q : Creating(p, q) => p \in Requests /\ Creating(p, q)'
  PROVE  AloneInv'
<1>1. (\A c : Referenced(c)' <=> Referenced(c)) /\ (\A q : Empty(q)' <=> Empty(q)) /\ unused' = unused
  BY SameReferences, SameEmpty DEF dataVars
<1>2. FadesOn(p)
  BY <1>1 DEF FadesOn
<1>3. EmptyOn(p)
  BY <1>1 DEF EmptyOn
<1> QED BY <1>2, <1>3, AloneStep

\* Steps from which no refresh is to come and no playlist is to fill.
OwedSteps == {"mark", "refresh", "age", "rereadSlot", "undo"} \cup ListSteps

\* At the other steps nothing is owed.
LEMMA NotOwed ==
  ASSUME NEW p, step[p] \notin OwedSteps
  PROVE  (\A c : ~Fading(p, c)) /\ (\A q : ~Creating(p, q))
BY DEF OwedSteps, Fading, Creating, ListSteps

\* Steps at which a process has nothing to be fresh about.
LEMMA ExactNow ==
  ASSUME NEW p, step'[p] \notin {"mark", "writeSlot", "clearSlot", "rereadSlot", "relist", "replace", "delete"}
  PROVE  Exact(p)'
BY DEF Exact

\* Requests that begin have read what there is.
LEMMA AloneBegin ==
  ASSUME PlaylistsBase, AloneInv, NEW r \in Requests, BeginItemStep(r), alone',
         ~ \E p \in PlaylistIds, list \in Lists : BeginCreate(r, p, list)
  PROVE  AloneInv'
<1>0. r \in Processes /\ BaseStep(r) /\ PlaylistsTypeOK /\ TasksHold
  BY RequestStepIs DEF Processes, PlaylistsBase
<1>1. step[r] = "idle" /\ UNCHANGED dataVars /\ strayed' = strayed
  BY DEF BeginItemStep, BeginAdd, BeginUpdate, BeginDelete, BeginReorder, BeginReplace, Begin
<1>2. step[r] \notin OwedSteps
  BY <1>1 DEF OwedSteps, ListSteps
<1>3. Exact(r)'
  <2>1. CASE \E p \in PlaylistIds, id \in ItemIds : BeginDelete(r, p, id)
    <3>1. PICK p \in PlaylistIds, id \in ItemIds : BeginDelete(r, p, id)
      BY <2>1
    <3> DEFINE t == [Blank EXCEPT !.op = "delete", !.playlist = p, !.input = id, !.listed = RowsOf(p)]
    <3>2. Go(r, "delete", t)
      BY <3>1 DEF BeginDelete
    <3>3. t = TaskOf("delete", p, id, RowsOf(p), <<>>, None, {}, {})
      BY BlankSet
    <3> HIDE DEF t
    <3>4. step'[r] = "delete" /\ task'[r] = t
      BY <1>0, <3>2, GoTurns DEF Steps
    <3>5. task'[r].playlist = p /\ task'[r].listed = RowsOf(p)
      BY <3>3, <3>4, TaskOfFields
    <3>6. RowsOf(p)' = RowsOf(p)
      BY <1>1, SameRows DEF dataVars
    <3> QED BY <3>4, <3>5, <3>6 DEF Exact
  <2>2. CASE ~ \E p \in PlaylistIds, id \in ItemIds : BeginDelete(r, p, id)
    <3>1. \E t : Go(r, "insert", t) \/ Go(r, "fetch", t) \/ Go(r, "reorder", t) \/ Go(r, "list", t)
      BY <2>2 DEF BeginItemStep, BeginAdd, BeginUpdate, BeginReorder, BeginReplace
    <3>2. step'[r] \in {"insert", "fetch", "reorder", "list"}
      BY <1>0, <3>1, GoTurns DEF Steps
    <3> QED BY <3>2, ExactNow
  <2> QED BY <2>1, <2>2
<1> QED BY <1>0, <1>1, <1>2, <1>3, NotOwed, AloneQuiet

\* A creation leaves one empty playlist, which it is to fill.
LEMMA AloneCreate ==
  ASSUME PlaylistsBase, AloneInv, NEW r \in Requests, NEW p \in PlaylistIds, NEW list \in Lists,
         BeginCreate(r, p, list), alone'
  PROVE  AloneInv'
<1>0. r \in Processes /\ BaseStep(r) /\ PlaylistsTypeOK /\ TasksHold
  BY BeginCreateStep DEF Processes, PlaylistsBase
<1> DEFINE t == [Blank EXCEPT !.op = "create", !.playlist = p, !.input = list]
<1>1. /\ step[r] = "idle" /\ UNCHANGED <<items, made, unused, slot, strayed>> /\ Go(r, "list", t)
      /\ playlist' = [playlist EXCEPT ![p] = "there"]
  BY DEF BeginCreate, Begin
<1>2. step[r] \notin OwedSteps
  BY <1>1 DEF OwedSteps, ListSteps
<1>3. t = TaskOf("create", p, list, <<>>, <<>>, None, {}, {})
  BY BlankAbout
<1> HIDE DEF t
<1>4. step'[r] = "list" /\ task'[r] = t
  BY <1>0, <1>1, GoTurns DEF Steps
<1>5. Creating(r, p)'
  BY <1>3, <1>4, TaskOfFields DEF Creating, ListSteps
<1>6. Exact(r)'
  BY <1>4, ExactNow
<1>7. FadesOn(r)
  BY <1>1, <1>2, NotOwed, SameReferences DEF FadesOn
<1>8. EmptyOn(r)
  <2> SUFFICES ASSUME NEW q \in PlaylistIds, Empty(q)', q # p PROVE Empty(q)
    BY <1>2, <1>5, NotOwed DEF EmptyOn
  <2>1. RowsOf(q)' = RowsOf(q) /\ playlist'[q] = playlist[q]
    BY <1>0, <1>1, SameRows DEF PlaylistsTypeOK
  <2> QED BY <2>1 DEF Empty
<1> QED BY <1>0, <1>1, <1>6, <1>7, <1>8, AloneStep

\* A step that writes nothing, from where nothing is owed.
LEMMA AloneUnowed ==
  ASSUME PlaylistsBase, AloneInv, NEW p \in Processes, BaseStep(p), alone', UNCHANGED <<dataVars, strayed>>,
         step[p] \notin OwedSteps, Exact(p)'
  PROVE  AloneInv'
BY NotOwed, AloneQuiet

\* A step that writes the use of contents only.
LEMMA AloneUse ==
  ASSUME PlaylistsBase, AloneInv, NEW p \in Processes, BaseStep(p), alone',
         UNCHANGED <<playlist, items, slot, strayed>>, Exact(p)', \A q : ~Creating(p, q),
         \A c \in Contents : unused'[c] = None /\ ~Referenced(c) =>
           unused[c] = None /\ (Fading(p, c) => Fading(p, c)')
  PROVE  AloneInv'
<1>1. (\A c : Referenced(c)' <=> Referenced(c)) /\ (\A q : Empty(q)' <=> Empty(q))
  BY SameReferences, SameEmpty
<1>2. FadesOn(p)
  BY <1>1 DEF FadesOn
<1>3. EmptyOn(p)
  BY <1>1 DEF EmptyOn
<1> QED BY <1>2, <1>3, AloneStep

\* Fetch by the only process at work keeps AloneInv.
LEMMA FetchAlone ==
  ASSUME PlaylistsBase, AloneInv, NEW r \in Requests, Fetch(r), alone'
  PROVE  AloneInv'
<1>0. /\ r \in Processes /\ BaseStep(r) /\ PlaylistsTypeOK /\ TasksHold
      /\ step[r] = "fetch" /\ UNCHANGED <<dataVars, strayed>>
  BY FetchStep DEF Processes, PlaylistsBase, Fetch
<1>1. Return(r) \/ \E t : Go(r, "write", t)
  BY DEF Fetch
<1>2. step'[r] \in {"idle", "done", "write"}
  BY <1>0, <1>1, GoTurns, ReturnTurns DEF Steps, FinalStep
<1> QED BY <1>0, <1>2, ExactNow, AloneUnowed DEF OwedSteps, ListSteps

\* CheckList by the only process at work keeps AloneInv.
LEMMA CheckListAlone ==
  ASSUME PlaylistsBase, AloneInv, NEW r \in Requests, CheckList(r), alone'
  PROVE  AloneInv'
<1>0. /\ r \in Processes /\ BaseStep(r) /\ PlaylistsTypeOK /\ TasksHold
      /\ step[r] = "list" /\ UNCHANGED <<dataVars, strayed>> /\ TaskHolds(r)
  BY CheckListStep DEF Processes, PlaylistsBase, CheckList, TasksHold
<1> DEFINE p == task[r].playlist
           t == [task[r] EXCEPT !.listed = RowsOf(p)]
<1>1. \A c : ~Fading(r, c)
  BY <1>0 DEF Fading
<1>2. CASE ~Acceptable(task[r].input, RowsOf(p))
  <2>1. Refuse(r)
    BY <1>2 DEF CheckList
  <2>2. IF task[r].op = "create" THEN step'[r] = "undo" /\ task'[r] = task[r]
        ELSE step'[r] = "done" /\ task'[r] = Blank
    BY <1>0, <2>1, RefuseTurns
  <2>3. Exact(r)'
    BY <2>2, ExactNow
  <2>4. \A q : Creating(r, q) => Creating(r, q)'
    BY <2>2 DEF Creating
  <2> QED BY <1>0, <1>1, <2>3, <2>4, AloneQuiet
<1>3. CASE Acceptable(task[r].input, RowsOf(p))
  <2>1. Go(r, "relist", t)
    BY <1>3 DEF CheckList
  <2>2. t = TaskOf(task[r].op, task[r].playlist, task[r].input, RowsOf(p), task[r].found,
                   task[r].row, task[r].mark, task[r].fade)
    BY <1>0, TaskListed DEF TaskHolds, TaskOf
  <2> HIDE DEF t
  <2>3. step'[r] = "relist" /\ task'[r] = t
    BY <1>0, <2>1, GoTurns DEF Steps
  <2>4. t.op = task[r].op /\ t.playlist = p /\ t.listed = RowsOf(p)
    BY <2>2, TaskOfFields
  <2>5. RowsOf(p)' = RowsOf(p)
    BY <1>0, <2>3, <2>4 DEF RowsOf, dataVars
  <2>6. Exact(r)'
    <3>1. task'[r].listed = RowsOf(p) /\ task'[r].playlist = p
      BY <2>3, <2>4
    <3>2. \A q : RowsOf(q)' = RowsOf(q)
      BY <1>0, SameRows DEF dataVars
    <3> HIDE DEF p
    <3> QED BY <2>3, <3>1, <3>2 DEF Exact
  <2>7. \A q : Creating(r, q) => Creating(r, q)'
    BY <2>3, <2>4 DEF Creating, ListSteps
  <2> QED BY <1>0, <1>1, <2>6, <2>7, AloneQuiet
<1> QED BY <1>2, <1>3

\* Relist by the only process at work keeps AloneInv.
LEMMA RelistAlone ==
  ASSUME PlaylistsBase, AloneInv, NEW r \in Requests, Relist(r), alone'
  PROVE  AloneInv'
<1>0. /\ r \in Processes /\ BaseStep(r) /\ PlaylistsTypeOK /\ TasksHold
      /\ step[r] = "relist" /\ UNCHANGED <<dataVars, strayed>> /\ TaskHolds(r) /\ Exact(r)
  BY RelistStep DEF Processes, PlaylistsBase, Relist, TasksHold, AloneInv
<1> DEFINE p == task[r].playlist
           t == [task[r] EXCEPT !.found = RowsOf(p)]
<1>1. \A c : ~Fading(r, c)
  BY <1>0 DEF Fading
<1>2. Go(r, "replace", t)
  BY DEF Relist
<1>3. t = TaskOf(task[r].op, task[r].playlist, task[r].input, task[r].listed, RowsOf(p),
                 task[r].row, task[r].mark, task[r].fade)
  BY <1>0, TaskFound DEF TaskHolds, TaskOf
<1> HIDE DEF t
<1>4. step'[r] = "replace" /\ task'[r] = t
  BY <1>0, <1>2, GoTurns DEF Steps
<1>5. t.op = task[r].op /\ t.playlist = p /\ t.listed = task[r].listed /\ t.found = RowsOf(p)
  BY <1>3, TaskOfFields
<1>6. Exact(r)'
  <2>1. task[r].listed = RowsOf(p)
    BY <1>0 DEF Exact
  <2>2. task'[r].listed = RowsOf(p) /\ task'[r].found = RowsOf(p) /\ task'[r].playlist = p
    BY <1>4, <1>5, <2>1
  <2>3. \A q : RowsOf(q)' = RowsOf(q)
    BY <1>0, SameRows DEF dataVars
  <2> HIDE DEF p
  <2> QED BY <1>4, <2>2, <2>3 DEF Exact
<1>7. \A q : Creating(r, q) => Creating(r, q)'
  BY <1>4, <1>5 DEF Creating, ListSteps
<1> QED BY <1>0, <1>1, <1>6, <1>7, AloneQuiet

\* ReadSlot by the only process at work keeps AloneInv.
LEMMA ReadSlotAlone ==
  ASSUME PlaylistsBase, AloneInv, NEW r \in Requests, ReadSlot(r), alone'
  PROVE  AloneInv'
<1>0. /\ r \in Processes /\ BaseStep(r) /\ PlaylistsTypeOK /\ TasksHold
      /\ step[r] = "readSlot" /\ UNCHANGED <<dataVars, strayed>> /\ TaskHolds(r)
  BY ReadSlotStep DEF Processes, PlaylistsBase, ReadSlot, TasksHold
<1> DEFINE s == IF task[r].op = "set" THEN "writeSlot" ELSE "clearSlot"
           t == [task[r] EXCEPT !.row = slot[task[r].input.slot]]
<1>1. Go(r, s, t)
  BY DEF ReadSlot
<1>2. t = TaskOf(task[r].op, task[r].playlist, task[r].input, task[r].listed, task[r].found,
                 slot[task[r].input.slot], task[r].mark, task[r].fade)
  BY <1>0, TaskRow DEF TaskHolds, TaskOf
<1> HIDE DEF t
<1>3. step'[r] = s /\ task'[r] = t
  BY <1>0, <1>1, GoTurns DEF Steps
<1>4. t.input = task[r].input /\ t.row = slot[task[r].input.slot]
  BY <1>2, TaskOfFields
<1>5. Exact(r)'
  BY <1>0, <1>3, <1>4 DEF Exact, dataVars
<1> QED BY <1>0, <1>5, AloneUnowed DEF OwedSteps, ListSteps

\* RereadSlot by the only process at work keeps AloneInv.
LEMMA RereadSlotAlone ==
  ASSUME PlaylistsBase, AloneInv, NEW r \in Requests, RereadSlot(r), alone'
  PROVE  AloneInv'
<1>0. /\ r \in Processes /\ BaseStep(r) /\ PlaylistsTypeOK /\ TasksHold
      /\ step[r] = "rereadSlot" /\ UNCHANGED <<dataVars, strayed>> /\ TaskHolds(r) /\ Exact(r)
  BY RereadSlotStep DEF Processes, PlaylistsBase, RereadSlot, TasksHold, AloneInv
<1>c. PICK s, c : s = task[r].input.slot /\ c = task[r].input.content
  OBVIOUS
<1>1. slot[s] = c /\ c \in Contents /\ s \in Slots
  BY <1>0, <1>c DEF Exact, TaskHolds, SlotSteps
<1>2. ThenMark(r, {c}, Former(r))
  BY <1>1, <1>c, PlaylistsAssumption DEF RereadSlot
<1>3. step'[r] = "mark" /\ task'[r].mark = {c} /\ task'[r].fade = Former(r)
  <2>1. {c} # {}
    OBVIOUS
  <2> QED BY <1>0, <1>2, <2>1, ThenMarkTurns
<1>4. Referenced(c)'
  BY <1>0, <1>1 DEF Referenced, InSlots, dataVars
<1>5. Exact(r)'
  BY <1>3, <1>4 DEF Exact
<1>6. \A d : Fading(r, d) => Fading(r, d)'
  BY <1>0, <1>3 DEF Fading
<1>7. \A q : ~Creating(r, q)
  BY <1>0 DEF Creating, ListSteps
<1> QED BY <1>0, <1>5, <1>6, <1>7, AloneQuiet

\* Mark by the only process at work keeps AloneInv.
LEMMA MarkAlone ==
  ASSUME PlaylistsBase, AloneInv, NEW p \in Processes, MarkContentUsed(p), alone'
  PROVE  AloneInv'
<1>0. /\ BaseStep(p) /\ PlaylistsTypeOK /\ TasksHold /\ Exact(p)
      /\ step[p] = "mark" /\ UNCHANGED <<playlist, items, slot, strayed>>
      /\ ThenMark(p, {}, task[p].fade)
      /\ unused' = [c \in Contents |-> IF c \in task[p].mark /\ There(c) THEN None ELSE unused[c]]
  BY MarkContentUsedStep DEF PlaylistsBase, MarkContentUsed, AloneInv
<1>1. /\ step'[p] = IF task[p].fade # {} THEN "refresh" ELSE SettledStep(p)
      /\ task'[p].fade = task[p].fade
  BY <1>0, ThenMarkTurns
<1>2. Exact(p)'
  BY <1>1, ExactNow DEF SettledStep, FinalStep
<1>3. \A q : ~Creating(p, q)
  BY <1>0 DEF Creating, ListSteps
<1>4. \A c : Fading(p, c) => Fading(p, c)'
  BY <1>0, <1>1 DEF Fading
<1>5. \A c \in Contents : unused'[c] = None /\ ~Referenced(c) => unused[c] = None
  BY <1>0 DEF Exact
<1> QED BY <1>0, <1>2, <1>3, <1>4, <1>5, AloneUse

\* RefreshUsed by the only process at work keeps AloneInv.
LEMMA RefreshUsedAlone ==
  ASSUME PlaylistsBase, AloneInv, NEW p \in Processes, RefreshUsed(p), alone'
  PROVE  AloneInv'
<1>0. /\ BaseStep(p) /\ PlaylistsTypeOK /\ TasksHold
      /\ step[p] = "refresh" /\ UNCHANGED <<playlist, items, slot, strayed>> /\ Go(p, "age", task[p])
      /\ unused' = [c \in Contents |-> IF c \in task[p].fade /\ Referenced(c) THEN None ELSE unused[c]]
  BY RefreshUsedStep DEF PlaylistsBase, RefreshUsed
<1>1. step'[p] = "age" /\ task'[p] = task[p]
  BY <1>0, GoTurns DEF Steps
<1>2. Exact(p)'
  BY <1>1, ExactNow
<1>3. \A q : ~Creating(p, q)
  BY <1>0 DEF Creating, ListSteps
<1>4. \A c : Fading(p, c) => Fading(p, c)'
  BY <1>0, <1>1 DEF Fading
<1> QED BY <1>0, <1>2, <1>3, <1>4, AloneUse

\* RefreshUnused by the only process at work keeps AloneInv.
LEMMA RefreshUnusedAlone ==
  ASSUME PlaylistsBase, AloneInv, NEW p \in Processes, RefreshUnused(p), alone'
  PROVE  AloneInv'
<1>0. /\ BaseStep(p) /\ PlaylistsTypeOK /\ TasksHold
      /\ step[p] = "age" /\ UNCHANGED <<playlist, items, slot, strayed>> /\ Settle(p)
      /\ unused' = [c \in Contents |->
                      IF c \in task[p].fade /\ unused[c] = None /\ ~Referenced(c) THEN "recent"
                      ELSE unused[c]]
  BY RefreshUnusedStep DEF PlaylistsBase, RefreshUnused
<1>1. step'[p] = SettledStep(p)
  BY <1>0, SettleTurns
<1>2. Exact(p)'
  BY <1>1, ExactNow DEF SettledStep, FinalStep
<1>3. \A q : ~Creating(p, q)
  BY <1>0 DEF Creating, ListSteps
<1>4. \A c \in Contents : unused'[c] = None /\ ~Referenced(c) => unused[c] = None /\ ~Fading(p, c)
  BY <1>0, PlaylistsAssumption DEF Fading
<1> QED BY <1>0, <1>2, <1>3, <1>4, AloneUse

\* EditContent by the only process at work keeps AloneInv.
LEMMA EditContentAlone ==
  ASSUME PlaylistsBase, AloneInv, NEW r \in Requests, NEW c \in Contents, EditContent(r, c), alone'
  PROVE  AloneInv'
<1>0. /\ r \in Processes /\ BaseStep(r) /\ PlaylistsTypeOK /\ TasksHold
      /\ step[r] = "idle" /\ UNCHANGED <<playlist, items, slot, strayed>> /\ Return(r)
      /\ unused' = [unused EXCEPT ![c] = IF Referenced(c) THEN None ELSE "recent"]
  BY EditContentStep DEF Processes, PlaylistsBase, EditContent, Begin
<1>1. step'[r] = FinalStep(r)
  BY <1>0, ReturnTurns
<1>2. Exact(r)'
  BY <1>1, ExactNow DEF FinalStep
<1>3. (\A q : ~Creating(r, q)) /\ \A d : ~Fading(r, d)
  BY <1>0, NotOwed DEF OwedSteps, ListSteps
<1>4. \A d \in Contents : unused'[d] = None /\ ~Referenced(d) => unused[d] = None
  BY <1>0, PlaylistsAssumption DEF PlaylistsTypeOK
<1> QED BY <1>0, <1>2, <1>3, <1>4, AloneUse

\* DropContents by the only process at work keeps AloneInv.
LEMMA DropContentsAlone ==
  ASSUME PlaylistsBase, AloneInv, NEW p \in Processes, NEW cs, DropContents(cs), Return(p),
         UNCHANGED <<playlist, items, made, strayed>>, step[p] \notin OwedSteps, BaseStep(p), alone'
  PROVE  AloneInv'
<1>0. PlaylistsTypeOK /\ TasksHold
  BY DEF PlaylistsBase
<1>1. step'[p] = FinalStep(p)
  BY <1>0, ReturnTurns
<1>2. Exact(p)'
  BY <1>1, ExactNow DEF FinalStep
<1>3. CASE \E c \in cs : InItems(c)
  BY <1>2, <1>3, AloneUnowed DEF DropContents, dataVars
<1>4. CASE ~ \E c \in cs : InItems(c)
  <2>1. /\ unused' = [c \in Contents |-> IF c \in cs THEN "gone" ELSE unused[c]]
        /\ slot' = [s \in Slots |-> IF slot[s] \in cs THEN NoContent ELSE slot[s]]
    BY <1>4 DEF DropContents
  <2>2. FadesOn(p)
    <3> SUFFICES ASSUME NEW c \in Contents \ strayed', unused'[c] = None, ~Referenced(c)'
                 PROVE  unused[c] = None /\ ~Referenced(c) /\ ~Fading(p, c)
      BY DEF FadesOn
    <3>1. c \notin cs /\ unused[c] = None
      BY <2>1, PlaylistsAssumption
    <3>2. ~InItems(c)
      BY DEF Referenced, InItems
    <3>3. ~InSlots(c)
      BY <2>1, <3>1 DEF Referenced, InSlots
    <3> QED BY <3>1, <3>2, <3>3, NotOwed DEF Referenced
  <2>3. EmptyOn(p)
    BY NotOwed, SameEmpty DEF EmptyOn
  <2> QED BY <1>2, <2>2, <2>3, AloneStep
<1> QED BY <1>3, <1>4

\* Where no process moves and only ages change, AloneInv is kept.
LEMMA SameAlone ==
  ASSUME AloneInv, UNCHANGED <<playlist, items, slot, step, task, strayed>>,
         \A c \in Contents : /\ unused'[c] = None => unused[c] = None
                             /\ unused'[c] = "gone" <=> unused[c] = "gone"
  PROVE  AloneInv'
<1>1. (\A c : Referenced(c)' <=> Referenced(c)) /\ (\A q : Empty(q)' <=> Empty(q)) /\ \A q : RowsOf(q)' = RowsOf(q)
  BY SameReferences, SameEmpty, SameRows
<1>2. \A p : Exact(p) => Exact(p)'
  BY <1>1 DEF Exact, There
<1>3. UnusedFades => UnusedFades'
  BY <1>1 DEF UnusedFades, Fading, Former
<1>4. EmptyIsNew => EmptyIsNew'
  BY <1>1 DEF EmptyIsNew, Creating
<1> QED BY <1>2, <1>3, <1>4 DEF AloneInv

\* Contents whose references go with this step are to be refreshed.
LEMMA AloneItems ==
  ASSUME PlaylistsBase, AloneInv, NEW p \in Processes, BaseStep(p), alone',
         NEW q, NEW part, SetRows(q, part), UNCHANGED <<playlist, unused, slot, strayed>>,
         step[p] \notin {"mark", "refresh", "age", "rereadSlot"}, Exact(p)',
         \A i \in DOMAIN RowsOf(q), c \in Contents : items[i].content = c =>
           (i \in DOMAIN part /\ part[i].content = c) \/ Fading(p, c)',
         \A x : Creating(p, x) => x = q,
         DOMAIN part = {} => DOMAIN RowsOf(q) = {} /\ ~Creating(p, q)
  PROVE  AloneInv'
<1>0. PlaylistsTypeOK
  BY DEF PlaylistsBase
<1>1. \A c : ~Fading(p, c)
  BY DEF Fading
<1>2. FadesOn(p)
  <2> SUFFICES ASSUME NEW c \in Contents \ strayed', unused'[c] = None, ~Referenced(c)', Referenced(c)
               PROVE  Fading(p, c)'
    BY <1>1 DEF FadesOn
  <2>1. InItems(c)
    BY DEF Referenced, InSlots
  <2>2. PICK i \in ItemIds : items[i] # None /\ items[i].content = c
    BY <2>1 DEF InItems
  <2>3. \A j \in ItemIds : items'[j] # None => items'[j].content # c
    BY DEF Referenced, InItems
  <2>4. i \in DOMAIN RowsOf(q)
    <3>1. i \in DOMAIN RowsOf(q) \/ i \in DOMAIN part
      <4>1. items'[i] # items[i]
        BY <2>2, <2>3
      <4> QED BY <4>1, RowsAre DEF SetRows, WithRows
    <3> QED BY <1>0, <2>2, <3>1, RowsOfFacts DEF SetRows
  <2>5. CASE i \in DOMAIN part /\ part[i].content = c
    <3>1. items'[i] = part[i] /\ part[i] # None
      BY <2>5, RowFields DEF SetRows, WithRows, IsRows
    <3> QED BY <2>2, <2>3, <2>5, <3>1
  <2> QED BY <2>2, <2>4, <2>5
<1>3. EmptyOn(p)
  <2> SUFFICES ASSUME NEW x \in PlaylistIds, Empty(x)' PROVE Empty(x) /\ ~Creating(p, x)
    BY DEF EmptyOn
  <2>1. RowsOf(q)' = part /\ (x # q => RowsOf(x)' = RowsOf(x))
    BY <1>0, SetRowsEffect
  <2>2. CASE x = q
    BY <2>1, <2>2 DEF Empty
  <2>3. CASE x # q
    BY <2>1, <2>3 DEF Empty
  <2> QED BY <2>2, <2>3
<1> QED BY <1>2, <1>3, AloneStep

\* Insert by the only process at work keeps AloneInv.
LEMMA InsertAlone ==
  ASSUME PlaylistsBase, AloneInv, NEW r \in Requests, InsertItem(r), alone'
  PROVE  AloneInv'
<1>0. /\ r \in Processes /\ BaseStep(r) /\ PlaylistsTypeOK /\ TasksHold
      /\ step[r] = "insert" /\ UNCHANGED <<playlist, unused, slot, strayed>>
  BY InsertItemStep DEF Processes, PlaylistsBase, InsertItem
<1>u. step[r] \notin OwedSteps
  BY <1>0 DEF OwedSteps, ListSteps
<1>1. CASE ~CanInsert(r)
  <2>1. Return(r) /\ UNCHANGED dataVars
    BY <1>0, <1>1 DEF InsertItem, CanInsert, dataVars
  <2>2. Exact(r)'
    BY <1>0, <2>1, ReturnTurns, ExactNow DEF FinalStep
  <2> QED BY <1>0, <1>u, <2>1, <2>2, AloneUnowed
<1>2. CASE CanInsert(r)
  <2>1. PICK c, p, R : c = task[r].input.content /\ p = task[r].playlist /\ R = InsertedRows(r)
    OBVIOUS
  <2>2. /\ SetRows(p, R) /\ made + 1 \in ItemIds
        /\ DOMAIN R = DOMAIN RowsOf(p) \cup {made + 1}
        /\ \A i \in DOMAIN RowsOf(p) : R[i] = items[i]
        /\ R[made + 1] = InsertedRow(r) /\ InsertedRow(r) \in ItemRow
        /\ ThenMark(r, {c}, {})
    BY <1>2, <2>1, InsertedSet
  <2>3. R[made + 1].content = c
    BY <2>1, <2>2 DEF InsertedRow
  <2>4. step'[r] = "mark" /\ task'[r].mark = {c}
    <3>1. {c} # {} /\ step[r] \notin {"idle", "done"}
      BY <1>0
    <3> QED BY <1>0, <2>2, <3>1, ThenMarkTurns
  <2>5. Referenced(c)'
    <3>1. items'[made + 1] = R[made + 1] /\ R[made + 1] # None
      BY <2>2, RowFields DEF SetRows, WithRows
    <3> QED BY <2>2, <2>3, <3>1 DEF Referenced, InItems
  <2>6. Exact(r)'
    BY <2>4, <2>5 DEF Exact
  <2>7. \A x : ~Creating(r, x)
    BY <1>u, NotOwed
  <2> QED BY <1>0, <2>2, <2>6, <2>7, AloneItems
<1> QED BY <1>1, <1>2

\* WriteItem by the only process at work keeps AloneInv.
LEMMA WriteItemAlone ==
  ASSUME PlaylistsBase, AloneInv, NEW r \in Requests, WriteItem(r), alone'
  PROVE  AloneInv'
<1>0. /\ r \in Processes /\ BaseStep(r) /\ PlaylistsTypeOK /\ TasksHold
      /\ step[r] = "write" /\ UNCHANGED <<playlist, made, unused, slot, strayed>> /\ Return(r)
  BY WriteItemStep DEF Processes, PlaylistsBase, WriteItem
<1>1. Exact(r)'
  BY <1>0, ReturnTurns, ExactNow DEF FinalStep
<1>2. step[r] \notin OwedSteps
  BY <1>0 DEF OwedSteps, ListSteps
<1>3. CASE UNCHANGED items
  BY <1>0, <1>1, <1>2, <1>3, AloneUnowed DEF dataVars
<1>4. CASE /\ SetRows(task[r].playlist, UpdatedRows(r))
           /\ DOMAIN UpdatedRows(r) = DOMAIN RowsOf(task[r].playlist)
           /\ \A i \in DOMAIN UpdatedRows(r) : UpdatedRows(r)[i].content = items[i].content
  BY <1>0, <1>1, <1>2, <1>4, NotOwed, AloneItems
<1> QED BY <1>3, <1>4, UpdatedSet

\* Reorder by the only process at work keeps AloneInv.
LEMMA ReorderAlone ==
  ASSUME PlaylistsBase, AloneInv, NEW r \in Requests, ReorderItems(r), alone'
  PROVE  AloneInv'
<1>0. /\ r \in Processes /\ BaseStep(r) /\ PlaylistsTypeOK /\ TasksHold
      /\ step[r] = "reorder" /\ UNCHANGED <<playlist, made, unused, slot, strayed>> /\ Return(r)
  BY ReorderItemsStep DEF Processes, PlaylistsBase, ReorderItems
<1>1. Exact(r)'
  BY <1>0, ReturnTurns, ExactNow DEF FinalStep
<1>2. step[r] \notin OwedSteps
  BY <1>0 DEF OwedSteps, ListSteps
<1>3. CASE ~Unique(ReorderedRows(r))
  <2>1. UNCHANGED items
    BY <1>3, ReorderedSet
  <2> QED BY <1>0, <1>1, <1>2, <2>1, AloneUnowed DEF dataVars
<1>4. CASE Unique(ReorderedRows(r))
  <2>1. /\ SetRows(task[r].playlist, ReorderedRows(r))
        /\ DOMAIN ReorderedRows(r) = DOMAIN RowsOf(task[r].playlist)
        /\ \A i \in DOMAIN ReorderedRows(r) : ReorderedRows(r)[i].content = items[i].content
    BY <1>0, <1>4, ReorderedSet, ReorderedFacts
  <2> QED BY <1>0, <1>1, <1>2, <2>1, NotOwed, AloneItems
<1> QED BY <1>3, <1>4

\* DeleteItem by the only process at work keeps AloneInv.
LEMMA DeleteItemAlone ==
  ASSUME PlaylistsBase, AloneInv, NEW r \in Requests, DeleteItem(r), alone'
  PROVE  AloneInv'
<1>0. /\ r \in Processes /\ BaseStep(r) /\ PlaylistsTypeOK /\ TasksHold /\ ListHolds(r) /\ Exact(r)
      /\ step[r] = "delete" /\ UNCHANGED <<playlist, made, unused, slot, strayed>>
  BY DeleteItemStep DEF Processes, PlaylistsBase, DeleteItem, AloneInv, ListsHold
<1>2. step[r] \notin OwedSteps /\ step[r] \notin {"idle", "done"}
  BY <1>0 DEF OwedSteps, ListSteps
<1>3. CASE UNCHANGED items /\ Return(r)
  <2>1. Exact(r)'
    BY <1>0, <1>3, ReturnTurns, ExactNow DEF FinalStep
  <2> QED BY <1>0, <1>2, <1>3, <2>1, AloneUnowed DEF dataVars
<1>4. CASE ~ (UNCHANGED items /\ Return(r))
  <2>1. PICK p, id, c, R : p = task[r].playlist /\ id = task[r].input /\ c = items[id].content /\ R = DeletedRows(r)
    OBVIOUS
  <2>2. /\ SetRows(p, R) /\ DOMAIN R = DOMAIN RowsOf(p) \ {id}
        /\ \A i \in DOMAIN R : R[i] = items[i]
        /\ ThenMark(r, {}, {c})
    BY <1>4, <2>1, DeletedSet
  <2>3. step'[r] = "refresh" /\ task'[r].fade = {c}
    <3>1. {c} # {}
      OBVIOUS
    <3> QED BY <1>0, <1>2, <2>2, <3>1, ThenMarkTurns
  <2>4. Exact(r)'
    BY <2>3, ExactNow
  <2>5. Fading(r, c)'
    BY <2>3 DEF Fading
  <2>6. \A i \in DOMAIN RowsOf(p) : i \notin DOMAIN R => items[i].content = c
    BY <2>1, <2>2
  <2>7. DOMAIN R # {}
    <3>1. DOMAIN RowsOf(p) = DOMAIN task[r].listed
      BY <1>0, <2>1 DEF Exact
    <3>2. id \in DOMAIN RowsOf(p) /\ Cardinality(DOMAIN RowsOf(p)) > 1
      BY <1>0, <2>1, <3>1 DEF ListHolds
    <3>3. SUFFICES ASSUME DOMAIN R = {} PROVE FALSE
      OBVIOUS
    <3>4. DOMAIN RowsOf(p) = {id}
      BY <2>2, <3>2, <3>3
    <3>5. Cardinality({id}) = 1
      BY FS_Singleton
    <3> QED BY <3>2, <3>4, <3>5
  <2> QED BY <1>0, <1>2, <2>2, <2>4, <2>5, <2>6, <2>7, NotOwed, AloneItems
<1> QED BY <1>3, <1>4

\* Every content that is asked for comes with a new item.
LEMMA NewContentsMade ==
  ASSUME PlaylistsBase, NEW r \in Requests, step[r] = "replace", NEW c \in NewContents(task[r].input)
  PROVE  \E i \in FreshIds(r) : i \in DOMAIN ReplacedRows(r) /\ ReplacedRows(r)[i].content = c
<1>1. PICK list, R : list = task[r].input /\ R = ReplacedRows(r)
  OBVIOUS
<1>2. /\ list \in Lists
      /\ \A i \in FreshIds(r) : /\ PlaceIn(r, i) \in NewEntries(list) /\ NewId(list, PlaceIn(r, i)) = i
                                /\ R[i].content = list[PlaceIn(r, i)].content /\ i \in DOMAIN R
  <2>1. /\ task[r].input \in Lists
        /\ DOMAIN ReplacedRows(r) = (DOMAIN RowsOf(task[r].playlist) \ Dropped(r)) \cup FreshIds(r)
        /\ \A i \in FreshIds(r) :
             /\ PlaceIn(r, i) \in NewEntries(task[r].input) /\ NewId(task[r].input, PlaceIn(r, i)) = i
             /\ ReplacedRows(r)[i].content = task[r].input[PlaceIn(r, i)].content
    BY ReplacedFacts
  <2> QED BY <1>1, <2>1
<1>3. made \in Nat
  BY DEF PlaylistsBase, PlaylistsTypeOK
<1>4. PICK n \in DOMAIN list : list[n].content = c /\ c # None
  BY <1>1 DEF NewContents
<1>5. n \in NewEntries(list)
  <2>1. list[n] \in Entry
    BY <1>2, ListEntries
  <2> QED BY <1>4, <2>1 DEF Entry, NewEntries
<1>6. NewId(list, n) \in FreshIds(r)
  BY <1>1, <1>5 DEF FreshIds
<1>7. PlaceIn(r, NewId(list, n)) = n
  BY <1>2, <1>3, <1>5, <1>6, NewIds
<1> QED BY <1>1, <1>2, <1>4, <1>6, <1>7

\* Replace by the only process at work keeps AloneInv.
LEMMA ReplaceAlone ==
  ASSUME PlaylistsBase, AloneInv, NEW r \in Requests, ReplaceItems(r), alone'
  PROVE  AloneInv'
<1>0. /\ r \in Processes /\ BaseStep(r) /\ PlaylistsTypeOK /\ TasksHold /\ TaskHolds(r) /\ ListHolds(r) /\ Exact(r)
      /\ step[r] = "replace" /\ UNCHANGED <<playlist, unused, slot, strayed>>
  <2>1. r \in Processes /\ BaseStep(r)
    BY ReplaceItemsStep DEF Processes
  <2>2. step[r] = "replace" /\ UNCHANGED <<playlist, unused, slot, strayed>>
    BY DEF ReplaceItems
  <2> QED BY <2>1, <2>2 DEF PlaylistsBase, TasksHold, ListsHold, AloneInv
<1>1. \A d : ~Fading(r, d)
  BY <1>0 DEF Fading
<1>2. CASE UNCHANGED <<items, made>> /\ Refuse(r)
  <2>1. IF task[r].op = "create" THEN step'[r] = "undo" /\ task'[r] = task[r]
        ELSE step'[r] = "done" /\ task'[r] = Blank
    BY <1>0, <1>2, RefuseTurns
  <2>2. Exact(r)'
    BY <2>1, ExactNow
  <2>3. \A q : Creating(r, q) => Creating(r, q)'
    BY <2>1 DEF Creating
  <2> QED BY <1>0, <1>1, <1>2, <2>2, <2>3, AloneQuiet DEF dataVars
<1>3. CASE ~ (UNCHANGED <<items, made>> /\ Refuse(r))
  <2>1. PICK p, list, R, new, old :
          p = task[r].playlist /\ list = task[r].input /\ R = ReplacedRows(r) /\ new = NewContents(task[r].input)
          /\ old = {task[r].found[i].content : i \in Dropped(r)}
    OBVIOUS
  <2>2. SetRows(p, R) /\ ThenMark(r, new, old)
    BY <1>3, <2>1, ReplacedSet
  <2>3. /\ step'[r] = IF new # {} THEN "mark" ELSE IF old # {} THEN "refresh" ELSE SettledStep(r)
        /\ task'[r].mark = new /\ task'[r].fade = old
    BY <1>0, <2>2, ThenMarkTurns
  <2>4. task[r].found = RowsOf(p) /\ task[r].listed = RowsOf(p)
    BY <1>0, <2>1 DEF Exact
  <2>5. /\ list \in Lists /\ list # <<>>
        /\ DOMAIN R = (DOMAIN RowsOf(p) \ Dropped(r)) \cup FreshIds(r)
        /\ \A i \in FreshIds(r) : i \notin DOMAIN RowsOf(p)
        /\ \A i \in DOMAIN R \ FreshIds(r) : R[i].content = items[i].content
    BY <1>0, <2>1, ReplacedFacts
  <2>6. \A c \in new : Referenced(c)'
    <3> SUFFICES ASSUME NEW c \in new PROVE InItems(c)'
      BY DEF Referenced
    <3>1. PICK i \in DOMAIN R : R[i].content = c
      BY <1>0, <2>1, NewContentsMade
    <3>2. i \in ItemIds /\ items'[i] = R[i] /\ R[i] # None
      BY <2>2, RowFields DEF SetRows, WithRows, IsRows
    <3> QED BY <3>1, <3>2 DEF InItems
  <2>7. Exact(r)'
    BY <2>3, <2>6 DEF Exact, SettledStep, FinalStep
  <2>8. \A i \in DOMAIN RowsOf(p), c \in Contents : items[i].content = c =>
          (i \in DOMAIN R /\ R[i].content = c) \/ Fading(r, c)'
    <3> SUFFICES ASSUME NEW i \in DOMAIN RowsOf(p), NEW c \in Contents, items[i].content = c, i \in Dropped(r)
                 PROVE  Fading(r, c)'
      BY <2>5
    <3>1. RowsOf(p)[i] = items[i]
      BY <1>0, RowsOfFacts
    <3>2. c \in old
      BY <2>1, <2>4, <3>1
    <3> QED BY <2>3, <3>2 DEF Fading
  <2>9. DOMAIN R # {}
    <3>1. 1 \in DOMAIN list
      BY <2>5, ListEntries, EmptySeq
    <3>2. CASE list[1].item = None
      <4>1. NewId(list, 1) \in FreshIds(r)
        BY <2>1, <3>1, <3>2 DEF NewEntries, FreshIds
      <4> QED BY <2>5, <4>1
    <3>3. CASE list[1].item # None
      <4>1. list[1].item \in Kept(list)
        BY <3>1, <3>3 DEF Kept
      <4>2. list[1].item \in DOMAIN RowsOf(p)
        BY <1>0, <2>1, <2>4, <4>1 DEF ListHolds
      <4>3. list[1].item \notin Dropped(r)
        BY <2>1, <4>1 DEF Dropped
      <4> QED BY <2>5, <4>2, <4>3
    <3> QED BY <3>2, <3>3
  <2>10. \A x : Creating(r, x) => x = p
    BY <2>1 DEF Creating
  <2> QED BY <1>0, <2>2, <2>7, <2>8, <2>9, <2>10, AloneItems
<1> QED BY <1>2, <1>3

\* Playlists go with their items.
LEMMA DropAlone ==
  ASSUME PlaylistsBase, AloneInv, NEW p \in Processes, BaseStep(p), alone', NEW ps, DropPlaylists(ps),
         UNCHANGED <<unused, slot>>, strayed \subseteq strayed',
         \A c \in ContentsOf(ps) : c \in strayed' \/ Fading(p, c)',
         step[p] \notin {"mark", "refresh", "age", "rereadSlot"}, Exact(p)',
         \A x : Creating(p, x) => x \in ps
  PROVE  AloneInv'
<1>0. PlaylistsTypeOK
  BY DEF PlaylistsBase
<1>1. \A c : ~Fading(p, c)
  BY DEF Fading
<1>2. /\ \A q : q \notin ps => RowsOf(q)' = RowsOf(q)
      /\ \A i \in ItemIds : items'[i] = IF items[i] # None /\ items[i].playlist \in ps THEN None ELSE items[i]
  BY <1>0, DropEffect
<1>3. FadesOn(p)
  <2> SUFFICES ASSUME NEW c \in Contents \ strayed', unused'[c] = None, ~Referenced(c)', Referenced(c)
               PROVE  Fading(p, c)'
    BY <1>1 DEF FadesOn
  <2>1. InItems(c)
    BY DEF Referenced, InSlots
  <2>2. PICK i \in ItemIds : items[i] # None /\ items[i].content = c
    BY <2>1 DEF InItems
  <2>3. items[i].playlist \in ps
    BY <1>2, <2>2 DEF Referenced, InItems
  <2>4. i \in DOMAIN RowsOf(items[i].playlist)
    BY <1>0, <2>2, RowsOfFacts
  <2>5. c \in ContentsOf(ps)
    BY <2>2, <2>3, <2>4 DEF ContentsOf
  <2> QED BY <2>5
<1>4. EmptyOn(p)
  <2> SUFFICES ASSUME NEW x \in PlaylistIds, Empty(x)' PROVE Empty(x) /\ ~Creating(p, x)
    BY DEF EmptyOn
  <2>1. x \notin ps /\ playlist[x] = "there"
    BY DEF Empty, DropPlaylists
  <2>2. RowsOf(x)' = RowsOf(x)
    BY <1>2, <2>1
  <2> QED BY <2>1, <2>2 DEF Empty
<1> QED BY <1>3, <1>4, AloneStep

\* UndoCreate by the only process at work keeps AloneInv.
LEMMA UndoCreateAlone ==
  ASSUME PlaylistsBase, AloneInv, NEW r \in Requests, UndoCreate(r) \/ DeletePlaylist(r), alone'
  PROVE  AloneInv'
<1>0. /\ r \in Processes /\ BaseStep(r) /\ PlaylistsTypeOK /\ TasksHold
  BY UndoCreateStep, DeletePlaylistStep DEF Processes, PlaylistsBase
<1>1. /\ DropPlaylists({task[r].playlist}) /\ Return(r) /\ UNCHANGED <<unused, slot>>
      /\ strayed' = strayed \cup ContentsOf({task[r].playlist})
      /\ step[r] \notin {"mark", "refresh", "age", "rereadSlot"}
  BY DEF UndoCreate, DeletePlaylist
<1>2. Exact(r)'
  BY <1>0, <1>1, ReturnTurns, ExactNow DEF FinalStep
<1>3. \A x : Creating(r, x) => x \in {task[r].playlist}
  BY DEF Creating
<1> QED BY <1>0, <1>1, <1>2, <1>3, DropAlone

\* Sweep by the only process at work keeps AloneInv.
LEMMA SweepAlone ==
  ASSUME PlaylistsBase, AloneInv, Sweep, alone'
  PROVE  AloneInv'
<1>0. /\ Cleanup \in Processes /\ BaseStep(Cleanup) /\ PlaylistsTypeOK /\ TasksHold /\ step[Cleanup] = "sweep"
  BY SweepStep DEF Processes, PlaylistsBase, Sweep
<1>1. PICK ps, f : ps = task[Cleanup].input /\ f = task[Cleanup].fade
  OBVIOUS
<1>2. /\ DropPlaylists(ps) /\ ThenMark(Cleanup, {}, f) /\ UNCHANGED <<unused, slot>>
      /\ strayed' = strayed \cup (ContentsOf(ps) \ f)
  BY <1>1 DEF Sweep
<1>3. /\ step'[Cleanup] = IF f # {} THEN "refresh" ELSE SettledStep(Cleanup)
      /\ task'[Cleanup].fade = f
  BY <1>0, <1>2, ThenMarkTurns
<1>4. Exact(Cleanup)'
  BY <1>3, ExactNow DEF SettledStep
<1>5. \A c \in ContentsOf(ps) : c \in strayed' \/ Fading(Cleanup, c)'
  BY <1>2, <1>3 DEF Fading
<1>6. \A x : ~Creating(Cleanup, x)
  BY <1>0 DEF Creating, ListSteps
<1> QED BY <1>0, <1>2, <1>4, <1>5, <1>6, DropAlone

\* WriteSlot by the only process at work keeps AloneInv.
LEMMA WriteSlotAlone ==
  ASSUME PlaylistsBase, AloneInv, NEW r \in Requests, WriteSlot(r), alone'
  PROVE  AloneInv'
<1>0. /\ r \in Processes /\ BaseStep(r) /\ PlaylistsTypeOK /\ TasksHold /\ TaskHolds(r) /\ Exact(r)
      /\ step[r] = "writeSlot" /\ UNCHANGED <<playlist, items, made, unused, strayed>>
  BY WriteSlotStep DEF Processes, PlaylistsBase, WriteSlot, TasksHold, AloneInv
<1>u. step[r] \notin OwedSteps
  BY <1>0 DEF OwedSteps, ListSteps
<1>i. PICK s, c : s = task[r].input.slot /\ c = task[r].input.content
  OBVIOUS
<1>1. CASE ~There(c)
  <2>1. Return(r) /\ UNCHANGED dataVars
    BY <1>0, <1>1, <1>i DEF WriteSlot, dataVars
  <2>2. Exact(r)'
    BY <1>0, <2>1, ReturnTurns, ExactNow DEF FinalStep
  <2> QED BY <1>0, <1>u, <2>1, <2>2, AloneUnowed
<1>2. CASE There(c)
  <2>1. Go(r, "rereadSlot", task[r]) /\ slot' = [slot EXCEPT ![s] = c]
    BY <1>2, <1>i DEF WriteSlot
  <2>2. step'[r] = "rereadSlot" /\ task'[r] = task[r]
    BY <1>0, <2>1, GoTurns DEF Steps
  <2>3. s \in Slots /\ c \in Contents /\ task[r].row = slot[s]
    BY <1>0, <1>i DEF TaskHolds, SlotSteps, Exact
  <2>4. /\ slot'[s] = c /\ \A x \in Slots : x # s => slot'[x] = slot[x]
    BY <1>0, <2>1, <2>3 DEF PlaylistsTypeOK
  <2>5. Exact(r)'
    BY <1>i, <2>2, <2>4 DEF Exact
  <2>6. FadesOn(r)
    <3> SUFFICES ASSUME NEW d \in Contents \ strayed', unused'[d] = None, ~Referenced(d)', Referenced(d)
                 PROVE  Fading(r, d)'
      BY <1>0, <1>u, NotOwed DEF FadesOn
    <3>1. InSlots(d) /\ ~InSlots(d)'
      BY <1>0 DEF Referenced, InItems
    <3>2. slot[s] = d /\ d # c
      BY <2>3, <2>4, <3>1 DEF InSlots
    <3>3. d \in {task'[r].row} \ {None, NoContent, task'[r].input.content}
      BY <1>i, <2>2, <2>3, <3>2, PlaylistsAssumption
    <3> QED BY <2>2, <3>3 DEF Fading, Former
  <2>7. EmptyOn(r)
    BY <1>0, <1>u, NotOwed, SameEmpty DEF EmptyOn
  <2> QED BY <1>0, <2>5, <2>6, <2>7, AloneStep
<1> QED BY <1>1, <1>2

\* ClearSlot by the only process at work keeps AloneInv.
LEMMA ClearSlotAlone ==
  ASSUME PlaylistsBase, AloneInv, NEW r \in Requests, ClearSlot(r), alone'
  PROVE  AloneInv'
<1>0. /\ r \in Processes /\ BaseStep(r) /\ PlaylistsTypeOK /\ TasksHold /\ TaskHolds(r) /\ Exact(r)
      /\ step[r] = "clearSlot" /\ UNCHANGED <<playlist, items, made, unused, strayed>>
  BY ClearSlotStep DEF Processes, PlaylistsBase, ClearSlot, TasksHold, AloneInv
<1>u. step[r] \notin OwedSteps /\ step[r] \notin {"idle", "done"}
  BY <1>0 DEF OwedSteps, ListSteps
<1>i. PICK s : s = task[r].input.slot
  OBVIOUS
<1>1. s \in Slots /\ task[r].input.content = None /\ task[r].row = slot[s] /\ slot' = [slot EXCEPT ![s] = None]
  BY <1>0, <1>i DEF TaskHolds, SlotSteps, Exact, ClearSlot
<1>2. slot'[s] = None /\ \A x \in Slots : x # s => slot'[x] = slot[x]
  BY <1>0, <1>1 DEF PlaylistsTypeOK
<1>3. CASE slot[s] = None
  <2>1. Return(r)
    BY <1>3, <1>i DEF ClearSlot
  <2>2. slot' = slot
    BY <1>0, <1>1, <1>3 DEF PlaylistsTypeOK
  <2>3. Exact(r)'
    BY <1>0, <2>1, ReturnTurns, ExactNow DEF FinalStep
  <2> QED BY <1>0, <1>u, <2>2, <2>3, AloneUnowed DEF dataVars
<1>4. CASE slot[s] # None
  <2>1. PICK f : f = Former(r)
    OBVIOUS
  <2>2. ThenMark(r, {}, f)
    BY <1>4, <1>i, <2>1 DEF ClearSlot
  <2>3. step'[r] = (IF f # {} THEN "refresh" ELSE SettledStep(r)) /\ task'[r].fade = f
    BY <1>0, <1>u, <2>2, ThenMarkTurns
  <2>4. Exact(r)'
    BY <2>3, ExactNow DEF SettledStep, FinalStep
  <2>5. FadesOn(r)
    <3> SUFFICES ASSUME NEW d \in Contents \ strayed', unused'[d] = None, ~Referenced(d)', Referenced(d)
                 PROVE  Fading(r, d)'
      BY <1>0, <1>u, NotOwed DEF FadesOn
    <3>1. InSlots(d) /\ ~InSlots(d)'
      BY <1>0 DEF Referenced, InItems
    <3>2. slot[s] = d
      BY <1>2, <3>1 DEF InSlots
    <3>3. d \in f
      BY <1>1, <2>1, <3>2, PlaylistsAssumption DEF Former
    <3> QED BY <2>3, <3>3 DEF Fading
  <2>6. EmptyOn(r)
    BY <1>0, <1>u, NotOwed, SameEmpty DEF EmptyOn
  <2> QED BY <1>0, <2>4, <2>5, <2>6, AloneStep
<1> QED BY <1>3, <1>4

\* The steps of requests that read, and some that write.
LEMMA RequestAlone ==
  ASSUME PlaylistsBase, AloneInv, NEW r \in Requests, BeginItemStep(r) \/ ItemStep(r) \/ OtherStep(r),
         ~Break(r), alone'
  PROVE  AloneInv'
<1>0. r \in Processes /\ BaseStep(r) /\ PlaylistsTypeOK /\ TasksHold
  BY RequestStepIs DEF Processes, PlaylistsBase
<1>1. CASE BeginItemStep(r)
  BY <1>1, AloneBegin, AloneCreate
<1>2. CASE ItemStep(r)
  BY <1>2, InsertAlone, FetchAlone, WriteItemAlone, DeleteItemAlone, ReorderAlone, CheckListAlone, RelistAlone,
     ReplaceAlone, UndoCreateAlone DEF ItemStep
<1>3. CASE \/ \E p \in PlaylistIds : BeginDeletePlaylist(r, p)
           \/ \E s \in Slots, c \in Contents : BeginSetSlot(r, s, c)
           \/ \E s \in Slots : BeginClearSlot(r, s)
           \/ \E c \in Contents : BeginDeleteContent(r, c)
  <2>1. step[r] = "idle" /\ UNCHANGED <<dataVars, strayed>>
    BY <1>3 DEF BeginDeletePlaylist, BeginSetSlot, BeginClearSlot, BeginDeleteContent, Begin
  <2>2. \E t : Go(r, "drop", t) \/ Go(r, "readSlot", t) \/ Go(r, "deleteContent", t)
    BY <1>3 DEF BeginDeletePlaylist, BeginSetSlot, BeginClearSlot, BeginDeleteContent
  <2>3. step'[r] \in {"drop", "readSlot", "deleteContent"}
    BY <1>0, <2>2, GoTurns DEF Steps
  <2>4. Exact(r)'
    BY <2>3, ExactNow
  <2>5. step[r] \notin OwedSteps
    BY <2>1 DEF OwedSteps, ListSteps
  <2> QED BY <1>0, <2>1, <2>4, <2>5, AloneUnowed
<1>4. CASE DeleteContent(r)
  <2>1. DropContents(task[r].mark) /\ Return(r) /\ UNCHANGED <<playlist, items, made, strayed>>
        /\ step[r] = "deleteContent"
    BY <1>4 DEF DeleteContent
  <2>2. step[r] \notin OwedSteps
    BY <2>1 DEF OwedSteps, ListSteps
  <2> QED BY <1>0, <2>1, <2>2, DropContentsAlone
<1>5. CASE \/ DeletePlaylist(r) \/ ReadSlot(r) \/ WriteSlot(r) \/ RereadSlot(r) \/ ClearSlot(r)
           \/ \E c \in Contents : EditContent(r, c)
  BY <1>5, UndoCreateAlone, ReadSlotAlone, WriteSlotAlone, RereadSlotAlone, ClearSlotAlone, EditContentAlone
<1> QED BY <1>1, <1>2, <1>3, <1>4, <1>5 DEF OtherStep

\* Cleanup by the only process at work keeps AloneInv.
LEMMA CleanupAlone ==
  ASSUME PlaylistsBase, AloneInv, alone',
         (\E ps \in SUBSET PlaylistIds : BeginCleanup(ps)) \/ Sweep \/ Choose \/ Purge
  PROVE  AloneInv'
<1>0. Cleanup \in Processes /\ BaseStep(Cleanup) /\ PlaylistsTypeOK /\ TasksHold /\ Cleanup \notin Requests
  BY BeginCleanupStep, SweepStep, ChooseStep, PurgeStep, PlaylistsAssumption DEF Processes, PlaylistsBase
<1>1. CASE \E ps \in SUBSET PlaylistIds : BeginCleanup(ps)
  <2>1. step[Cleanup] = "idle" /\ UNCHANGED <<dataVars, strayed>>
    BY <1>1 DEF BeginCleanup, Begin
  <2>2. \E t : Go(Cleanup, "choose", t) \/ Go(Cleanup, "sweep", t)
    BY <1>1 DEF BeginCleanup
  <2>3. step'[Cleanup] \in {"choose", "sweep"}
    BY <1>0, <2>2, GoTurns DEF Steps
  <2>4. Exact(Cleanup)'
    BY <2>3, ExactNow
  <2>5. step[Cleanup] \notin OwedSteps
    BY <2>1 DEF OwedSteps, ListSteps
  <2> QED BY <1>0, <2>1, <2>4, <2>5, AloneUnowed
<1>2. CASE Sweep
  BY <1>2, SweepAlone
<1>3. CASE Choose
  <2>1. step[Cleanup] = "choose" /\ UNCHANGED <<dataVars, strayed>>
    BY <1>3 DEF Choose
  <2>2. Return(Cleanup) \/ \E t : Go(Cleanup, "purge", t)
    BY <1>3 DEF Choose
  <2>3. step'[Cleanup] \in {"idle", "done", "purge"}
    BY <1>0, <2>2, GoTurns, ReturnTurns DEF Steps, FinalStep
  <2>4. Exact(Cleanup)'
    BY <2>3, ExactNow
  <2>5. step[Cleanup] \notin OwedSteps
    BY <2>1 DEF OwedSteps, ListSteps
  <2> QED BY <1>0, <2>1, <2>4, <2>5, AloneUnowed
<1>4. CASE Purge
  <2>1. DropContents(task[Cleanup].mark) /\ Return(Cleanup) /\ UNCHANGED <<playlist, items, made, strayed>>
        /\ step[Cleanup] = "purge"
    BY <1>4 DEF Purge
  <2>2. step[Cleanup] \notin OwedSteps
    BY <2>1 DEF OwedSteps, ListSteps
  <2> QED BY <1>0, <2>1, <2>2, DropContentsAlone
<1> QED BY <1>1, <1>2, <1>3, <1>4

\* Age by the only process at work keeps AloneInv.
LEMMA AgeAlone ==
  ASSUME PlaylistsBase, AloneInv, Age
  PROVE  AloneInv'
<1>1. PICK c \in Contents : unused[c] = "recent" /\ unused' = [unused EXCEPT ![c] = "old"]
  BY DEF Age
<1>2. \A d \in Contents : /\ unused'[d] = None => unused[d] = None
                          /\ unused'[d] = "gone" <=> unused[d] = "gone"
  BY <1>1, PlaylistsAssumption DEF PlaylistsBase, PlaylistsTypeOK
<1> QED BY <1>2, SameAlone DEF Age

\* Who is alone after a step was so before it.
LEMMA AloneBefore ==
  ASSUME PlaylistsBase, [PlaylistsNext]_playlistsVars, ~Crash, alone'
  PROVE  alone
<1>c. Cleanup \in Processes /\ \A r \in Requests : r \in Processes
  BY DEF Processes
<1>1. \A p \in Processes : BaseStep(p) => alone
  BY DEF BaseStep, Turns
<1>2. Age \/ UNCHANGED playlistsVars => alone
  BY DEF Age, playlistsVars
<1> QED BY <1>c, <1>1, <1>2, NextCases, RequestStepIs, ContentStepIs, BeginCleanupStep, SweepStep, ChooseStep, PurgeStep

\* Every step without a fault, of the only process at work, keeps AloneInv.
LEMMA NextAlone ==
  ASSUME PlaylistsBase, breaks \in Nat, alone /\ breaks = 0 => AloneInv, [PlaylistsNext]_playlistsVars,
         alone', breaks' = 0
  PROVE  AloneInv'
<1>0. breaks = 0 /\ ~Crash /\ \A r \in Requests : ~Break(r)
  BY BreaksCount
<1>a. AloneInv
  BY <1>0, AloneBefore
<1>1. CASE \E r \in Requests : BeginItemStep(r) \/ ItemStep(r) \/ OtherStep(r)
  BY <1>0, <1>1, <1>a, RequestAlone
<1>2. CASE \E p \in Processes : ContentStep(p)
  BY <1>2, <1>a, MarkAlone, RefreshUsedAlone, RefreshUnusedAlone DEF ContentStep
<1>3. CASE (\E ps \in SUBSET PlaylistIds : BeginCleanup(ps)) \/ Sweep \/ Choose \/ Purge
  BY <1>3, <1>a, CleanupAlone
<1>4. CASE Age
  BY <1>4, <1>a, AgeAlone
<1>5. CASE UNCHANGED playlistsVars
  BY <1>5, <1>a, SameAlone DEF playlistsVars, dataVars
<1> QED BY <1>0, <1>1, <1>2, <1>3, <1>4, <1>5, NextCases

\* It holds at the start.
LEMMA InitAlone == PlaylistsInit => AloneInv
<1> SUFFICES ASSUME PlaylistsInit PROVE AloneInv
  OBVIOUS
<1>1. /\ items = Started /\ step = [p \in Processes |-> "idle"]
      /\ playlist = [p \in PlaylistIds |->
                      IF \E i \in ItemIds : Started[i] # None /\ Started[i].playlist = p THEN "there" ELSE "absent"]
      /\ unused = [c \in Contents |->
                    IF \E i \in ItemIds : Started[i] # None /\ Started[i].content = c THEN None ELSE "recent"]
  BY DEF PlaylistsInit
<1>2. \A p \in Processes : Exact(p)
  BY <1>1 DEF Exact
<1>3. UnusedFades
  <2>1. \A c \in Contents : unused[c] = None => InItems(c)
    BY <1>1, PlaylistsAssumption DEF InItems
  <2> QED BY <2>1 DEF UnusedFades, Referenced
<1>4. EmptyIsNew
  <2>1. \A p \in PlaylistIds : playlist[p] = "there" => \E i \in ItemIds : items[i] # None /\ items[i].playlist = p
    BY <1>1
  <2>2. \A p \in PlaylistIds : ~Empty(p)
    BY <2>1 DEF Empty, RowsOf
  <2> QED BY <2>2 DEF EmptyIsNew
<1> QED BY <1>2, <1>3, <1>4 DEF AloneInv

(***************************************************************************)
(* The invariant.                                                          *)
(***************************************************************************)

\* The invariant holds at the start,
LEMMA PlaylistsInitInv == PlaylistsInit => PlaylistsInv
<1> SUFFICES ASSUME PlaylistsInit PROVE PlaylistsInv
  OBVIOUS
<1>1. breaks \in Nat
  BY DEF PlaylistsInit
<1> QED BY <1>1, InitBase, InitUsed, InitAlone DEF PlaylistsInv

\* every step keeps it,
LEMMA PlaylistsNextInv == PlaylistsInv /\ [PlaylistsNext]_playlistsVars => PlaylistsInv'
<1> SUFFICES ASSUME PlaylistsInv, [PlaylistsNext]_playlistsVars PROVE PlaylistsInv'
  OBVIOUS
<1>0. PlaylistsBase /\ breaks \in Nat
  BY DEF PlaylistsInv
<1>1. PlaylistsBase' /\ breaks' \in Nat
  BY <1>0, NextBase, BreaksCount
<1>2. ASSUME breaks' = 0 PROVE UsedIsMarked'
  BY <1>0, <1>2, BreaksCount, NextUsed DEF PlaylistsInv
<1>3. ASSUME alone', breaks' = 0 PROVE AloneInv'
  BY <1>0, <1>3, NextAlone DEF PlaylistsInv
<1> QED BY <1>1, <1>2, <1>3 DEF PlaylistsInv

\* and it implies the property.
LEMMA InvKeepsBooks == PlaylistsInv => BookkeepingIsTrue
<1> SUFFICES ASSUME PlaylistsInv PROVE BookkeepingIsTrue
  OBVIOUS
<1>1. PlaylistsTypeOK
  BY DEF PlaylistsInv, PlaylistsBase
<1>i. Busy = {} => \A p \in Processes : step[p] \in {"idle", "done"}
  BY DEF Busy
<1>2. UsedIsNotAged
  <2> SUFFICES ASSUME Busy = {}, breaks = 0, NEW c \in Contents, Referenced(c) PROVE unused[c] = None
    BY DEF UsedIsNotAged
  <2>1. ~Marking(c) /\ \A s \in Slots : ~Setting(s, c)
    BY <1>i DEF Marking, Setting
  <2> QED BY <2>1 DEF PlaylistsInv, UsedIsMarked, Referenced, InSlots
<1>3. UnusedAges
  <2> SUFFICES ASSUME alone, Busy = {}, breaks = 0, NEW c \in Contents \ strayed, unused[c] = None
               PROVE  Referenced(c)
    BY DEF UnusedAges
  <2>1. \A p \in Processes : ~Fading(p, c)
    BY <1>i DEF Fading
  <2> QED BY <2>1 DEF PlaylistsInv, AloneInv, UnusedFades
<1>4. NoEmptyPlaylist
  <2> SUFFICES ASSUME alone, Busy = {}, breaks = 0, NEW p \in PlaylistIds PROVE ~Empty(p)
    BY DEF NoEmptyPlaylist
  <2>1. \A r \in Requests : ~Creating(r, p)
    BY <1>i DEF Creating, ListSteps, Processes
  <2> QED BY <2>1 DEF PlaylistsInv, AloneInv, EmptyIsNew
<1> QED BY <1>1, <1>2, <1>3, <1>4 DEF BookkeepingIsTrue

\* The invariant: the state and what every process holds are well formed; while nothing
\* broke, a content is marked used or a process is about to mark it; and while processes
\* came one at a time, what they hold is what there is, what is unused fades and only a
\* creation in progress has an empty playlist (add-playlist-item, create-playlist,
\* replaceItemsAtomic, markContentUsed, refreshContentUnusedSince).
THEOREM PlaylistsInvariant == PlaylistsSpec => []PlaylistsInv
<1> QED BY PlaylistsInitInv, PlaylistsNextInv, PTL DEF PlaylistsSpec

\* Once requests are over and nothing broke, no content that is used ages, whatever the
\* interleaving; if they came one at a time, no unused one escapes the clean-up but those of
\* deleted playlists, and no playlist is empty (markContentUsed, refreshContentUnusedSince,
\* create-playlist).
THEOREM BookkeepingIsAlwaysTrue == PlaylistsSpec => []BookkeepingIsTrue
<1> QED BY PlaylistsInvariant, InvKeepsBooks, PTL

(***************************************************************************)
(* The list that a reordering or a replacement leaves.                     *)
(***************************************************************************)

\* The only list of the rows in the order of their places, when these are 1 to n:
\* by the least, and the greatest, position at which another list would differ.
InOrder(s, part) == \A a, b \in DOMAIN s : a < b => part[s[a]].sequence < part[s[b]].sequence

\* A growing function within 1 to n is nowhere below the identity,
LEMMA NoneBefore ==
  ASSUME NEW n \in Nat, NEW f \in [1..n -> 1..n],
         \A a, b \in 1..n : a < b => f[a] < f[b], NEW m \in 1..n
  PROVE  f[m] >= m
<1> DEFINE F == {1..a : a \in {b \in 1..n : f[b] < b}}
<1> SUFFICES ASSUME F # {} PROVE FALSE
  <2>1. f[m] \in 1..n /\ 1..m \notin F
    OBVIOUS
  <2>2. ~ (f[m] < m)
    BY <2>1
  <2> QED BY <2>1, <2>2
<1>1. PICK U \in F : \A V \in F : V \subseteq U => V = U
  <2>1. PICK D : D = 1..n
    OBVIOUS
  <2>2. IsFiniteSet(D)
    BY <2>1, FS_Interval
  <2>3. F \subseteq SUBSET D
    <3> SUFFICES ASSUME NEW a \in 1..n PROVE 1..a \subseteq D
      OBVIOUS
    <3> QED BY <2>1
  <2> HIDE DEF F
  <2> QED BY <2>2, <2>3, SmallestSet
<1>2. PICK a \in 1..n : U = 1..a /\ f[a] < a
  BY <1>1
<1>3. f[a] \in 1..n /\ f[f[a]] < f[a]
  BY <1>2
<1>4. PICK c \in 1..n : c = f[a] /\ f[c] < c /\ c < a
  BY <1>2, <1>3
<1>5. 1..c \in F /\ 1..c \subseteq U
  BY <1>2, <1>4
<1>6. 1..c = 1..a
  <2> HIDE DEF F
  <2> QED BY <1>1, <1>2, <1>5
<1>7. a \in 1..a /\ a \notin 1..c
  BY <1>4
<1> QED BY <1>6, <1>7

\* and nowhere above it.
LEMMA NoneAfter ==
  ASSUME NEW n \in Nat, NEW f \in [1..n -> 1..n],
         \A a, b \in 1..n : a < b => f[a] < f[b], NEW m \in 1..n
  PROVE  f[m] <= m
<1> DEFINE F == {a..n : a \in {b \in 1..n : f[b] > b}}
<1> SUFFICES ASSUME F # {} PROVE FALSE
  <2>1. f[m] \in 1..n /\ m..n \notin F
    OBVIOUS
  <2>2. ~ (f[m] > m)
    BY <2>1
  <2> QED BY <2>1, <2>2
<1>1. PICK U \in F : \A V \in F : V \subseteq U => V = U
  <2>1. PICK D : D = 1..n
    OBVIOUS
  <2>2. IsFiniteSet(D)
    BY <2>1, FS_Interval
  <2>3. F \subseteq SUBSET D
    <3> SUFFICES ASSUME NEW a \in 1..n PROVE a..n \subseteq D
      OBVIOUS
    <3> QED BY <2>1
  <2> HIDE DEF F
  <2> QED BY <2>2, <2>3, SmallestSet
<1>2. PICK a \in 1..n : U = a..n /\ f[a] > a
  BY <1>1
<1>3. f[a] \in 1..n /\ f[f[a]] > f[a]
  BY <1>2
<1>4. PICK c \in 1..n : c = f[a] /\ f[c] > c /\ c > a
  BY <1>2, <1>3
<1>5. c..n \in F /\ c..n \subseteq U
  BY <1>2, <1>4
<1>6. c..n = a..n
  <2> HIDE DEF F
  <2> QED BY <1>1, <1>2, <1>5
<1>7. a \in a..n /\ a \notin c..n
  BY <1>4
<1> QED BY <1>6, <1>7

\* The only list of the rows in the order of their places, when these are 1 to n.
LEMMA ListIs ==
  ASSUME NEW part, NEW n \in Nat, Cardinality(DOMAIN part) = n, NEW w \in [1..n -> DOMAIN part],
         \A a \in 1..n : part[w[a]].sequence = a,
         \A i \in DOMAIN part : part[i].sequence \in 1..n /\ w[part[i].sequence] = i
  PROVE  ListOf(part) = w
<1> DEFINE S == [1..n -> DOMAIN part]
<1>1. w \in S /\ InOrder(w, part)
  BY DEF InOrder
<1>2. ASSUME NEW s \in S, InOrder(s, part) PROVE s = w
  <2> DEFINE f == [a \in 1..n |-> part[s[a]].sequence]
  <2>1. f \in [1..n -> 1..n]
    OBVIOUS
  <2>2. \A a, b \in 1..n : a < b => f[a] < f[b]
    BY <1>2 DEF InOrder
  <2>3. \A a \in 1..n : f[a] = part[s[a]].sequence /\ f[a] \in 1..n
    BY <2>1
  <2> HIDE DEF f
  <2>4. \A a \in 1..n : f[a] >= a /\ f[a] <= a
    BY <2>1, <2>2, NoneBefore, NoneAfter
  <2>5. \A a \in 1..n : f[a] = a
    BY <2>3, <2>4
  <2>6. \A a \in 1..n : s[a] = w[a]
    BY <2>3, <2>5
  <2> QED BY <2>6
<1>3. ListOf(part) = CHOOSE s \in S : InOrder(s, part)
  <2>1. ListOf(part) = CHOOSE s \in S : \A a, b \in DOMAIN s : a < b => part[s[a]].sequence < part[s[b]].sequence
    BY DEF ListOf
  <2> HIDE DEF S
  <2> QED BY <2>1 DEF InOrder
<1> HIDE DEF S
<1> QED BY <1>1, <1>2, <1>3

\* Only its own step moves a request that is to reorder or to replace.
LEMMA ActsIs ==
  ASSUME PlaylistsBase, breaks \in Nat, PlaylistsNext, NEW r \in Requests,
         step[r] \in {"reorder", "replace"}, Acts(r)
  PROVE  IF step[r] = "reorder" THEN ReorderItems(r) ELSE ReplaceItems(r)
<1>0. r \in Processes /\ Cleanup \in Processes /\ r # Cleanup
  BY PlaylistsAssumption DEF Processes
<1>m. \A q \in Processes : BaseStep(q) => q = r
  BY <1>0 DEF BaseStep, Turns, Acts
<1>1. CASE \E q \in Requests : BeginItemStep(q) \/ ItemStep(q) \/ OtherStep(q)
  <2>1. BeginItemStep(r) \/ ItemStep(r) \/ OtherStep(r)
    BY <1>0, <1>1, <1>m, RequestStepIs DEF Processes
  <2>2. ~Break(r)
    BY DEF Break, Acts
  <2>3. ~BeginItemStep(r)
    BY DEF BeginItemStep, BeginAdd, BeginUpdate, BeginDelete, BeginReorder, BeginReplace, BeginCreate, Begin
  <2>4. OtherStep(r) => Break(r)
    BY DEF OtherStep, BeginDeletePlaylist, DeletePlaylist, BeginSetSlot, BeginClearSlot, ReadSlot, WriteSlot,
           RereadSlot, ClearSlot, EditContent, BeginDeleteContent, DeleteContent, Begin
  <2>5. ItemStep(r) => ReorderItems(r) \/ ReplaceItems(r)
    BY DEF ItemStep, InsertItem, Fetch, WriteItem, DeleteItem, CheckList, Relist, UndoCreate
  <2> QED BY <2>1, <2>2, <2>3, <2>4, <2>5 DEF ReorderItems, ReplaceItems
<1>2. CASE \E q \in Processes : ContentStep(q)
  <2>1. ContentStep(r)
    BY <1>2, <1>m, ContentStepIs
  <2> QED BY <2>1 DEF ContentStep, MarkContentUsed, RefreshUsed, RefreshUnused
<1>3. CASE (\E ps \in SUBSET PlaylistIds : BeginCleanup(ps)) \/ Sweep \/ Choose \/ Purge
  BY <1>0, <1>3, <1>m, BeginCleanupStep, SweepStep, ChooseStep, PurgeStep
<1>4. CASE Age
  BY <1>4 DEF Age, Acts
<1>5. CASE Crash
  BY <1>5 DEF Crash, Acts
<1> QED BY <1>1, <1>2, <1>3, <1>4, <1>5, NextCases

\* A list of the rows of a playlist is a sequence.
LEMMA ListLength ==
  ASSUME NEW D, NEW n \in Nat, NEW w \in [1..n -> D]
  PROVE  Len(w) = n
OBVIOUS

\* The size of 1 to n.
LEMMA UpTo == \A n \in Nat : IsFiniteSet(1..n) /\ Cardinality(1..n) = n
<1> SUFFICES ASSUME NEW n \in Nat PROVE IsFiniteSet(1..n) /\ Cardinality(1..n) = n
  OBVIOUS
<1>1. IsFiniteSet(1..n) /\ Cardinality(1..n) = IF 1 > n THEN 0 ELSE n - 1 + 1
  BY FS_Interval
<1> QED BY <1>1

\* A reordering of the items that were listed leaves them in the order asked for.
LEMMA ReorderAsAsked ==
  ASSUME PlaylistsBase, NEW r \in Requests, ReorderItems(r), NEW p, p = task[r].playlist,
         task[r].listed = RowsOf(p)
  PROVE  AsAsked(r, RowsOf(p)')
<1>0. /\ r \in Processes /\ PlaylistsTypeOK /\ step[r] = "reorder" /\ TaskHolds(r) /\ ListHolds(r)
  BY DEF Processes, PlaylistsBase, ReorderItems, TasksHold, ListsHold
<1>1. PICK order, R, D : order = task[r].input /\ R = ReorderedRows(r) /\ D = DOMAIN RowsOf(p)
  OBVIOUS
<1>2. /\ {order[m] : m \in DOMAIN order} = D /\ Len(order) = Cardinality(D) /\ order \in Seq(ItemIds)
      /\ task[r].op = "reorder"
  BY <1>0, <1>1, PlaylistsAssumption DEF ListHolds, TaskHolds
<1>3. PICK n : n = Len(order)
  OBVIOUS
<1>4. n \in Nat /\ DOMAIN order = 1..n /\ order \in [1..n -> D]
  BY <1>2, <1>3
<1>5. \A a, b \in 1..n : order[a] = order[b] => a = b
  <2>1. IsFiniteSet(1..n) /\ Cardinality(1..n) = n
    BY <1>4, FS_Interval
  <2>2. order \in Surjection(1..n, D)
    BY <1>2, <1>4 DEF Surjection
  <2>3. order \in Injection(1..n, D)
    BY <1>2, <1>3, <2>1, <2>2, FS_Surjection
  <2> QED BY <1>4, <2>3 DEF Injection, IsInjective
<1>6. /\ R = [i \in DOMAIN R |-> R[i]] /\ DOMAIN R = D
      /\ \A i \in D : PlaceOf(i, order) \in 1..n /\ order[PlaceOf(i, order)] = i /\ R[i].sequence = PlaceOf(i, order)
  <2>1. /\ DOMAIN R = D /\ R = [i \in DOMAIN R |-> R[i]]
        /\ \A i \in DOMAIN R : \/ PlaceOf(i, order) \in DOMAIN order /\ order[PlaceOf(i, order)] = i
                                  /\ R[i].sequence = PlaceOf(i, order)
                               \/ R[i] = items[i] /\ \A m \in DOMAIN order : order[m] # i
    BY <1>0, <1>1, ReorderedFacts
  <2>2. \A i \in D : \E m \in DOMAIN order : order[m] = i
    BY <1>2
  <2> QED BY <1>4, <2>1, <2>2
<1>7. \A a \in 1..n : order[a] \in D /\ R[order[a]].sequence = a
  BY <1>4, <1>5, <1>6
<1>8. Unique(R)
  <2>1. \A i, j \in D : R[i].sequence = R[j].sequence => i = j
    BY <1>6
  <2> QED BY <1>6, <2>1 DEF Unique
<1>9. SetRows(p, R)
  BY <1>1, <1>8, ReorderedSet
<1>10. RowsOf(p)' = R
  BY <1>0, <1>9, SetRowsEffect
<1>11. ListOf(R) = order
  BY <1>2, <1>3, <1>4, <1>6, <1>7, ListIs
<1>12. AsAsked(r, R)
  BY <1>1, <1>2, <1>11 DEF AsAsked
<1> QED BY <1>1, <1>10, <1>12

\* Where an entry of the list that is asked for comes to be.
ItemOf(list, n) == IF list[n].item = None THEN NewId(list, n) ELSE list[n].item

\* A replacement of the items that were listed leaves exactly one row for every entry
\* of the list, at its place.
LEMMA ReplacedList ==
  ASSUME PlaylistsBase, NEW r \in Requests, step[r] = "replace",
         task[r].listed = RowsOf(task[r].playlist)
  PROVE  LET R == ReplacedRows(r)  list == task[r].input
         IN  /\ DOMAIN R = Kept(list) \cup FreshIds(r) /\ Kept(list) = KeptIds(r)
             /\ \A i \in DOMAIN R : /\ R[i].sequence \in DOMAIN list /\ ItemOf(list, R[i].sequence) = i
                                    /\ R[i].duration = list[R[i].sequence].duration
                                    /\ i \in FreshIds(r) => R[i].content = list[R[i].sequence].content
             /\ \A n \in DOMAIN list : ItemOf(list, n) \in DOMAIN R /\ R[ItemOf(list, n)].sequence = n
             /\ \A n \in DOMAIN list : list[n].item = None => ItemOf(list, n) \in FreshIds(r)
<1>0. /\ r \in Processes /\ PlaylistsTypeOK /\ TaskHolds(r) /\ ListHolds(r) /\ made \in Nat
  BY DEF Processes, PlaylistsBase, TasksHold, ListsHold, PlaylistsTypeOK
<1>1. PICK list, R, old : /\ list = task[r].input /\ R = ReplacedRows(r) /\ old = RowsOf(task[r].playlist)
  OBVIOUS
<1>2. /\ list \in Lists
      /\ DOMAIN R = (DOMAIN old \ Dropped(r)) \cup FreshIds(r)
      /\ \A i \in FreshIds(r) :
           /\ PlaceIn(r, i) \in NewEntries(list) /\ NewId(list, PlaceIn(r, i)) = i
           /\ R[i].content = list[PlaceIn(r, i)].content
           /\ R[i].sequence = PlaceIn(r, i) /\ R[i].duration = list[PlaceIn(r, i)].duration
      /\ \A i \in KeptIds(r) :
           /\ PlaceIn(r, i) \in DOMAIN list /\ list[PlaceIn(r, i)].item = i
           /\ i \notin FreshIds(r)
           /\ R[i].sequence = PlaceIn(r, i) /\ R[i].duration = list[PlaceIn(r, i)].duration
  BY <1>1, ReplacedFacts
<1>3. /\ Kept(list) \subseteq DOMAIN old
      /\ \A m, n \in DOMAIN list : list[m].item = list[n].item /\ list[m].item # None => m = n
      /\ \A i \in DOMAIN old : i \notin DOMAIN task[r].found => items[i] = None
  BY <1>0, <1>1 DEF ListHolds
<1>f. DOMAIN old \subseteq DOMAIN task[r].found
  BY <1>0, <1>1, <1>3, RowsOfFacts
<1>4. KeptIds(r) = Kept(list) /\ DOMAIN old \ Dropped(r) = Kept(list)
  BY <1>1, <1>3, <1>f DEF KeptIds, Dropped
<1>5. DOMAIN R = Kept(list) \cup FreshIds(r)
  BY <1>2, <1>4
<1>6. \A i \in Kept(list) : i # None
  BY DEF Kept
<1>7. \A n \in NewEntries(list) : n \in DOMAIN list /\ list[n].item = None
  BY DEF NewEntries
<1>8. ASSUME NEW i \in DOMAIN R
      PROVE  /\ R[i].sequence \in DOMAIN list /\ ItemOf(list, R[i].sequence) = i
             /\ R[i].duration = list[R[i].sequence].duration
             /\ i \in FreshIds(r) => R[i].content = list[R[i].sequence].content
  <2>1. CASE i \in FreshIds(r)
    BY <1>2, <1>7, <2>1 DEF ItemOf
  <2>2. CASE i \in KeptIds(r)
    BY <1>2, <1>4, <1>6, <2>2 DEF ItemOf
  <2> QED BY <1>4, <1>5, <2>1, <2>2
<1>9. ASSUME NEW n \in DOMAIN list
      PROVE  /\ ItemOf(list, n) \in DOMAIN R /\ R[ItemOf(list, n)].sequence = n
             /\ list[n].item = None => ItemOf(list, n) \in FreshIds(r)
  <2>1. CASE list[n].item = None
    <3>1. n \in NewEntries(list)
      BY <2>1 DEF NewEntries
    <3>2. PICK i : i = NewId(list, n) /\ i \in FreshIds(r)
      BY <1>1, <3>1 DEF FreshIds
    <3>3. PlaceIn(r, i) = n
      BY <1>0, <1>2, <3>1, <3>2, NewIds
    <3> QED BY <1>2, <1>5, <2>1, <3>2, <3>3 DEF ItemOf
  <2>2. CASE list[n].item # None
    <3>1. PICK i : i = list[n].item /\ i \in Kept(list)
      BY <2>2 DEF Kept
    <3>2. PlaceIn(r, i) = n
      BY <1>2, <1>3, <1>4, <2>2, <3>1
    <3> QED BY <1>2, <1>4, <1>5, <2>2, <3>1, <3>2 DEF ItemOf
  <2> QED BY <2>1, <2>2
<1> QED BY <1>1, <1>4, <1>5, <1>8, <1>9

\* A replacement of the items that were listed leaves the list asked for.
LEMMA ReplaceAsAsked ==
  ASSUME PlaylistsBase, NEW r \in Requests, ReplaceItems(r), NEW p, p = task[r].playlist,
         playlist[p] = "there", task[r].listed = RowsOf(p), task[r].found = RowsOf(p),
         \A c \in NewContents(task[r].input) : There(c)
  PROVE  AsAsked(r, RowsOf(p)')
<1>0. /\ r \in Processes /\ PlaylistsTypeOK /\ TaskHolds(r) /\ made \in Nat /\ step[r] = "replace"
  BY DEF Processes, PlaylistsBase, TasksHold, PlaylistsTypeOK, ReplaceItems
<1>1. PICK list, R : list = task[r].input /\ R = ReplacedRows(r)
  OBVIOUS
<1>2. /\ DOMAIN R = Kept(list) \cup FreshIds(r)
      /\ \A i \in DOMAIN R : /\ R[i].sequence \in DOMAIN list /\ ItemOf(list, R[i].sequence) = i
                             /\ R[i].duration = list[R[i].sequence].duration
                             /\ i \in FreshIds(r) => R[i].content = list[R[i].sequence].content
      /\ \A n \in DOMAIN list : ItemOf(list, n) \in DOMAIN R /\ R[ItemOf(list, n)].sequence = n
      /\ \A n \in DOMAIN list : list[n].item = None => ItemOf(list, n) \in FreshIds(r)
  BY <1>0, <1>1, ReplacedList
<1>3. list \in Lists /\ task[r].op \in {"create", "replace"}
  BY <1>0, <1>1 DEF TaskHolds, ListSteps
<1>4. PICK n : /\ n = Len(list) /\ n \in Nat /\ DOMAIN list = 1..n
               /\ IsFiniteSet(1..n) /\ Cardinality(1..n) = n
  <2>1. PICK n : n = Len(list) /\ n \in Nat /\ DOMAIN list = 1..n
    BY <1>3, ListEntries
  <2>2. IsFiniteSet(1..n) /\ Cardinality(1..n) = n
    BY <2>1, UpTo
  <2> QED BY <2>1, <2>2
<1>5. PICK w : w = [a \in 1..n |-> ItemOf(list, a)]
  OBVIOUS
<1>6. /\ w \in [1..n -> DOMAIN R] /\ \A a \in 1..n : w[a] = ItemOf(list, a) /\ R[w[a]].sequence = a
      /\ \A i \in DOMAIN R : R[i].sequence \in 1..n /\ w[R[i].sequence] = i
  BY <1>2, <1>4, <1>5
<1>7. Cardinality(DOMAIN R) = n
  <2>1. w \in Bijection(1..n, DOMAIN R)
    BY <1>6 DEF Bijection, Injection, IsInjective, Surjection
  <2>2. ExistsBijection(1..n, DOMAIN R)
    BY <2>1 DEF ExistsBijection
  <2> QED BY <1>4, <2>2, FS_Bijection
<1>8. Unique(R)
  BY <1>6 DEF Unique
<1>9. SetRows(p, R)
  BY <1>1, <1>8, ReplacedSet
<1>10. RowsOf(p)' = R
  BY <1>0, <1>9, SetRowsEffect
<1>11. ListOf(R) = w
  BY <1>4, <1>6, <1>7, ListIs
<1>12. Len(w) = n
  BY <1>4, <1>6, ListLength
<1>13. AsAsked(r, R)
  <2>1. ASSUME NEW a \in 1..n
        PROVE  /\ R[w[a]].duration = list[a].duration
               /\ list[a].item # None => w[a] = list[a].item
               /\ list[a].item = None => R[w[a]].content = list[a].content
    <3>1. w[a] \in DOMAIN R /\ R[w[a]].sequence = a /\ w[a] = ItemOf(list, a)
      BY <1>6
    <3>2. list[a].item = None => w[a] \in FreshIds(r)
      BY <1>2, <1>4, <3>1
    <3> QED BY <1>2, <3>1, <3>2 DEF ItemOf
  <2> QED BY <1>1, <1>3, <1>4, <1>11, <1>12, <2>1 DEF AsAsked
<1> QED BY <1>1, <1>10, <1>13

\* When the items are still those that were listed, a reordering or a replacement leaves the
\* items asked for, in that order (reorderItems, replaceItemsAtomic).
THEOREM ListIsAlwaysAsAsked == PlaylistsSpec => ListIsAsAsked
<1>1. ASSUME PlaylistsInv, PlaylistsNext, NEW r \in Requests, NEW p \in PlaylistIds,
             step[r] \in {"reorder", "replace"} /\ Acts(r),
             task[r].playlist = p /\ playlist[p] = "there",
             task[r].listed = RowsOf(p) /\ task[r].found = RowsOf(p),
             step[r] = "replace" => \A c \in NewContents(task[r].input) : There(c)
      PROVE  AsAsked(r, RowsOf(p)')
  <2>1. PlaylistsBase /\ breaks \in Nat
    BY <1>1 DEF PlaylistsInv
  <2>2. CASE step[r] = "reorder"
    <3>1. ReorderItems(r)
      BY <1>1, <2>1, <2>2, ActsIs
    <3> QED BY <1>1, <2>1, <3>1, ReorderAsAsked
  <2>3. CASE step[r] = "replace"
    <3>1. ReplaceItems(r)
      BY <1>1, <2>1, <2>3, ActsIs
    <3> QED BY <1>1, <2>1, <2>3, <3>1, ReplaceAsAsked
  <2> QED BY <1>1, <2>2, <2>3
<1>2. PlaylistsInv /\ [PlaylistsNext]_playlistsVars =>
        [\A r \in Requests, p \in PlaylistIds :
           (/\ step[r] \in {"reorder", "replace"} /\ Acts(r)
            /\ task[r].playlist = p /\ playlist[p] = "there"
            /\ task[r].listed = RowsOf(p) /\ task[r].found = RowsOf(p)
            /\ step[r] = "replace" => \A c \in NewContents(task[r].input) : There(c))
           => AsAsked(r, RowsOf(p)')]_playlistsVars
  BY <1>1
<1> QED BY <1>2, PlaylistsInvariant, PTL DEF ListIsAsAsked, PlaylistsSpec

(***************************************************************************)
(* The limits on a playlist.                                               *)
(***************************************************************************)

\* A step keeps playlist p from running empty and from becoming too long.
Sound(p) ==
  /\ DOMAIN RowsOf(p) # {} => ~Empty(p)'
  /\ ~Overfull(p) => ~Overfull(p)'

\* A step that leaves the playlist as it is is sound,
LEMMA SoundSame ==
  ASSUME NEW p, RowsOf(p)' = RowsOf(p)
  PROVE  Sound(p)
BY DEF Sound, Empty, Overfull

\* and so is one that leaves rows, and not too many.
LEMMA SoundRows ==
  ASSUME NEW p, NEW part, RowsOf(p)' = part, DOMAIN RowsOf(p) # {} => DOMAIN part # {},
         Total(RowsOf(p)) <= MaxDuration => Total(part) <= MaxDuration,
         Total(RowsOf(p)) \in Nat, Total(part) \in Nat
  PROVE  Sound(p)
<1>1. MaxDuration \in Nat
  BY PlaylistsAssumption
<1>2. Overfull(p)' <=> Total(part) > MaxDuration
  BY DEF Overfull
<1>3. Overfull(p) <=> Total(RowsOf(p)) > MaxDuration
  BY DEF Overfull
<1>4. Empty(p)' => DOMAIN part = {}
  BY DEF Empty
<1> QED BY <1>1, <1>2, <1>3, <1>4 DEF Sound

\* The durations of a playlist's rows add up.
LEMMA RowsAddUp ==
  ASSUME NEW p, NEW part, IsRows(part, p)
  PROVE  /\ IsFiniteSet(DOMAIN part) /\ Timed(part, DOMAIN part)
         /\ Total(part) = Sum(part, DOMAIN part) /\ Total(part) \in Nat
<1>1. IsFiniteSet(DOMAIN part)
  <2>1. IsFiniteSet(ItemIds)
    BY UpTo, PlaylistsAssumption DEF ItemIds
  <2> QED BY <2>1, FS_Subset DEF IsRows
<1>2. Timed(part, DOMAIN part)
  <2>1. \A i \in DOMAIN part : part[i].duration \in Nat
    BY RowFields DEF IsRows
  <2> QED BY <2>1 DEF Timed
<1>3. Total(part) = Sum(part, DOMAIN part)
  BY DEF Total, Sum
<1>4. Sum(part, DOMAIN part) \in Nat
  <2>1. CASE DOMAIN part = {}
    BY <2>1, SumEmpty
  <2>2. CASE DOMAIN part # {}
    BY <1>1, <1>2, <2>2, SumWithout
  <2> QED BY <2>1, <2>2
<1> QED BY <1>1, <1>2, <1>3, <1>4

\* No playlist runs empty or too long because playlists go.
LEMMA DropSound ==
  ASSUME PlaylistsTypeOK, NEW ps, DropPlaylists(ps), NEW p \in PlaylistIds
  PROVE  Sound(p)
<1>1. CASE p \in ps
  <2>1. playlist'[p] = "gone"
    BY <1>1 DEF DropPlaylists
  <2>2. DOMAIN RowsOf(p)' = {}
    BY <1>1, DropEffect
  <2>3. Total(RowsOf(p)') = 0
    <3>1. PICK part : part = RowsOf(p)'
      OBVIOUS
    <3>2. Total(part) = Sum(part, {})
      BY <2>2, <3>1 DEF Total, Sum
    <3> QED BY <3>1, <3>2, SumEmpty
  <2>4. ~Overfull(p)'
    <3>1. Overfull(p)' <=> Total(RowsOf(p)') > MaxDuration
      BY DEF Overfull
    <3> QED BY <2>3, <3>1, PlaylistsAssumption
  <2> QED BY <2>1, <2>4 DEF Sound, Empty
<1>2. CASE p \notin ps
  BY <1>2, DropEffect, SoundSame
<1> QED BY <1>1, <1>2

\* An addition counted with what there is keeps the maximum.
LEMMA InsertSound ==
  ASSUME PlaylistsBase, NEW r \in Requests, InsertItem(r), CanInsert(r), NEW p, p = task[r].playlist,
         task[r].listed = RowsOf(p)
  PROVE  Sound(p)
<1>0. PlaylistsTypeOK /\ TaskHolds(r) /\ ListHolds(r) /\ step[r] = "insert"
  BY DEF PlaylistsBase, InsertItem, TasksHold, ListsHold, Processes
<1>1. PICK R, id, old, d : R = InsertedRows(r) /\ id = made + 1 /\ old = RowsOf(p) /\ d = task[r].input.duration
  OBVIOUS
<1>2. /\ SetRows(p, R) /\ DOMAIN R = DOMAIN old \cup {id}
      /\ \A i \in DOMAIN old : i # id /\ R[i] = items[i]
      /\ R[id].duration = d
  <2>1. InsertedRow(r).duration = d
    BY <1>1 DEF InsertedRow
  <2>2. /\ SetRows(p, R) /\ DOMAIN R = DOMAIN old \cup {id}
        /\ \A i \in DOMAIN old : i # id /\ R[i] = items[i]
        /\ R[id] = InsertedRow(r)
    BY <1>1, InsertedSet
  <2> QED BY <2>1, <2>2
<1>3. \A i \in DOMAIN old : R[i] = old[i]
  BY <1>0, <1>1, <1>2, RowsOfFacts
<1>4. IsRows(R, p) /\ IsRows(old, p)
  BY <1>0, <1>1, <1>2, RowsOfFacts DEF SetRows
<1>5. /\ IsFiniteSet(DOMAIN R) /\ Timed(R, DOMAIN R) /\ Total(R) = Sum(R, DOMAIN R) /\ Total(R) \in Nat
      /\ IsFiniteSet(DOMAIN old) /\ Timed(old, DOMAIN old) /\ Total(old) = Sum(old, DOMAIN old) /\ Total(old) \in Nat
  BY <1>4, RowsAddUp
<1>6. Sum(R, DOMAIN R) = d + Sum(R, DOMAIN old)
  <2>1. DOMAIN R \ {id} = DOMAIN old /\ id \in DOMAIN R
    BY <1>2
  <2> QED BY <1>2, <1>5, <2>1, SumWithout
<1>7. Sum(R, DOMAIN old) = Sum(old, DOMAIN old)
  BY <1>3, <1>5, SumSame
<1>8. Total(old) + d <= MaxDuration
  BY <1>0, <1>1 DEF ListHolds
<1>9. Total(R) <= MaxDuration
  <2>1. d \in Nat
    BY <1>0, <1>1 DEF TaskHolds
  <2> QED BY <1>5, <1>6, <1>7, <1>8, <2>1
<1>10. RowsOf(p)' = R
  BY <1>0, <1>2, SetRowsEffect
<1> QED BY <1>1, <1>2, <1>5, <1>9, <1>10, SoundRows

\* So does an update that writes the row it found, with a duration summed with the
\* others there are.
LEMMA WriteSound ==
  ASSUME PlaylistsBase, NEW r \in Requests, WriteItem(r), NEW p, p = task[r].playlist, ~ UNCHANGED items,
         task[r].listed = RowsOf(p), task[r].row = items[task[r].input.id]
  PROVE  Sound(p)
<1>0. PlaylistsTypeOK /\ TaskHolds(r) /\ ListHolds(r) /\ step[r] = "write"
  BY DEF PlaylistsBase, WriteItem, TasksHold, ListsHold, Processes
<1>1. PICK R, id, old, d : /\ R = UpdatedRows(r) /\ id = task[r].input.id /\ old = RowsOf(p)
                           /\ d = task[r].input.duration
  OBVIOUS
<1>2. /\ SetRows(p, R) /\ DOMAIN R = DOMAIN old /\ id \in DOMAIN old
      /\ \A i \in DOMAIN R : i # id => R[i] = items[i]
      /\ R[id].duration = IF d = 0 THEN items[id].duration ELSE d
  BY <1>1, UpdatedSet
<1>3. \A i \in DOMAIN old : old[i] = items[i]
  BY <1>0, <1>1, RowsOfFacts
<1>4. IsRows(R, p) /\ IsRows(old, p)
  BY <1>0, <1>1, <1>2, RowsOfFacts DEF SetRows
<1>5. /\ IsFiniteSet(DOMAIN R) /\ Timed(R, DOMAIN R) /\ Total(R) = Sum(R, DOMAIN R) /\ Total(R) \in Nat
      /\ IsFiniteSet(DOMAIN old) /\ Timed(old, DOMAIN old) /\ Total(old) = Sum(old, DOMAIN old) /\ Total(old) \in Nat
  BY <1>4, RowsAddUp
<1>6. CASE d = 0
  <2>1. \A i \in DOMAIN R : R[i].duration = old[i].duration
    BY <1>2, <1>3, <1>6
  <2>2. Sum(R, DOMAIN R) = Sum(old, DOMAIN R)
    BY <1>5, <2>1, SumSame
  <2> QED BY <1>0, <1>1, <1>2, <1>5, <2>2, SetRowsEffect, SoundRows
<1>7. CASE d # 0
  <2>1. PICK E : E = DOMAIN old \ {id}
    OBVIOUS
  <2>2. /\ Sum(R, DOMAIN R) = d + Sum(R, E) /\ Sum(R, E) \in Nat
        /\ Sum(old, DOMAIN old) = old[id].duration + Sum(old, E) /\ Sum(old, E) \in Nat
    <3>1. id \in DOMAIN R /\ DOMAIN R = DOMAIN old /\ R[id].duration = d
      BY <1>2, <1>7
    <3>2. Sum(R, DOMAIN R) = R[id].duration + Sum(R, DOMAIN R \ {id}) /\ Sum(R, DOMAIN R \ {id}) \in Nat
      BY <1>5, <3>1, SumWithout
    <3>3. Sum(old, DOMAIN old) = old[id].duration + Sum(old, DOMAIN old \ {id}) /\ Sum(old, DOMAIN old \ {id}) \in Nat
      BY <1>5, <3>1, SumWithout
    <3> QED BY <2>1, <3>1, <3>2, <3>3
  <2>3. Sum(R, E) = Sum(old, E)
    <3>1. \A i \in E : R[i].duration = old[i].duration
      BY <1>2, <1>3, <2>1
    <3>2. IsFiniteSet(E) /\ Timed(R, E)
      BY <1>2, <1>5, <2>1, FS_RemoveElement DEF Timed
    <3> QED BY <3>1, <3>2, SumSame
  <2>4. Total(old) - old[id].duration + d <= MaxDuration
    BY <1>0, <1>1, <1>7 DEF ListHolds
  <2>5. d \in Nat /\ old[id].duration \in Nat
    BY <1>0, <1>1, <1>2, <1>5 DEF TaskHolds, Timed
  <2>6. Total(R) <= MaxDuration
    BY <1>5, <2>2, <2>3, <2>4, <2>5, PlaylistsAssumption
  <2> QED BY <1>0, <1>1, <1>2, <1>5, <2>6, SetRowsEffect, SoundRows
<1> QED BY <1>6, <1>7

\* A deletion from the list there is leaves an item.
LEMMA DeleteSound ==
  ASSUME PlaylistsBase, NEW r \in Requests, DeleteItem(r), NEW p, p = task[r].playlist, ~ UNCHANGED items,
         task[r].listed = RowsOf(p)
  PROVE  Sound(p)
<1>0. PlaylistsTypeOK /\ TaskHolds(r) /\ ListHolds(r) /\ step[r] = "delete"
  BY DEF PlaylistsBase, DeleteItem, TasksHold, ListsHold, Processes
<1>1. PICK R, id, old : R = DeletedRows(r) /\ id = task[r].input /\ old = RowsOf(p)
  OBVIOUS
<1>2. SetRows(p, R) /\ DOMAIN R = DOMAIN old \ {id} /\ \A i \in DOMAIN R : R[i] = items[i]
  BY <1>1, DeletedSet
<1>3. \A i \in DOMAIN old : old[i] = items[i]
  BY <1>0, <1>1, RowsOfFacts
<1>4. IsRows(R, p) /\ IsRows(old, p)
  BY <1>0, <1>1, <1>2, RowsOfFacts DEF SetRows
<1>5. /\ IsFiniteSet(DOMAIN R) /\ Timed(R, DOMAIN R) /\ Total(R) = Sum(R, DOMAIN R) /\ Total(R) \in Nat
      /\ IsFiniteSet(DOMAIN old) /\ Timed(old, DOMAIN old) /\ Total(old) = Sum(old, DOMAIN old) /\ Total(old) \in Nat
  BY <1>4, RowsAddUp
<1>6. id \in DOMAIN old /\ Cardinality(DOMAIN old) > 1
  BY <1>0, <1>1 DEF ListHolds
<1>7. DOMAIN R # {}
  <2>1. Cardinality(DOMAIN R) = Cardinality(DOMAIN old) - 1
    BY <1>2, <1>5, <1>6, FS_RemoveElement
  <2>2. Cardinality(DOMAIN old) \in Nat
    BY <1>5, FS_CardinalityType
  <2>3. Cardinality(DOMAIN R) # 0
    BY <1>6, <2>1, <2>2
  <2> QED BY <2>3, FS_EmptySet
<1>8. Sum(R, DOMAIN R) = Sum(old, DOMAIN R)
  <2>1. \A i \in DOMAIN R : R[i].duration = old[i].duration
    BY <1>2, <1>3
  <2> QED BY <1>5, <2>1, SumSame
<1>9. Sum(old, DOMAIN old) = old[id].duration + Sum(old, DOMAIN R)
  BY <1>2, <1>5, <1>6, SumWithout
<1>10. old[id].duration \in Nat
  BY <1>5, <1>6 DEF Timed
<1>11. Total(old) <= MaxDuration => Total(R) <= MaxDuration
  BY <1>5, <1>8, <1>9, <1>10, PlaylistsAssumption
<1> QED BY <1>0, <1>1, <1>2, <1>5, <1>7, <1>11, SetRowsEffect, SoundRows

\* A reordering keeps the items and their durations.
LEMMA ReorderSound ==
  ASSUME PlaylistsBase, NEW r \in Requests, ReorderItems(r), NEW p, p = task[r].playlist
  PROVE  Sound(p)
<1>0. PlaylistsTypeOK /\ step[r] = "reorder"
  BY DEF PlaylistsBase, ReorderItems
<1>1. CASE UNCHANGED items
  BY <1>1, SameRows, SoundSame
<1>2. CASE ~ UNCHANGED items
  <2>1. PICK R, old : R = ReorderedRows(r) /\ old = RowsOf(p)
    OBVIOUS
  <2>2. SetRows(p, R) /\ DOMAIN R = DOMAIN old /\ \A i \in DOMAIN R : R[i].duration = items[i].duration
    BY <1>0, <1>2, <2>1, ReorderedSet, ReorderedFacts
  <2>3. \A i \in DOMAIN old : old[i] = items[i]
    BY <1>0, <2>1, RowsOfFacts
  <2>4. IsRows(R, p) /\ IsRows(old, p)
    BY <1>0, <2>1, <2>2, RowsOfFacts DEF SetRows
  <2>5. /\ IsFiniteSet(DOMAIN R) /\ Timed(R, DOMAIN R) /\ Total(R) = Sum(R, DOMAIN R) /\ Total(R) \in Nat
        /\ Total(old) = Sum(old, DOMAIN old) /\ Total(old) \in Nat
    BY <2>4, RowsAddUp
  <2>6. Sum(R, DOMAIN R) = Sum(old, DOMAIN R)
    <3>1. \A i \in DOMAIN R : R[i].duration = old[i].duration
      BY <2>2, <2>3
    <3> QED BY <2>5, <3>1, SumSame
  <2> QED BY <1>0, <2>1, <2>2, <2>5, <2>6, SetRowsEffect, SoundRows
<1> QED BY <1>1, <1>2

\* A replacement of the list there is has the sum of the list asked for.
LEMMA ReplaceSound ==
  ASSUME PlaylistsBase, NEW r \in Requests, ReplaceItems(r), NEW p, p = task[r].playlist,
         task[r].listed = RowsOf(p)
  PROVE  Sound(p)
<1>0. PlaylistsTypeOK /\ step[r] = "replace" /\ ListHolds(r) /\ TaskHolds(r)
  BY DEF PlaylistsBase, ReplaceItems, TasksHold, ListsHold, Processes
<1>1. CASE UNCHANGED items
  BY <1>1, SameRows, SoundSame
<1>2. CASE ~ UNCHANGED items
  <2>1. PICK R, list, old : R = ReplacedRows(r) /\ list = task[r].input /\ old = RowsOf(p)
    OBVIOUS
  <2>2. SetRows(p, R) /\ list \in Lists /\ list # <<>>
    BY <1>0, <1>2, <2>1, ReplacedSet, ReplacedFacts
  <2>3. /\ \A i \in DOMAIN R : /\ R[i].sequence \in DOMAIN list /\ ItemOf(list, R[i].sequence) = i
                               /\ R[i].duration = list[R[i].sequence].duration
        /\ \A n \in DOMAIN list : ItemOf(list, n) \in DOMAIN R /\ R[ItemOf(list, n)].sequence = n
    BY <1>0, <2>1, ReplacedList
  <2>4. IsRows(R, p) /\ IsRows(old, p)
    BY <1>0, <2>1, <2>2, RowsOfFacts DEF SetRows
  <2>5. /\ IsFiniteSet(DOMAIN R) /\ Timed(R, DOMAIN R) /\ Total(R) = Sum(R, DOMAIN R) /\ Total(R) \in Nat
        /\ Total(old) \in Nat
    BY <2>4, RowsAddUp
  <2>6. Sum(R, DOMAIN R) = Sum(list, DOMAIN list)
    <3>1. PICK D, E : D = DOMAIN R /\ E = DOMAIN list
      OBVIOUS
    <3>2. PICK f : f = [i \in D |-> R[i].sequence]
      OBVIOUS
    <3>3. f \in [D -> E]
      BY <2>3, <3>1, <3>2
    <3>4. \A i \in D : R[i].duration = list[f[i]].duration
      BY <2>3, <3>1, <3>2
    <3>5. \A i, j \in D : f[i] = f[j] => i = j
      BY <2>3, <3>1, <3>2
    <3>6. \A x \in E : \E i \in D : f[i] = x
      BY <2>3, <3>1, <3>2
    <3>7. IsFiniteSet(D) /\ Timed(R, D)
      BY <2>5, <3>1
    <3>8. Sum(R, D) = Sum(list, E)
      BY <3>3, <3>4, <3>5, <3>6, <3>7, SumImage
    <3> QED BY <3>1, <3>6, <3>8
  <2>7. Sum(list, DOMAIN list) <= MaxDuration
    <3>1. ListTotal(list) = Sum(list, DOMAIN list)
      BY DEF ListTotal, Sum
    <3>2. ListTotal(list) <= MaxDuration
      BY <1>0, <2>1 DEF ListHolds
    <3> QED BY <3>1, <3>2
  <2>8. DOMAIN R # {}
    <3>1. 1 \in DOMAIN list
      BY <2>2, ListEntries, EmptySeq
    <3> QED BY <2>3, <3>1
  <2>9. Total(R) <= MaxDuration
    BY <2>5, <2>6, <2>7
  <2> QED BY <1>0, <2>1, <2>2, <2>5, <2>8, <2>9, SetRowsEffect, SoundRows
<1> QED BY <1>1, <1>2

\* The steps that change items, or a playlist that had some.
LEMMA ItemsMove ==
  ASSUME PlaylistsNext
  PROVE  \/ UNCHANGED items
         \/ \E r \in Requests : InsertItem(r) \/ WriteItem(r) \/ DeleteItem(r) \/ ReorderItems(r) \/ ReplaceItems(r)
         \/ \E ps : DropPlaylists(ps)
<1>1. ASSUME NEW r \in Requests, BeginItemStep(r) PROVE UNCHANGED items
  BY <1>1 DEF BeginItemStep, BeginAdd, BeginUpdate, BeginDelete, BeginReorder, BeginReplace, BeginCreate, dataVars
<1>2. ASSUME NEW r \in Requests, ItemStep(r)
      PROVE  \/ UNCHANGED items
             \/ InsertItem(r) \/ WriteItem(r) \/ DeleteItem(r) \/ ReorderItems(r) \/ ReplaceItems(r)
             \/ \E ps : DropPlaylists(ps)
  BY <1>2 DEF ItemStep, Fetch, CheckList, Relist, UndoCreate, dataVars
<1>3. ASSUME NEW r \in Requests, OtherStep(r) PROVE UNCHANGED items \/ \E ps : DropPlaylists(ps)
  BY <1>3 DEF OtherStep, BeginDeletePlaylist, DeletePlaylist, BeginSetSlot, BeginClearSlot, ReadSlot, WriteSlot,
              RereadSlot, ClearSlot, EditContent, BeginDeleteContent, DeleteContent, Break, dataVars
<1>4. ASSUME NEW p \in Processes, ContentStep(p) PROVE UNCHANGED items
  BY <1>4 DEF ContentStep, MarkContentUsed, RefreshUsed, RefreshUnused
<1>5. (\E ps \in SUBSET PlaylistIds : BeginCleanup(ps)) \/ Choose \/ Purge \/ Age \/ Crash => UNCHANGED items
  BY DEF BeginCleanup, Choose, Purge, Age, Crash, dataVars
<1>6. Sweep => \E ps : DropPlaylists(ps)
  BY DEF Sweep
<1> QED BY <1>1, <1>2, <1>3, <1>4, <1>5, <1>6, NextCases

\* Those of a request that change items end a step of it.
LEMMA ItemsAct ==
  ASSUME PlaylistsBase, NEW r \in Requests, ~ UNCHANGED items,
         InsertItem(r) \/ WriteItem(r) \/ DeleteItem(r) \/ ReorderItems(r) \/ ReplaceItems(r)
  PROVE  Acts(r)
<1>0. r \in Processes /\ PlaylistsTypeOK /\ TasksHold /\ r # Cleanup
  BY PlaylistsAssumption DEF Processes, PlaylistsBase
<1>1. breaks' = breaks
  BY DEF InsertItem, WriteItem, DeleteItem, ReorderItems, ReplaceItems
<1>2. step[r] \in {"insert", "write", "delete", "reorder", "replace"}
  BY DEF InsertItem, WriteItem, DeleteItem, ReorderItems, ReplaceItems
<1>3. Return(r) \/ \E m, f : ThenMark(r, m, f)
  <2>1. CASE InsertItem(r)
    BY <2>1 DEF InsertItem
  <2>2. CASE DeleteItem(r)
    BY <2>2 DEF DeleteItem
  <2>3. CASE ReplaceItems(r)
    BY <2>3, ReplacedSet
  <2>4. CASE WriteItem(r) \/ ReorderItems(r)
    BY <2>4 DEF WriteItem, ReorderItems
  <2> QED BY <2>1, <2>2, <2>3, <2>4
<1>4. step'[r] \in {"done", "mark", "refresh"}
  <2>1. Return(r) => step'[r] = "done"
    BY <1>0, ReturnTurns DEF FinalStep
  <2>2. ASSUME NEW m, NEW f, ThenMark(r, m, f) PROVE step'[r] \in {"done", "mark", "refresh"}
    BY <1>0, <1>2, <2>2, ThenMarkTurns DEF SettledStep, FinalStep
  <2> QED BY <1>3, <2>1, <2>2
<1>5. step'[r] # step[r]
  BY <1>2, <1>4
<1> QED BY <1>1, <1>5 DEF Acts

\* A step on another playlist's items leaves this one as it is.
LEMMA OthersSound ==
  ASSUME PlaylistsBase, NEW r \in Requests, ~ UNCHANGED items,
         InsertItem(r) \/ WriteItem(r) \/ DeleteItem(r) \/ ReorderItems(r) \/ ReplaceItems(r),
         NEW p \in PlaylistIds, p # task[r].playlist
  PROVE  Sound(p)
<1>0. PlaylistsTypeOK
  BY DEF PlaylistsBase
<1>1. \E part : SetRows(task[r].playlist, part)
  <2>1. CASE InsertItem(r)
    <3>1. CanInsert(r)
      BY <2>1 DEF InsertItem, CanInsert
    <3> QED BY <2>1, <3>1, InsertedSet
  <2>2. CASE WriteItem(r)
    BY <2>2, UpdatedSet
  <2>3. CASE DeleteItem(r)
    BY <2>3, DeletedSet
  <2>4. CASE ReorderItems(r)
    BY <2>4, ReorderedSet
  <2>5. CASE ReplaceItems(r)
    BY <2>5, ReplacedSet
  <2> QED BY <2>1, <2>2, <2>3, <2>4, <2>5
<1>2. PICK q, part : q = task[r].playlist /\ SetRows(q, part)
  BY <1>1
<1>3. RowsOf(p)' = RowsOf(p)
  BY <1>0, <1>2, SetRowsEffect
<1> QED BY <1>3, SoundSame

\* A step that is not sound ends a request that decided by other items.
LEMMA LimitsStep ==
  ASSUME PlaylistsBase, PlaylistsNext, NEW p \in PlaylistIds, ~Sound(p)
  PROVE  \E r \in Requests : Acts(r) /\ task[r].playlist = p /\ Stale(r)
<1>0. PlaylistsTypeOK
  BY DEF PlaylistsBase
<1>1. ~ UNCHANGED items
  BY SameRows, SoundSame
<1>2. \A ps : ~DropPlaylists(ps)
  BY <1>0, DropSound
<1>3. PICK r \in Requests : InsertItem(r) \/ WriteItem(r) \/ DeleteItem(r) \/ ReorderItems(r) \/ ReplaceItems(r)
  BY <1>1, <1>2, ItemsMove
<1>4. task[r].playlist = p
  BY <1>1, <1>3, OthersSound
<1>5. Stale(r)
  <2> SUFFICES ASSUME task[r].listed = RowsOf(p), task[r].op # "update" \/ task[r].row = items[task[r].input.id]
               PROVE  FALSE
    BY <1>4 DEF Stale
  <2>1. CASE InsertItem(r)
    <3>1. CanInsert(r)
      BY <1>1, <2>1 DEF InsertItem, CanInsert
    <3> QED BY <1>4, <2>1, <3>1, InsertSound
  <2>2. CASE WriteItem(r)
    <3>1. task[r].op = "update"
      BY <2>2 DEF WriteItem, PlaylistsBase, TasksHold, TaskHolds, Processes
    <3> QED BY <1>1, <1>4, <2>2, <3>1, WriteSound
  <2>3. CASE DeleteItem(r)
    BY <1>1, <1>4, <2>3, DeleteSound
  <2>4. CASE ReorderItems(r)
    BY <1>4, <2>4, ReorderSound
  <2>5. CASE ReplaceItems(r)
    BY <1>4, <2>5, ReplaceSound
  <2> QED BY <1>3, <2>1, <2>2, <2>3, <2>4, <2>5
<1>6. Acts(r)
  BY <1>1, <1>3, ItemsAct
<1> QED BY <1>4, <1>5, <1>6

\* A playlist loses its last item, or lasts longer than the maximum, only by a request that
\* decided by other items than there are by then (delete-playlist-item, updateItem,
\* replaceItemsAtomic, add-playlist-item).
THEOREM LimitsAlwaysBreakFromStaleList == PlaylistsSpec => LimitsBreakFromStaleList
<1>1. ASSUME PlaylistsInv, PlaylistsNext, NEW p \in PlaylistIds,
             (DOMAIN RowsOf(p) # {} /\ Empty(p)') \/ (~Overfull(p) /\ Overfull(p)')
      PROVE  \E r \in Requests : Acts(r) /\ task[r].playlist = p /\ Stale(r)
  <2>1. ~Sound(p)
    BY <1>1 DEF Sound
  <2> QED BY <1>1, <2>1, LimitsStep DEF PlaylistsInv
<1>2. PlaylistsInv /\ [PlaylistsNext]_playlistsVars =>
        [\A p \in PlaylistIds :
           (DOMAIN RowsOf(p) # {} /\ Empty(p)') \/ (~Overfull(p) /\ Overfull(p)') =>
             \E r \in Requests : Acts(r) /\ task[r].playlist = p /\ Stale(r)]_playlistsVars
  BY <1>1
<1> QED BY <1>2, PlaylistsInvariant, PTL DEF LimitsBreakFromStaleList, PlaylistsSpec

================================================================================
