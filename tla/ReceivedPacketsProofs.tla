------------------------ MODULE ReceivedPacketsProofs ------------------------
(***************************************************************************)
(* Proofs about ReceivedPackets for every number of packets and every      *)
(* tracking limit: the interval list and the map of received packets       *)
(* always agree, every ACK frame is exact, and no packet is handed to the  *)
(* frame handlers twice.  The first part is about the interval list alone: *)
(* adding a packet and deleting below a number keep the intervals sorted   *)
(* and apart, and cover exactly the numbers they should.                   *)
(***************************************************************************)
EXTENDS ReceivedPackets, SetLemmas, SequenceTheorems

\* list.InsertAfter / InsertBefore: one element more, the ones from position i
\* on move back by one.
LEMMA InsertAtProperties ==
    ASSUME NEW S, NEW s \in Seq(S), NEW e \in S, NEW i \in 1..(Len(s) + 1)
    PROVE  /\ InsertAt(s, i, e) \in Seq(S)
           /\ Len(InsertAt(s, i, e)) = Len(s) + 1
           /\ \A j \in 1..(Len(s) + 1) :
                InsertAt(s, i, e)[j] = IF j < i THEN s[j] ELSE IF j = i THEN e ELSE s[j - 1]
<1> DEFINE a == SubSeq(s, 1, i - 1)
           b == SubSeq(s, i, Len(s))
<1>1. a \in Seq(S) /\ Len(a) = i - 1 /\ \A j \in 1..(i - 1) : a[j] = s[j]
    BY SubSeqProperties
<1>2. b \in Seq(S) /\ Len(b) = Len(s) - i + 1 /\ \A j \in 1..(Len(s) - i + 1) : b[j] = s[i + j - 1]
    BY SubSeqProperties
<1> HIDE DEF a, b
<1> DEFINE c == a \o <<e>>
<1>3. c \in Seq(S) /\ Len(c) = i /\ \A j \in 1..i : c[j] = IF j < i THEN s[j] ELSE e
    BY <1>1
<1> HIDE DEF c
<1>4. InsertAt(s, i, e) = c \o b
    BY DEF InsertAt, a, b, c
<1>5. /\ c \o b \in Seq(S)
      /\ Len(c \o b) = Len(s) + 1
      /\ \A j \in 1..(Len(s) + 1) : (c \o b)[j] = IF j <= i THEN c[j] ELSE b[j - i]
    <2>1. Len(s) \in Nat
        BY LenProperties
    <2>2. /\ c \o b \in Seq(S)
          /\ Len(c \o b) = Len(c) + Len(b)
          /\ \A j \in 1..(Len(c) + Len(b)) : (c \o b)[j] = IF j <= Len(c) THEN c[j] ELSE b[j - Len(c)]
        BY <1>2, <1>3, ConcatProperties
    <2>3. Len(c) = i /\ Len(c) + Len(b) = Len(s) + 1
        BY <1>2, <1>3, <2>1
    <2> QED BY <2>2, <2>3
<1>6. ASSUME NEW j \in 1..(Len(s) + 1)
      PROVE  (c \o b)[j] = IF j < i THEN s[j] ELSE IF j = i THEN e ELSE s[j - 1]
    BY <1>2, <1>3, <1>5
<1> QED BY <1>4, <1>5, <1>6

\* list.Remove: one element less, the ones behind position i move forward.
LEMMA RemoveAtProperties ==
    ASSUME NEW S, NEW s \in Seq(S), NEW i \in 1..Len(s)
    PROVE  /\ RemoveAt(s, i) \in Seq(S)
           /\ Len(RemoveAt(s, i)) = Len(s) - 1
           /\ \A j \in 1..(Len(s) - 1) :
                RemoveAt(s, i)[j] = IF j < i THEN s[j] ELSE s[j + 1]
<1> DEFINE a == SubSeq(s, 1, i - 1)
           b == SubSeq(s, i + 1, Len(s))
<1>1. a \in Seq(S) /\ Len(a) = i - 1 /\ \A j \in 1..(i - 1) : a[j] = s[j]
    BY SubSeqProperties
<1>2. b \in Seq(S) /\ Len(b) = Len(s) - i /\ \A j \in 1..(Len(s) - i) : b[j] = s[i + j]
    BY SubSeqProperties
<1> HIDE DEF a, b
<1>3. RemoveAt(s, i) = a \o b
    BY DEF RemoveAt, a, b
<1>4. /\ a \o b \in Seq(S)
      /\ Len(a \o b) = Len(s) - 1
      /\ \A j \in 1..(Len(s) - 1) : (a \o b)[j] = IF j < i THEN a[j] ELSE b[j - i + 1]
    <2>1. Len(s) \in Nat
        BY LenProperties
    <2>2. /\ a \o b \in Seq(S)
          /\ Len(a \o b) = Len(a) + Len(b)
          /\ \A j \in 1..(Len(a) + Len(b)) : (a \o b)[j] = IF j <= Len(a) THEN a[j] ELSE b[j - Len(a)]
        BY <1>1, <1>2, ConcatProperties
    <2>3. Len(a) = i - 1 /\ Len(a) + Len(b) = Len(s) - 1
        BY <1>1, <1>2, <2>1
    <2>4. \A j \in 1..(Len(s) - 1) : (j <= i - 1 <=> j < i) /\ j - (i - 1) = j - i + 1
        BY <2>1
    <2> QED BY <2>2, <2>3, <2>4
<1>5. ASSUME NEW j \in 1..(Len(s) - 1)
      PROVE  (a \o b)[j] = IF j < i THEN s[j] ELSE s[j + 1]
    BY <1>1, <1>2, <1>4
<1> QED BY <1>3, <1>4, <1>5

\* The elements of the list are intervals of packet numbers.
LEMMA ListElements ==
    ASSUME NEW rs \in Seq(Interval)
    PROVE  /\ Len(rs) \in Nat
           /\ DOMAIN rs = 1..Len(rs)
           /\ \A i \in 1..Len(rs) : /\ rs[i] \in Interval
                                     /\ rs[i].Start \in Nat /\ rs[i].End \in Nat
<1>1. /\ Len(rs) \in Nat
      /\ DOMAIN rs = 1..Len(rs)
      /\ \A i \in 1..Len(rs) : rs[i] \in Interval
    BY LenProperties
<1>2. \A r \in Interval : r.Start \in Nat /\ r.End \in Nat
    BY BoundsAssumption DEF Interval, PacketNumbers
<1> QED BY <1>1, <1>2

\* What it means for a packet number to be covered by the list.
LEMMA CoveredMember ==
    ASSUME NEW rs \in Seq(Interval)
    PROVE  \A n : n \in Covered(rs) <=>
                    n \in Int /\ \E i \in 1..Len(rs) : rs[i].Start <= n /\ n <= rs[i].End
BY ListElements DEF Covered

\* The intervals of s are sorted and apart, by index.
Sorted(s) ==
    /\ \A i \in 1..Len(s) : s[i].Start <= s[i].End
    /\ \A i, j \in 1..Len(s) : i < j => s[i].End + 1 < s[j].Start

\* n lies in one of the intervals of s.
Within(s, n) == \E i \in 1..Len(s) : s[i].Start <= n /\ n <= s[i].End

\* s is sorted and has p in addition to the numbers of rs.
AddsOne(rs, p, s) ==
    /\ s \in Seq(Interval)
    /\ Sorted(s)
    /\ \A n \in Int : Within(s, n) <=> n = p \/ Within(rs, n)

\* Separation, and what is added to the covered numbers, in terms of elements.
LEMMA FromElements ==
    ASSUME NEW rs \in Seq(Interval), NEW p \in Nat, NEW s, AddsOne(rs, p, s)
    PROVE  /\ s \in Seq(Interval)
           /\ Separated(s)
           /\ Covered(s) = Covered(rs) \cup {p}
           /\ s # <<>>
<1>1. s \in Seq(Interval) /\ Separated(s)
    BY ListElements DEF Separated, AddsOne, Sorted
<1>2. \A n : n \in Covered(s) <=> n \in Covered(rs) \/ n = p
    <2>1. \A n : n \in Covered(s) <=> n \in Int /\ Within(s, n)
        BY <1>1, CoveredMember DEF Within
    <2>2. \A n : n \in Covered(rs) <=> n \in Int /\ Within(rs, n)
        BY CoveredMember DEF Within
    <2>3. \A n \in Int : Within(s, n) <=> n = p \/ Within(rs, n)
        BY DEF AddsOne
    <2>4. p \in Int
        OBVIOUS
    <2> QED BY <2>1, <2>2, <2>3, <2>4, Zenon
<1>3. PICK i \in 1..Len(s) : s[i].Start <= p /\ p <= s[i].End
    BY DEF AddsOne, Within
<1>4. s # <<>>
    BY <1>3
<1> QED BY <1>1, <1>2, <1>4

\* Extending the element el to e, by p on one side.
LEMMA ExtendOne ==
    ASSUME NEW rs \in Seq(Interval), Sorted(rs), NEW p \in Nat,
           NEW el \in 1..Len(rs), NEW e \in Interval, e.Start <= e.End,
           \A i \in 1..Len(rs) : i < el => rs[i].End + 1 < e.Start,
           \A i \in 1..Len(rs) : i > el => e.End + 1 < rs[i].Start,
           \A n \in Int : e.Start <= n /\ n <= e.End
                            <=> n = p \/ (rs[el].Start <= n /\ n <= rs[el].End)
    PROVE  AddsOne(rs, p, [rs EXCEPT ![el] = e])
<1> DEFINE t == [rs EXCEPT ![el] = e]
<1>1. /\ t \in Seq(Interval) /\ Len(t) = Len(rs) /\ Len(rs) \in Nat
      /\ \A j \in 1..Len(rs) : t[j] = IF j = el THEN e ELSE rs[j]
    BY ExceptSeq, ListElements
<1> HIDE DEF t
<1>2. Sorted(t)
    <2>1. \A i \in 1..Len(t) : t[i].Start <= t[i].End
        BY <1>1 DEF Sorted
    <2>2. ASSUME NEW i \in 1..Len(t), NEW j \in 1..Len(t), i < j
          PROVE  t[i].End + 1 < t[j].Start
        BY <1>1, <2>2 DEF Sorted
    <2> QED BY <2>1, <2>2 DEF Sorted
<1>3. ASSUME NEW n \in Int PROVE Within(t, n) <=> n = p \/ Within(rs, n)
    BY <1>1 DEF Within
<1> QED BY <1>1, <1>2, <1>3 DEF AddsOne, t

\* The element k - 1 absorbs the element k, p filling the gap between them.
LEMMA MergeTwo ==
    ASSUME NEW rs \in Seq(Interval), Sorted(rs), NEW p \in Nat,
           NEW k \in 2..Len(rs), rs[k - 1].End + 1 = p, rs[k].Start = p + 1,
           NEW e \in Interval, e.Start = rs[k - 1].Start, e.End = rs[k].End
    PROVE  AddsOne(rs, p, RemoveAt([rs EXCEPT ![k - 1] = e], k))
<1> DEFINE u == [rs EXCEPT ![k - 1] = e]
           t == RemoveAt(u, k)
<1>1. /\ Len(rs) \in Nat
      /\ \A i \in 1..Len(rs) : rs[i].Start \in Nat /\ rs[i].End \in Nat
    BY ListElements
<1>2. /\ u \in Seq(Interval) /\ Len(u) = Len(rs)
      /\ \A j \in 1..Len(rs) : u[j] = IF j = k - 1 THEN e ELSE rs[j]
    BY <1>1, ExceptSeq
<1> HIDE DEF u
<1>3. /\ t \in Seq(Interval) /\ Len(t) = Len(rs) - 1
      /\ \A j \in 1..(Len(rs) - 1) : t[j] = IF j < k THEN u[j] ELSE u[j + 1]
    BY <1>1, <1>2, RemoveAtProperties
<1> HIDE DEF t
<1>4. \A j \in 1..Len(t) : \/ j < k - 1 /\ j \in 1..Len(rs) /\ t[j] = rs[j]
                           \/ j = k - 1 /\ t[j] = e
                           \/ j >= k /\ j + 1 \in 1..Len(rs) /\ t[j] = rs[j + 1]
    <2> SUFFICES ASSUME NEW j \in 1..Len(t)
                 PROVE  \/ j < k - 1 /\ j \in 1..Len(rs) /\ t[j] = rs[j]
                        \/ j = k - 1 /\ t[j] = e
                        \/ j >= k /\ j + 1 \in 1..Len(rs) /\ t[j] = rs[j + 1]
        OBVIOUS
    <2>1. j \in 1..(Len(rs) - 1) /\ j \in 1..Len(rs) /\ j + 1 \in 1..Len(rs)
        BY <1>1, <1>3
    <2>2. CASE j < k - 1
        <3>1. t[j] = u[j] /\ u[j] = rs[j]
            BY <1>2, <1>3, <2>1, <2>2
        <3> QED BY <2>1, <2>2, <3>1
    <2>3. CASE j = k - 1
        <3>1. t[j] = u[j] /\ u[j] = e
            BY <1>2, <1>3, <2>1, <2>3
        <3> QED BY <2>3, <3>1
    <2>4. CASE j >= k
        <3>1. t[j] = u[j + 1] /\ u[j + 1] = rs[j + 1]
            BY <1>2, <1>3, <2>1, <2>4
        <3> QED BY <2>1, <2>4, <3>1
    <2> QED BY <2>1, <2>2, <2>3, <2>4
<1>5. k - 1 \in 1..Len(rs) /\ k \in 1..Len(rs)
    BY <1>1
<1>6. /\ rs[k - 1].Start <= rs[k - 1].End /\ rs[k].Start <= rs[k].End
      /\ e.Start \in Nat /\ e.End \in Nat /\ e.Start <= p /\ p <= e.End
    <2>1. /\ rs[k - 1].Start <= rs[k - 1].End /\ rs[k].Start <= rs[k].End
          /\ rs[k - 1].Start \in Nat /\ rs[k - 1].End \in Nat
          /\ rs[k].Start \in Nat /\ rs[k].End \in Nat
        BY <1>1, <1>5 DEF Sorted
    <2> QED BY <2>1
<1>7. \A n \in Int : e.Start <= n /\ n <= e.End <=>
        \/ n = p
        \/ rs[k - 1].Start <= n /\ n <= rs[k - 1].End
        \/ rs[k].Start <= n /\ n <= rs[k].End
    <2> DEFINE a == rs[k - 1].Start
               b == rs[k - 1].End
               c == rs[k].Start
               d == rs[k].End
    <2>1. a \in Nat /\ b \in Nat /\ c \in Nat /\ d \in Nat
        BY <1>1, <1>5
    <2>2. a <= b /\ c <= d /\ e.Start = a /\ e.End = d /\ b = p - 1 /\ c = p + 1
        BY <1>6, <2>1
    <2> HIDE DEF a, b, c, d
    <2>3. \A n \in Int : a <= n /\ n <= d <=> n = p \/ (a <= n /\ n <= b) \/ (c <= n /\ n <= d)
        BY <2>1, <2>2
    <2> QED BY <2>2, <2>3 DEF a, b, c, d
<1>8. Sorted(t)
    <2>1. ASSUME NEW i \in 1..Len(t) PROVE t[i].Start <= t[i].End
        <3>1. CASE i = k - 1
            BY <1>4, <1>6, <3>1
        <3>2. CASE i # k - 1
            BY <1>1, <1>4, <3>2 DEF Sorted
        <3> QED BY <3>1, <3>2
    <2>2. ASSUME NEW i \in 1..Len(t), NEW j \in 1..Len(t), i < j
          PROVE  t[i].End + 1 < t[j].Start
        <3>1. CASE j < k - 1
            <4>1. i \in 1..Len(rs) /\ j \in 1..Len(rs) /\ t[i] = rs[i] /\ t[j] = rs[j]
                BY <1>1, <1>4, <2>2, <3>1
            <4> QED BY <2>2, <4>1 DEF Sorted
        <3>2. CASE j = k - 1
            <4>1. i \in 1..Len(rs) /\ t[i] = rs[i] /\ t[j] = e
                BY <1>1, <1>4, <2>2, <3>2
            <4>2. rs[i].End + 1 < rs[k - 1].Start
                BY <1>5, <2>2, <3>2, <4>1 DEF Sorted
            <4> QED BY <4>1, <4>2
        <3>3. CASE j >= k /\ i < k - 1
            <4>1. i \in 1..Len(rs) /\ j + 1 \in 1..Len(rs) /\ t[i] = rs[i] /\ t[j] = rs[j + 1] /\ i < j + 1
                BY <1>1, <1>4, <2>2, <3>3
            <4> QED BY <4>1 DEF Sorted
        <3>4. CASE j >= k /\ i = k - 1
            <4>1. t[i] = e /\ j + 1 \in 1..Len(rs) /\ t[j] = rs[j + 1] /\ k < j + 1
                BY <1>1, <1>4, <1>5, <3>4
            <4>2. rs[k].End + 1 < rs[j + 1].Start
                BY <1>5, <4>1 DEF Sorted
            <4> QED BY <4>1, <4>2
        <3>5. CASE i >= k
            <4>1. /\ t[i] = rs[i + 1] /\ t[j] = rs[j + 1]
                  /\ i + 1 \in 1..Len(rs) /\ j + 1 \in 1..Len(rs) /\ i + 1 < j + 1
                BY <1>1, <1>4, <1>5, <2>2, <3>5
            <4> QED BY <4>1 DEF Sorted
        <3>6. i \in Int /\ j \in Int /\ k \in Int
            BY <1>1, <1>3
        <3> QED BY <2>2, <3>1, <3>2, <3>3, <3>4, <3>5, <3>6
    <2> QED BY <2>1, <2>2 DEF Sorted
<1>9. ASSUME NEW n \in Int PROVE Within(t, n) <=> n = p \/ Within(rs, n)
    <2>1. ASSUME NEW i \in 1..Len(t), t[i].Start <= n, n <= t[i].End PROVE n = p \/ Within(rs, n)
        <3>1. CASE i = k - 1
            <4>1. e.Start <= n /\ n <= e.End
                BY <1>4, <2>1, <3>1
            <4> QED BY <1>5, <1>7, <4>1 DEF Within
        <3>2. CASE i # k - 1
            BY <1>4, <2>1, <3>2 DEF Within
        <3> QED BY <3>1, <3>2
    <2>2. k - 1 \in 1..Len(t) /\ t[k - 1] = e
        BY <1>1, <1>3, <1>2
    <2>3. n = p => Within(t, n)
        BY <1>6, <2>2 DEF Within
    <2>4. ASSUME NEW i \in 1..Len(rs), rs[i].Start <= n, n <= rs[i].End PROVE Within(t, n)
        <3>1. CASE i < k - 1
            <4>1. i \in 1..Len(t) /\ t[i] = rs[i]
                BY <1>1, <1>2, <1>3, <3>1
            <4> QED BY <2>4, <4>1 DEF Within
        <3>2. CASE i = k - 1 \/ i = k
            <4>1. e.Start <= n /\ n <= e.End
                BY <1>7, <2>4, <3>2
            <4> QED BY <2>2, <4>1 DEF Within
        <3>3. CASE i > k
            <4>1. i - 1 \in 1..Len(t) /\ t[i - 1] = rs[i]
                BY <1>1, <1>2, <1>3, <3>3
            <4> QED BY <2>4, <4>1 DEF Within
        <3> QED BY <1>1, <3>1, <3>2, <3>3
    <2> QED BY <2>1, <2>3, <2>4 DEF Within
<1> QED BY <1>3, <1>8, <1>9 DEF AddsOne, t, u

\* A new element for p alone at position k.
LEMMA InsertOne ==
    ASSUME NEW rs \in Seq(Interval), Sorted(rs), NEW p \in Nat,
           NEW k \in 1..(Len(rs) + 1), NEW e \in Interval, e.Start = p, e.End = p,
           \A i \in 1..Len(rs) : i < k => rs[i].End + 1 < p,
           \A i \in 1..Len(rs) : i >= k => p + 1 < rs[i].Start
    PROVE  AddsOne(rs, p, InsertAt(rs, k, e))
<1> DEFINE t == InsertAt(rs, k, e)
<1>1. /\ Len(rs) \in Nat
      /\ \A i \in 1..Len(rs) : rs[i].Start \in Nat /\ rs[i].End \in Nat
    BY ListElements
<1>2. /\ t \in Seq(Interval) /\ Len(t) = Len(rs) + 1
      /\ \A j \in 1..(Len(rs) + 1) : t[j] = IF j < k THEN rs[j] ELSE IF j = k THEN e ELSE rs[j - 1]
    BY InsertAtProperties
<1> HIDE DEF t
<1>3. \A j \in 1..Len(t) : \/ j < k /\ j \in 1..Len(rs) /\ t[j] = rs[j]
                           \/ j = k /\ t[j] = e
                           \/ j > k /\ j - 1 \in 1..Len(rs) /\ t[j] = rs[j - 1]
    BY <1>1, <1>2
<1>4. Sorted(t)
    <2>1. ASSUME NEW i \in 1..Len(t) PROVE t[i].Start <= t[i].End
        <3>1. CASE t[i] = e
            BY <3>1
        <3>2. CASE i \in 1..Len(rs) /\ t[i] = rs[i]
            BY <3>2 DEF Sorted
        <3>3. CASE i - 1 \in 1..Len(rs) /\ t[i] = rs[i - 1]
            BY <3>3 DEF Sorted
        <3> QED BY <1>3, <3>1, <3>2, <3>3
    <2>2. ASSUME NEW i \in 1..Len(t), NEW j \in 1..Len(t), i < j
          PROVE  t[i].End + 1 < t[j].Start
        <3>1. CASE j <= k
            BY <1>1, <1>3, <2>2, <3>1 DEF Sorted
        <3>2. CASE j > k /\ i < k
            <4>1. /\ i \in 1..Len(rs) /\ j - 1 \in 1..Len(rs) /\ i < j - 1
                  /\ t[i] = rs[i] /\ t[j] = rs[j - 1]
                BY <1>1, <1>3, <3>2
            <4> QED BY <4>1 DEF Sorted
        <3>3. CASE j > k /\ i = k
            BY <1>1, <1>3, <3>3
        <3>4. CASE i > k
            <4>1. /\ i - 1 \in 1..Len(rs) /\ j - 1 \in 1..Len(rs) /\ i - 1 < j - 1
                  /\ t[i] = rs[i - 1] /\ t[j] = rs[j - 1]
                BY <1>1, <1>3, <2>2, <3>4
            <4> QED BY <4>1 DEF Sorted
        <3> QED BY <1>1, <3>1, <3>2, <3>3, <3>4
    <2> QED BY <2>1, <2>2 DEF Sorted
<1>5. ASSUME NEW n \in Int PROVE Within(t, n) <=> n = p \/ Within(rs, n)
    <2>1. Within(t, n) => n = p \/ Within(rs, n)
        BY <1>1, <1>3 DEF Within
    <2>2. n = p => Within(t, n)
        <3>1. k \in 1..Len(t) /\ t[k] = e
            BY <1>1, <1>2
        <3> QED BY <3>1 DEF Within
    <2>3. ASSUME NEW i \in 1..Len(rs), rs[i].Start <= n, n <= rs[i].End PROVE Within(t, n)
        <3>1. CASE i < k
            <4>1. i \in 1..Len(t) /\ t[i] = rs[i]
                BY <1>1, <1>2, <3>1
            <4> QED BY <2>3, <4>1 DEF Within
        <3>2. CASE i >= k
            <4>1. i + 1 \in 1..Len(t) /\ t[i + 1] = rs[i]
                BY <1>1, <1>2, <3>2
            <4> QED BY <2>3, <4>1 DEF Within
        <3> QED BY <1>1, <3>1, <3>2
    <2> QED BY <2>1, <2>2, <2>3 DEF Within
<1> QED BY <1>2, <1>4, <1>5 DEF AddsOne, t

\* The element the loop of receivedPacketHistory.ReceivedPacket stops at, and
\* what is known of the elements it passed.
LEMMA StopElement ==
    ASSUME NEW rs \in Seq(Interval), NEW p \in PacketNumbers
    PROVE  LET el == StopIndex(rs, p)
           IN  \/ el = 0 /\ \A i \in 1..Len(rs) : ~StopsAt(rs[i], p)
               \/ /\ el \in 1..Len(rs)
                  /\ StopsAt(rs[el], p)
                  /\ \A i \in 1..Len(rs) : i > el => ~StopsAt(rs[i], p)
<1> DEFINE I == {i \in 1..Len(rs) : StopsAt(rs[i], p)}
<1>1. Len(rs) \in Nat
    BY LenProperties
<1>2. I \in SUBSET (1..Len(rs))
    OBVIOUS
<1>3. StopIndex(rs, p) = IF I # {} THEN Max(I) ELSE 0
    BY DEF StopIndex
<1>4. CASE I = {}
    BY <1>3, <1>4
<1>5. CASE I # {}
    <2>1. Max(I) \in I /\ \A y \in I : Max(I) >= y
        <3> HIDE DEF I
        <3> QED BY <1>1, <1>2, <1>5, MaxIsGreatest
    <2>2. /\ Max(I) \in 1..Len(rs)
          /\ StopsAt(rs[Max(I)], p)
          /\ \A i \in 1..Len(rs) : i > Max(I) => ~StopsAt(rs[i], p)
        <3>1. \A i \in 1..Len(rs) : StopsAt(rs[i], p) => i \in I
            OBVIOUS
        <3>2. Max(I) \in 1..Len(rs) /\ StopsAt(rs[Max(I)], p)
            BY <2>1
        <3> HIDE DEF I
        <3> QED BY <1>1, <2>1, <3>1, <3>2
    <2>3. StopIndex(rs, p) = Max(I)
        BY <1>3, <1>5
    <2> QED BY <2>2, <2>3
<1> QED BY <1>4, <1>5

\* receivedPacketHistory.ReceivedPacket keeps the list sorted and separated
\* and adds exactly p, for a p that IsDuplicate let through.
LEMMA AddToRangesCorrect ==
    ASSUME NEW rs \in Seq(Interval), Separated(rs), NEW p \in PacketNumbers, p \notin Covered(rs)
    PROVE  /\ AddToRanges(rs, p) \in Seq(Interval)
           /\ Separated(AddToRanges(rs, p))
           /\ Covered(AddToRanges(rs, p)) = Covered(rs) \cup {p}
           /\ AddToRanges(rs, p) # <<>>
<1> DEFINE el == StopIndex(rs, p)
           single == [Start |-> p, End |-> p]
           t == AddToRanges(rs, p)
<1> SUFFICES AddsOne(rs, p, t)
    <2>1. p \in Nat
        BY BoundsAssumption DEF PacketNumbers
    <2> QED BY <2>1, FromElements
<1>1. Len(rs) \in Nat /\ DOMAIN rs = 1..Len(rs) /\ single \in Interval /\ p \in Int
    BY LenProperties, BoundsAssumption DEF Interval, PacketNumbers
<1>2. \A i \in 1..Len(rs) : /\ rs[i] \in Interval
                            /\ rs[i].Start \in Int /\ rs[i].End \in Int
                            /\ rs[i].Start <= rs[i].End
                            /\ p < rs[i].Start \/ p > rs[i].End
    <2>1. \A i \in 1..Len(rs) : /\ rs[i] \in Interval
                                /\ rs[i].Start \in Int /\ rs[i].End \in Int
        BY ListElements
    <2>2. \A i \in 1..Len(rs) : rs[i].Start <= rs[i].End
        BY <1>1 DEF Separated
    <2>3. \A i \in 1..Len(rs) : ~(rs[i].Start <= p /\ p <= rs[i].End)
        BY <1>1, CoveredMember
    <2> QED BY <1>1, <2>1, <2>2, <2>3
<1>3. \A i, j \in 1..Len(rs) : i < j => rs[i].End + 1 < rs[j].Start
    BY <1>1 DEF Separated
<1>4. \/ el = 0 /\ \A i \in 1..Len(rs) : ~StopsAt(rs[i], p)
      \/ /\ el \in 1..Len(rs)
         /\ StopsAt(rs[el], p)
         /\ \A i \in 1..Len(rs) : i > el => ~StopsAt(rs[i], p)
    BY StopElement
<1>10. ASSUME el # 0, ~(p >= rs[el].Start /\ p <= rs[el].End),
              rs[el].End = p - 1 \/ rs[el].Start = p + 1,
              ~(el > 1 /\ Touch(rs[el - 1], Extend(rs[el], p)))
       PROVE  t = [rs EXCEPT ![el] = Extend(rs[el], p)]
    BY <1>10, Zenon DEF AddToRanges
<1>5. CASE el = 0
    <2>1. t = <<single>> \o rs
        BY <1>5 DEF AddToRanges
    <2>2. /\ t \in Seq(Interval) /\ Len(t) = Len(rs) + 1
          /\ \A j \in 1..(Len(rs) + 1) : t[j] = IF j = 1 THEN single ELSE rs[j - 1]
        <3> HIDE DEF single
        <3>1. <<single>> \in Seq(Interval) /\ Len(<<single>>) = 1 /\ <<single>>[1] = single
            BY <1>1
        <3> QED BY <1>1, <2>1, <3>1, ConcatProperties
    <2>6. \A j \in 1..Len(t) : \/ j = 1 /\ t[j] = single
                               \/ j > 1 /\ j - 1 \in 1..Len(rs) /\ t[j] = rs[j - 1]
        <3> HIDE DEF t, single
        <3> SUFFICES ASSUME NEW j \in 1..Len(t)
                     PROVE  \/ j = 1 /\ t[j] = single
                            \/ j > 1 /\ j - 1 \in 1..Len(rs) /\ t[j] = rs[j - 1]
            OBVIOUS
        <3>1. j \in 1..(Len(rs) + 1) /\ t[j] = IF j = 1 THEN single ELSE rs[j - 1]
            BY <2>2
        <3> QED BY <1>1, <3>1
    <2>3. ASSUME NEW i \in 1..Len(rs) PROVE p + 1 < rs[i].Start
        <3>1. ~StopsAt(rs[i], p)
            BY <1>4, <1>5
        <3>2. rs[i].Start \in Int /\ rs[i].End \in Int /\ rs[i].Start <= rs[i].End
            BY <1>2
        <3> HIDE DEF single, t, el
        <3> QED BY <1>1, <1>2, <3>1, <3>2 DEF StopsAt
    <2> HIDE DEF t
    <2>4. Sorted(t)
        <3>1. ASSUME NEW i \in 1..Len(t) PROVE t[i].Start <= t[i].End
            <4>1. CASE t[i] = single
                BY <1>1, <4>1
            <4>2. CASE i - 1 \in 1..Len(rs) /\ t[i] = rs[i - 1]
                BY <1>2, <4>2
            <4> QED BY <2>6, <4>1, <4>2
        <3>2. ASSUME NEW i \in 1..Len(t), NEW j \in 1..Len(t), i < j
              PROVE  t[i].End + 1 < t[j].Start
            <4>1. CASE i = 1
                BY <1>1, <2>2, <2>3, <3>2, <4>1
            <4>2. CASE i > 1
                <5>1. /\ i - 1 \in 1..Len(rs) /\ t[i] = rs[i - 1]
                      /\ j - 1 \in 1..Len(rs) /\ t[j] = rs[j - 1]
                    BY <2>2, <2>6, <3>2, <4>2
                <5>2. i - 1 < j - 1
                    BY <1>1, <2>2, <3>2
                <5> QED BY <1>3, <5>1, <5>2
            <4> QED BY <1>1, <2>2, <4>1, <4>2
        <3> QED BY <3>1, <3>2 DEF Sorted
    <2>5. ASSUME NEW n \in Int PROVE Within(t, n) <=> n = p \/ Within(rs, n)
        <3>1. Within(t, n) => n = p \/ Within(rs, n)
            <4> SUFFICES ASSUME NEW i \in 1..Len(t), t[i].Start <= n, n <= t[i].End
                         PROVE  n = p \/ Within(rs, n)
                BY DEF Within
            <4>1. CASE t[i] = single
                BY <1>1, <4>1
            <4>2. CASE i - 1 \in 1..Len(rs) /\ t[i] = rs[i - 1]
                BY <4>2 DEF Within
            <4> QED BY <2>6, <4>1, <4>2
        <3>2. n = p => Within(t, n)
            BY <1>1, <2>2 DEF Within
        <3>3. ASSUME NEW i \in 1..Len(rs), rs[i].Start <= n, n <= rs[i].End PROVE Within(t, n)
            <4>1. i + 1 \in 1..Len(t) /\ t[i + 1] = rs[i]
                BY <1>1, <2>2
            <4> QED BY <3>3, <4>1 DEF Within
        <3> QED BY <3>1, <3>2, <3>3 DEF Within
    <2> QED BY <2>2, <2>4, <2>5 DEF AddsOne
<1>6. p \in Nat /\ Sorted(rs)
    BY <1>2, <1>3, BoundsAssumption DEF PacketNumbers, Sorted
<1>7. CASE el \in 1..Len(rs) /\ rs[el].End = p - 1
    <2> DEFINE e == [Start |-> rs[el].Start, End |-> p]
    <2> HIDE DEF el
    <2>1. e \in Interval /\ e.Start = rs[el].Start /\ e.End = p
        BY <1>1, <1>2, <1>7 DEF Interval
    <2>2. \A i \in 1..Len(rs) : i < el => rs[i].End + 1 < rs[el].Start
        BY <1>3, <1>7
    <2>3. \A i \in 1..Len(rs) : i > el => p + 1 < rs[i].Start
        BY <1>1, <1>2, <1>4, <1>7 DEF StopsAt
    <2>4. t = [rs EXCEPT ![el] = e]
        <3>1. ~(p >= rs[el].Start /\ p <= rs[el].End)
            BY <1>1, <1>2, <1>7
        <3>2. ~(el > 1 /\ Touch(rs[el - 1], e))
            <4>1. el > 1 => el - 1 \in 1..Len(rs) /\ el - 1 < el
                BY <1>1, <1>7
            <4> QED BY <1>1, <1>2, <2>1, <2>2, <4>1 DEF Touch
        <3>3. Extend(rs[el], p) = e
            BY <1>7 DEF Extend
        <3> HIDE DEF e
        <3>4. el # 0
            BY <1>1, <1>7
        <3> HIDE DEF t
        <3> QED BY <1>7, <1>10, <3>1, <3>2, <3>3, <3>4, Zenon
    <2> HIDE DEF e, t
    <2>5. \A n \in Int : e.Start <= n /\ n <= e.End
                            <=> n = p \/ (rs[el].Start <= n /\ n <= rs[el].End)
        BY <1>1, <1>2, <1>7, <2>1
    <2>6. e.Start <= e.End
        BY <1>1, <1>2, <1>7, <2>1
    <2> QED BY <1>6, <1>7, <2>1, <2>2, <2>3, <2>4, <2>5, <2>6, ExtendOne
<1>8. CASE el \in 1..Len(rs) /\ rs[el].Start = p + 1
    <2> DEFINE e == [Start |-> p, End |-> rs[el].End]
    <2> HIDE DEF el
    <2>1. e \in Interval /\ e.Start = p /\ e.End = rs[el].End
        BY <1>1, <1>2, <1>8 DEF Interval
    <2>2. /\ ~(p >= rs[el].Start /\ p <= rs[el].End)
          /\ rs[el].End # p - 1
        BY <1>1, <1>2, <1>8
    <2>9. Extend(rs[el], p) = e
        BY <2>2 DEF Extend
    <2>3. CASE el > 1 /\ Touch(rs[el - 1], e)
        <3> HIDE DEF e
        <3> DEFINE m == [Start |-> rs[el - 1].Start, End |-> e.End]
        <3>1. el \in 2..Len(rs) /\ el - 1 \in 1..Len(rs) /\ rs[el - 1].End + 1 = p
            BY <1>1, <1>8, <2>1, <2>3 DEF Touch
        <3>2. m \in Interval /\ m.Start = rs[el - 1].Start /\ m.End = rs[el].End
            BY <1>2, <1>8, <2>1, <3>1 DEF Interval
        <3>3. t = RemoveAt([rs EXCEPT ![el - 1] = m], el)
            BY <1>1, <1>8, <2>2, <2>3, <2>9, <3>1 DEF AddToRanges, el
        <3> HIDE DEF m, t
        <3> QED BY <1>6, <1>8, <3>1, <3>2, <3>3, MergeTwo
    <2>4. CASE ~(el > 1 /\ Touch(rs[el - 1], e))
        <3>1. t = [rs EXCEPT ![el] = e]
            <4>1. el # 0
                BY <1>1, <1>8
            <4> HIDE DEF e, t
            <4> QED BY <1>8, <1>10, <2>2, <2>4, <2>9, <4>1, Zenon
        <3>2. ASSUME NEW i \in 1..Len(rs), i < el PROVE rs[i].End + 1 < p
            <4>1. rs[i].End + 1 < rs[el].Start /\ el - 1 \in 1..Len(rs) /\ el > 1
                BY <1>1, <1>3, <1>8, <3>2
            <4>2. CASE i = el - 1
                BY <1>1, <1>2, <1>8, <2>1, <2>4, <4>1, <4>2 DEF Touch
            <4>3. CASE i < el - 1
                <5>1. rs[i].End + 1 < rs[el - 1].Start /\ rs[el - 1].End + 1 < rs[el].Start
                    BY <1>1, <1>3, <1>8, <4>1, <4>3
                <5>2. /\ rs[el - 1].Start \in Int /\ rs[el - 1].End \in Int /\ rs[el].Start = p + 1
                      /\ rs[el - 1].Start <= rs[el - 1].End /\ rs[i].End \in Int
                    BY <1>2, <1>8, <4>1
                <5> QED BY <1>1, <5>1, <5>2
            <4> QED BY <1>1, <1>8, <3>2, <4>2, <4>3
        <3>3. \A i \in 1..Len(rs) : i > el => rs[el].End + 1 < rs[i].Start
            BY <1>3, <1>8
        <3> HIDE DEF e, t
        <3>4. \A n \in Int : e.Start <= n /\ n <= e.End
                                <=> n = p \/ (rs[el].Start <= n /\ n <= rs[el].End)
            BY <1>1, <1>2, <1>8, <2>1
        <3>5. e.Start <= e.End
            BY <1>1, <1>2, <1>8, <2>1
        <3> QED BY <1>6, <1>8, <2>1, <3>1, <3>2, <3>3, <3>4, <3>5, ExtendOne
    <2> QED BY <2>3, <2>4
<1>9. CASE el \in 1..Len(rs) /\ rs[el].End # p - 1 /\ rs[el].Start # p + 1
    <2> HIDE DEF el
    <2>1. p > rs[el].End + 1 /\ ~(p >= rs[el].Start /\ p <= rs[el].End)
        BY <1>1, <1>2, <1>4, <1>9 DEF StopsAt
    <2>2. t = InsertAt(rs, el + 1, single)
        BY <1>1, <1>9, <2>1 DEF AddToRanges, el
    <2>3. ASSUME NEW i \in 1..Len(rs), i < el + 1 PROVE rs[i].End + 1 < p
        <3>1. CASE i = el
            BY <1>2, <1>9, <2>1, <3>1
        <3>2. CASE i < el
            BY <1>1, <1>2, <1>3, <1>9, <2>1, <3>2
        <3> QED BY <1>1, <1>9, <2>3, <3>1, <3>2
    <2>4. \A i \in 1..Len(rs) : i >= el + 1 => p + 1 < rs[i].Start
        BY <1>1, <1>2, <1>4, <1>9 DEF StopsAt
    <2>5. el + 1 \in 1..(Len(rs) + 1) /\ single.Start = p /\ single.End = p
        BY <1>1, <1>9
    <2> HIDE DEF single, t
    <2> QED BY <1>1, <1>6, <2>2, <2>3, <2>4, <2>5, InsertOne
<1> QED BY <1>4, <1>5, <1>7, <1>8, <1>9

\* DeleteBelow keeps the list sorted and drops exactly the numbers below
\* leastUnacked; a packet at or above it keeps the list from becoming empty.
LEMMA DropBelowCorrect ==
    ASSUME NEW rs \in Seq(Interval), Separated(rs), NEW l \in PacketNumbers,
           NEW q \in Covered(rs), l <= q
    PROVE  /\ DropBelow(rs, l) \in Seq(Interval)
           /\ Separated(DropBelow(rs, l))
           /\ Covered(DropBelow(rs, l)) = {n \in Covered(rs) : ~(n < l)}
<1> DEFINE I == {i \in 1..Len(rs) : ~(rs[i].End < l)}
           first == Min(I)
           m == Len(rs) - first + 1
           t == DropBelow(rs, l)
<1>1. /\ Len(rs) \in Nat /\ DOMAIN rs = 1..Len(rs) /\ l \in Nat
      /\ \A i \in 1..Len(rs) : rs[i] \in Interval /\ rs[i].Start \in Nat /\ rs[i].End \in Nat
    BY ListElements, BoundsAssumption DEF PacketNumbers
<1>2. /\ \A i \in 1..Len(rs) : rs[i].Start <= rs[i].End
      /\ \A i, j \in 1..Len(rs) : i < j => rs[i].End + 1 < rs[j].Start
    BY <1>1 DEF Separated
<1>3. I # {}
    <2>1. PICK i \in 1..Len(rs) : rs[i].Start <= q /\ q <= rs[i].End /\ q \in Int
        BY CoveredMember
    <2>2. i \in I
        BY <1>1, <2>1
    <2> QED BY <2>2
<1>4. first \in I /\ \A i \in I : first <= i
    <2>1. I \in SUBSET Nat
        OBVIOUS
    <2> HIDE DEF I
    <2> QED BY <1>3, <2>1, MinIsLeast
<1>5. first \in 1..Len(rs) /\ rs[first].End >= l
    BY <1>1, <1>4
<1>6. \A i \in 1..Len(rs) : i < first => rs[i].End < l
    <2> TAKE i \in 1..Len(rs)
    <2>1. ~(rs[i].End < l) => i \in I
        OBVIOUS
    <2> HIDE DEF I
    <2> QED BY <1>4, <1>5, <2>1
<1>8. t = [i \in 1..m |-> IF i = 1 /\ l > rs[first].Start
                           THEN [Start |-> l, End |-> rs[first].End]
                           ELSE rs[first + i - 1]]
    BY <1>3, Zenon DEF DropBelow
<1> HIDE DEF I, first
<1>9. m \in Nat /\ m >= 1 /\ \A i \in 1..m : first + i - 1 \in 1..Len(rs)
    BY <1>1, <1>5
<1>10. [Start |-> l, End |-> rs[first].End] \in Interval
    BY <1>1, <1>5 DEF Interval
<1> HIDE DEF m
<1>11. t \in Seq(Interval) /\ Len(t) = m
    <2>1. t \in [1..m -> Interval]
        BY <1>1, <1>8, <1>9, <1>10
    <2> HIDE DEF t
    <2> QED BY <1>9, <2>1, SeqDef
<1>12. \A i \in 1..m : /\ t[i].End = rs[first + i - 1].End
                        /\ t[i].Start = IF i = 1 /\ l > rs[first].Start THEN l ELSE rs[first + i - 1].Start
    BY <1>5, <1>8, <1>9
<1> HIDE DEF t
<1>13. \A i \in 1..m : i # 1 => first < first + i - 1
    BY <1>5, <1>9
<1>14. Separated(t)
    <2>1. ASSUME NEW i \in 1..m PROVE t[i].Start <= t[i].End
        <3>1. CASE i = 1
            <4>1. first + i - 1 = first
                BY <1>5, <3>1
            <4> QED BY <1>1, <1>2, <1>5, <1>12, <4>1
        <3>2. CASE i # 1
            BY <1>1, <1>2, <1>9, <1>12, <3>2
        <3> QED BY <3>1, <3>2
    <2>2. ASSUME NEW i \in 1..m, NEW j \in 1..m, i < j PROVE t[i].End + 1 < t[j].Start
        <3>1. first + i - 1 < first + j - 1 /\ j # 1
            BY <1>5, <1>9, <2>2
        <3>2. rs[first + i - 1].End + 1 < rs[first + j - 1].Start
            BY <1>2, <1>9, <3>1
        <3> QED BY <1>12, <3>1, <3>2
    <2>3. DOMAIN t = 1..m
        BY <1>11, ListElements
    <2> QED BY <2>1, <2>2, <2>3 DEF Separated
<1>15. ASSUME NEW n \in Int
       PROVE  n \in Covered(t) <=> n \in Covered(rs) /\ ~(n < l)
    <2>1. ASSUME NEW i \in 1..m, t[i].Start <= n, n <= t[i].End
          PROVE  n \in Covered(rs) /\ ~(n < l)
        <3>1. rs[first + i - 1].Start <= n /\ n <= rs[first + i - 1].End
            <4>1. /\ t[i].End = rs[first + i - 1].End
                  /\ t[i].Start = IF i = 1 /\ l > rs[first].Start THEN l ELSE rs[first + i - 1].Start
                BY <1>12
            <4>2. CASE i = 1 /\ l > rs[first].Start
                <5>1. first + i - 1 = first /\ rs[first].Start \in Nat /\ l \in Nat
                    BY <1>1, <1>5, <4>2
                <5>2. t[i].Start = l /\ rs[first].Start <= l
                    BY <4>1, <4>2, <5>1
                <5>3. rs[first].Start <= n
                    BY <2>1, <5>1, <5>2
                <5> QED BY <2>1, <4>1, <5>1, <5>3
            <4>3. CASE ~(i = 1 /\ l > rs[first].Start)
                BY <2>1, <4>1, <4>3
            <4> QED BY <4>2, <4>3
        <3>2. n \in Covered(rs)
            BY <1>9, <3>1, CoveredMember
        <3>3. ~(n < l)
            <4>1. CASE i = 1
                BY <1>1, <1>5, <1>9, <1>12, <2>1, <4>1
            <4>2. CASE i # 1
                <5>1. rs[first].End + 1 < rs[first + i - 1].Start
                    BY <1>2, <1>5, <1>9, <1>13, <4>2
                <5> QED BY <1>1, <1>5, <1>9, <3>1, <5>1
            <4> QED BY <4>1, <4>2
        <3> QED BY <3>2, <3>3
    <2>2. ASSUME NEW j \in 1..Len(rs), rs[j].Start <= n, n <= rs[j].End, ~(n < l)
          PROVE  \E i \in 1..m : t[i].Start <= n /\ n <= t[i].End
        <3>1. j >= first
            BY <1>1, <1>5, <1>6, <2>2
        <3> DEFINE i == j - first + 1
        <3>2. i \in 1..m /\ first + i - 1 = j
            BY <1>1, <1>5, <3>1 DEF m
        <3>3. t[i].Start <= n /\ n <= t[i].End
            BY <1>1, <1>12, <2>2, <3>2
        <3> QED BY <3>2, <3>3
    <2>3. n \in Covered(t) <=> \E i \in 1..m : t[i].Start <= n /\ n <= t[i].End
        BY <1>11, CoveredMember
    <2>4. n \in Covered(rs) <=> \E j \in 1..Len(rs) : rs[j].Start <= n /\ n <= rs[j].End
        BY CoveredMember
    <2> QED BY <2>1, <2>2, <2>3, <2>4
<1>16. Covered(t) \subseteq Int /\ Covered(rs) \subseteq Int
    BY <1>11, CoveredMember
<1> QED BY <1>11, <1>14, <1>15, <1>16 DEF t

\* The end of the last interval is the largest covered number.
LEMMA LastEnd ==
    ASSUME NEW rs \in Seq(Interval), Separated(rs),
           NEW m \in Covered(rs), \A n \in Covered(rs) : n <= m
    PROVE  rs # <<>> /\ Len(rs) \in Nat \ {0} /\ rs[Len(rs)].End = m
<1>1. /\ Len(rs) \in Nat /\ DOMAIN rs = 1..Len(rs)
      /\ \A i \in 1..Len(rs) : rs[i].Start \in Nat /\ rs[i].End \in Nat
    BY ListElements
<1>2. PICK i \in 1..Len(rs) : rs[i].Start <= m /\ m <= rs[i].End /\ m \in Int
    BY CoveredMember
<1>3. Len(rs) \in 1..Len(rs)
    BY <1>1, <1>2
<1>4. rs[Len(rs)].End \in Covered(rs)
    <2>1. rs[Len(rs)].Start <= rs[Len(rs)].End
        BY <1>1, <1>3 DEF Separated
    <2>2. rs[Len(rs)].End \in Int /\ rs[Len(rs)].End <= rs[Len(rs)].End
        BY <1>1, <1>3
    <2>3. \E j \in 1..Len(rs) : rs[j].Start <= rs[Len(rs)].End /\ rs[Len(rs)].End <= rs[j].End
        BY <1>3, <2>1, <2>2, Zenon
    <2> QED BY <2>2, <2>3, CoveredMember, Zenon
<1>5. CASE i = Len(rs)
    BY <1>1, <1>2, <1>3, <1>4, <1>5
<1>6. CASE i # Len(rs)
    <2>1. i < Len(rs)
        <3>1. Len(rs) \in Nat
            BY <1>1
        <3> QED BY <1>6, <3>1
    <2>2. rs[i].End + 1 < rs[Len(rs)].Start /\ rs[Len(rs)].Start <= rs[Len(rs)].End
        BY <1>1, <1>3, <2>1 DEF Separated
    <2>3. rs[Len(rs)].End <= m
        BY <1>4
    <2> QED BY <1>1, <1>2, <1>3, <2>2, <2>3
<1> QED BY <1>1, <1>2, <1>3, <1>5, <1>6

-----------------------------------------------------------------------------
(* The handler *)

\* The frame GetAckFrame builds is exact.
LEMMA BuildAckFrameExact ==
    ASSUME IInv, receivedPacketNumbers # {}
    PROVE  /\ ranges # <<>>
           /\ largestObserved = ranges[Len(ranges)].End
           /\ BuildAckFrame \in AckFrame
           /\ Acks(BuildAckFrame) = receivedPacketNumbers
           /\ BuildAckFrame.LargestAcked = largestObserved
<1> DEFINE f == BuildAckFrame
           rev == [i \in 1..Len(ranges) |-> ranges[Len(ranges) + 1 - i]]
<1>1. /\ ranges \in Seq(Interval) /\ Separated(ranges) /\ Covered(ranges) = receivedPacketNumbers
      /\ largestObserved \in PacketNumbers
    BY DEF IInv, TypeOK, RangesMatchReceived
<1>2. largestObserved \in Covered(ranges) /\ \A n \in Covered(ranges) : n <= largestObserved
    BY <1>1 DEF IInv
<1>3. ranges # <<>> /\ Len(ranges) \in Nat \ {0} /\ ranges[Len(ranges)].End = largestObserved
    BY <1>1, <1>2, LastEnd
<1>4. /\ DOMAIN ranges = 1..Len(ranges)
      /\ \A i \in 1..Len(ranges) : /\ ranges[i] \in Interval
                                    /\ ranges[i].Start \in Nat /\ ranges[i].End \in Nat
    BY <1>1, ListElements
<1>5. ranges[1].Start \in PacketNumbers
    BY <1>3, <1>4 DEF Interval
<1>6. rev \in Seq(Interval) /\ Len(rev) = Len(ranges)
    <2>1. rev \in [1..Len(ranges) -> Interval]
        BY <1>3, <1>4
    <2> HIDE DEF rev
    <2> QED BY <1>3, <2>1, SeqDef
<1>7. \A i \in 1..Len(ranges) : /\ rev[i] = ranges[Len(ranges) + 1 - i]
                                /\ Len(ranges) + 1 - i \in 1..Len(ranges)
                                /\ rev[Len(ranges) + 1 - i] = ranges[i]
    BY <1>3
<1>8. f = [LargestAcked |-> largestObserved, LowestAcked |-> ranges[1].Start,
           AckRanges |-> IF Len(ranges) > 1 THEN rev ELSE <<>>]
    BY DEF BuildAckFrame, HasMissingRanges
<1>9. f \in AckFrame
    BY <1>1, <1>5, <1>6, <1>8 DEF AckFrame
<1>10. Acks(f) = receivedPacketNumbers
    <2>1. CASE Len(ranges) > 1
        <3> HIDE DEF rev
        <3>1. f.AckRanges = rev /\ Len(f.AckRanges) > 0
            BY <1>6, <1>8, <2>1
        <3>2. Acks(f) = Covered(rev)
            BY <3>1 DEF Acks
        <3>3. \A n : n \in Covered(rev) <=> n \in Covered(ranges)
            <4> TAKE n
            <4>1. ASSUME NEW i \in 1..Len(ranges), rev[i].Start <= n, n <= rev[i].End, n \in Int
                  PROVE  n \in Covered(ranges)
                BY <1>1, <1>7, <4>1, CoveredMember
            <4>2. ASSUME NEW i \in 1..Len(ranges), ranges[i].Start <= n, n <= ranges[i].End, n \in Int
                  PROVE  n \in Covered(rev)
                BY <1>6, <1>7, <4>2, CoveredMember
            <4> QED BY <1>1, <1>6, <4>1, <4>2, CoveredMember
        <3> QED BY <1>1, <3>2, <3>3
    <2>2. CASE Len(ranges) = 1
        <3>1. Acks(f) = ranges[1].Start .. ranges[1].End
            <4>1. Len(f.AckRanges) = 0 /\ f.LowestAcked = ranges[1].Start /\ f.LargestAcked = ranges[1].End
                BY <1>3, <1>8, <2>2
            <4> QED BY <4>1 DEF Acks
        <3>2. Covered(ranges) = ranges[1].Start .. ranges[1].End
            <4>1. DOMAIN ranges = {1}
                BY <1>4, <2>2
            <4> QED BY <4>1, Zenon DEF Covered
        <3> QED BY <1>1, <3>1, <3>2
    <2>3. Len(ranges) > 1 \/ Len(ranges) = 1
        <3> DEFINE n == Len(ranges)
        <3>1. n \in Nat \ {0}
            BY <1>3
        <3> HIDE DEF n
        <3>2. n > 1 \/ n = 1
            BY <3>1
        <3> QED BY <3>2 DEF n
    <2> QED BY <2>1, <2>2, <2>3, Zenon
<1> QED BY <1>3, <1>8, <1>9, <1>10

\* An ACK frame acknowledges numbers.
LEMMA AcksAreNumbers ==
    ASSUME NEW f \in AckFrame
    PROVE  \A q \in Acks(f) : q \in Int
<1>1. f.AckRanges \in Seq(Interval) /\ f.LowestAcked \in Int /\ f.LargestAcked \in Int
    BY BoundsAssumption DEF AckFrame, PacketNumbers
<1>2. \A q \in Covered(f.AckRanges) : q \in Int
    BY <1>1, CoveredMember
<1> QED BY <1>1, <1>2 DEF Acks

LEMMA InitInvariant == Init => IInv
<1> SUFFICES ASSUME Init PROVE IInv
    OBVIOUS
<1>1. TypeOK
    <2>1. <<>> \in Seq(Interval)
        BY EmptySeq
    <2> QED BY <2>1, BoundsAssumption, SMTT(30) DEF Init, TypeOK, PacketNumbers
<1>2. RangesMatchReceived
    BY DEF Init, RangesMatchReceived, Separated, Covered
<1> QED BY <1>1, <1>2 DEF Init, IInv

\* ReceivedPacket, when it registers the packet.
LEMMA AcceptedPreserves ==
    ASSUME IInv, NEW p \in PacketNumbers, ReceivedPacketAccepted(p)
    PROVE  IInv'
<1>1. /\ p \in Nat /\ p # 0 /\ p > ignorePacketsBelow /\ p \notin receivedPacketNumbers
      /\ largestObserved \in Nat /\ ignorePacketsBelow \in Nat /\ receivedPacketNumbers \subseteq Nat
    BY BoundsAssumption DEF ReceivedPacketAccepted, IsDuplicate, IInv, TypeOK, PacketNumbers
<1>2. /\ ranges' \in Seq(Interval) /\ Separated(ranges')
      /\ Covered(ranges') = receivedPacketNumbers'
    <2>1. ranges \in Seq(Interval) /\ Separated(ranges) /\ Covered(ranges) = receivedPacketNumbers
        BY DEF IInv, TypeOK, RangesMatchReceived
    <2>2. ranges' = AddToRanges(ranges, p) /\ receivedPacketNumbers' = receivedPacketNumbers \cup {p}
        BY DEF ReceivedPacketAccepted
    <2> QED BY <1>1, <2>1, <2>2, AddToRangesCorrect
<1>3. accepted' = [accepted EXCEPT ![p] = accepted[p] + 1] /\ accepted[p] = 0
    BY <1>1 DEF ReceivedPacketAccepted, IInv, TypeOK
<1>4. TypeOK'
    <2>1. accepted' \in [PacketNumbers -> Nat]
        BY <1>3 DEF IInv, TypeOK
    <2>2. Largest(p) \in PacketNumbers
        BY DEF Largest, IInv, TypeOK
    <2> QED BY <1>2, <2>1, <2>2 DEF ReceivedPacketAccepted, IInv, TypeOK
<1>5. RangesMatchReceived'
    BY <1>2 DEF RangesMatchReceived
<1>6. /\ \A n \in receivedPacketNumbers' : n <= largestObserved'
      /\ largestObserved' \in receivedPacketNumbers'
      /\ receivedPacketNumbers' # {}
    BY <1>1 DEF ReceivedPacketAccepted, Largest, IInv
<1>7. processing' \in receivedPacketNumbers' /\ currentAckFrame' = NoFrame
    BY DEF ReceivedPacketAccepted
<1>8. sentAck' # NoFrame =>
          /\ sentAck'.LargestAcked <= largestObserved'
          /\ \A q \in Acks(sentAck') : q \in receivedPacketNumbers' \/ q <= ignorePacketsBelow'
    <2> SUFFICES ASSUME sentAck # NoFrame
                 PROVE  /\ sentAck.LargestAcked <= largestObserved'
                        /\ \A q \in Acks(sentAck) : q \in receivedPacketNumbers' \/ q <= ignorePacketsBelow'
        BY DEF ReceivedPacketAccepted
    <2>1. sentAck \in AckFrame
        BY DEF IInv, TypeOK
    <2>2. sentAck.LargestAcked \in Nat
        BY <2>1, BoundsAssumption DEF AckFrame, PacketNumbers
    <2> QED BY <1>1, <2>2 DEF ReceivedPacketAccepted, Largest, IInv
<1>9. \A q \in PacketNumbers :
          /\ accepted'[q] <= 1
          /\ accepted'[q] > 0 => q \in receivedPacketNumbers' \/ q <= ignorePacketsBelow'
    BY <1>3 DEF ReceivedPacketAccepted, IInv, TypeOK
<1> QED BY <1>4, <1>5, <1>6, <1>7, <1>8, <1>9 DEF IInv, Acks

\* ReceivedStopWaiting: the packet being processed is at or above the new bound.
LEMMA StopWaitingPreserves ==
    ASSUME IInv, NEW l \in PacketNumbers, ReceivedStopWaiting(l)
    PROVE  IInv'
<1>1. /\ l \in Nat /\ l > ignorePacketsBelow /\ l <= processing /\ processing # 0
      /\ largestObserved \in Nat /\ ignorePacketsBelow \in Nat /\ receivedPacketNumbers \subseteq Nat
      /\ processing \in Nat
    BY BoundsAssumption
    DEF ReceivedStopWaiting, StopWaitingUnneeded, IInv, TypeOK, PacketNumbers
<1>2. processing \in receivedPacketNumbers /\ currentAckFrame = NoFrame
    BY <1>1 DEF IInv
<1>3. ranges \in Seq(Interval) /\ Separated(ranges) /\ Covered(ranges) = receivedPacketNumbers
    BY DEF IInv, TypeOK, RangesMatchReceived
<1>4. receivedPacketNumbers' = {n \in receivedPacketNumbers : ~(n < l)}
    BY <1>3 DEF ReceivedStopWaiting, Forgotten
<1>5. /\ ranges' \in Seq(Interval) /\ Separated(ranges')
      /\ Covered(ranges') = receivedPacketNumbers'
    <2>1. ranges' = DropBelow(ranges, l)
        BY DEF ReceivedStopWaiting
    <2> QED BY <1>1, <1>2, <1>3, <1>4, <2>1, DropBelowCorrect
<1>6. ignorePacketsBelow' = l - 1 /\ ignorePacketsBelow' \in PacketNumbers
    BY <1>1, BoundsAssumption DEF ReceivedStopWaiting, PacketNumbers
<1>7. TypeOK'
    BY <1>4, <1>5, <1>6 DEF ReceivedStopWaiting, IInv, TypeOK
<1>8. RangesMatchReceived'
    BY <1>5 DEF RangesMatchReceived
<1>9. processing' \in receivedPacketNumbers' /\ currentAckFrame' = NoFrame
    BY <1>1, <1>2, <1>4 DEF ReceivedStopWaiting
<1>10. /\ \A n \in receivedPacketNumbers' : n <= largestObserved'
       /\ receivedPacketNumbers' # {}
       /\ largestObserved' \in receivedPacketNumbers'
    <2>1. largestObserved \in receivedPacketNumbers /\ processing <= largestObserved
        BY <1>2 DEF IInv
    <2>2. largestObserved' = largestObserved
        BY DEF ReceivedStopWaiting
    <2> QED BY <1>1, <1>4, <2>1, <2>2 DEF IInv
<1>11. sentAck' # NoFrame =>
          /\ sentAck'.LargestAcked <= largestObserved'
          /\ \A q \in Acks(sentAck') : q \in receivedPacketNumbers' \/ q <= ignorePacketsBelow'
    <2> SUFFICES ASSUME sentAck # NoFrame
                 PROVE  /\ sentAck.LargestAcked <= largestObserved
                        /\ \A q \in Acks(sentAck) : q \in receivedPacketNumbers' \/ q <= ignorePacketsBelow'
        BY DEF ReceivedStopWaiting
    <2>1. sentAck \in AckFrame
        BY DEF IInv, TypeOK
    <2>2. \A q \in Acks(sentAck) : q \in Int
        BY <2>1, AcksAreNumbers
    <2> QED BY <1>1, <1>4, <1>6, <2>2 DEF IInv
<1>12. \A q \in PacketNumbers :
          /\ accepted'[q] <= 1
          /\ accepted'[q] > 0 => q \in receivedPacketNumbers' \/ q <= ignorePacketsBelow'
    <2> SUFFICES ASSUME NEW q \in PacketNumbers
                 PROVE  /\ accepted[q] <= 1
                        /\ accepted[q] > 0 => q \in receivedPacketNumbers' \/ q <= ignorePacketsBelow'
        BY DEF ReceivedStopWaiting
    <2>1. q \in Nat
        BY BoundsAssumption DEF PacketNumbers
    <2> QED BY <1>1, <1>4, <1>6, <2>1 DEF IInv
<1> QED BY <1>7, <1>8, <1>9, <1>10, <1>11, <1>12 DEF IInv

\* GetAckFrame: the frame returned is exact, so what it acknowledges is in the history.
LEMMA GetAckFramePreserves ==
    ASSUME IInv, NEW dequeue \in BOOLEAN, GetAckFrame(dequeue)
    PROVE  IInv'
<1> DEFINE f == IF currentAckFrame # NoFrame THEN currentAckFrame ELSE BuildAckFrame
<1>1. receivedPacketNumbers # {} /\ stateChanged
    BY DEF GetAckFrame, IInv
<1>2. /\ f \in AckFrame \cup {NoFrame} /\ Acks(f) = receivedPacketNumbers
      /\ f.LargestAcked = largestObserved
    <2>1. CASE currentAckFrame # NoFrame
        BY <1>1, <2>1 DEF IInv, TypeOK
    <2>2. CASE currentAckFrame = NoFrame
        BY <1>1, <2>2, BuildAckFrameExact
    <2> QED BY <2>1, <2>2
<1>3. /\ currentAckFrame' = f
      /\ sentAck' = IF dequeue THEN f ELSE sentAck
      /\ stateChanged' = ~dequeue
      /\ processing' = 0
      /\ UNCHANGED <<largestObserved, ignorePacketsBelow, ranges, receivedPacketNumbers,
                     lowestInReceivedPacketNumbers, closed, accepted>>
    BY DEF GetAckFrame
<1> HIDE DEF f
<1>4. TypeOK'
    <2>1. 0 \in PacketNumbers
        BY BoundsAssumption DEF PacketNumbers
    <2>2. sentAck' \in AckFrame \cup {NoFrame}
        BY <1>2, <1>3 DEF IInv, TypeOK
    <2> QED BY <1>2, <1>3, <2>1, <2>2 DEF IInv, TypeOK
<1>5. RangesMatchReceived'
    BY <1>3 DEF IInv, RangesMatchReceived
<1>6. stateChanged' /\ currentAckFrame' # NoFrame =>
          /\ Acks(currentAckFrame') = receivedPacketNumbers'
          /\ currentAckFrame'.LargestAcked = largestObserved'
    BY <1>2, <1>3
<1>7. sentAck' # NoFrame =>
          /\ sentAck'.LargestAcked <= largestObserved'
          /\ \A q \in Acks(sentAck') : q \in receivedPacketNumbers' \/ q <= ignorePacketsBelow'
    <2>1. CASE dequeue
        <3>1. largestObserved \in Nat
            BY BoundsAssumption DEF IInv, TypeOK, PacketNumbers
        <3>2. sentAck' = f
            BY <1>3, <2>1
        <3> QED BY <1>2, <1>3, <3>1, <3>2
    <2>2. CASE ~dequeue
        <3>1. sentAck' = sentAck
            BY <1>3, <2>2
        <3> QED BY <1>3, <3>1 DEF IInv
    <2> QED BY <2>1, <2>2
<1>8. stateChanged' => receivedPacketNumbers' # {}
    BY <1>1, <1>3
<1> QED BY <1>3, <1>4, <1>5, <1>6, <1>7, <1>8 DEF IInv

LEMMA NextInvariant == IInv /\ [Next]_vars => IInv'
<1> SUFFICES ASSUME IInv, [Next]_vars PROVE IInv'
    OBVIOUS
<1>0. 0 \in PacketNumbers
    BY BoundsAssumption DEF PacketNumbers
<1>1. ASSUME NEW p \in PacketNumbers, ReceivedPacketFails(p) PROVE IInv'
    BY <1>0, <1>1 DEF ReceivedPacketFails, IInv, TypeOK, RangesMatchReceived
<1>2. ASSUME NEW p \in PacketNumbers, ReceivedPacketIgnored(p) PROVE IInv'
    BY <1>0, <1>2 DEF ReceivedPacketIgnored, IInv, TypeOK, RangesMatchReceived
<1>3. ASSUME NEW p \in PacketNumbers, ReceivedPacketAccepted(p) PROVE IInv'
    BY <1>3, AcceptedPreserves
<1>4. ASSUME NEW p \in PacketNumbers, ReceivedStopWaiting(p) PROVE IInv'
    BY <1>4, StopWaitingPreserves
<1>5. ASSUME NEW dequeue \in BOOLEAN, GetAckFrame(dequeue) PROVE IInv'
    BY <1>5, GetAckFramePreserves
<1>6. CASE UNCHANGED vars
    BY <1>6 DEF vars, IInv, TypeOK, RangesMatchReceived
<1> QED BY <1>1, <1>2, <1>3, <1>4, <1>5, <1>6 DEF Next

\* The inductive invariant of the received packet handler and its history.
THEOREM ReceivedPacketsInvariant == Spec => []IInv
BY InitInvariant, NextInvariant, PTL DEF Spec

\* The fields keep their types.
THEOREM ReceivedPacketsTypeOK == Spec => []TypeOK
<1>1. IInv => TypeOK
    BY DEF IInv
<1> QED BY <1>1, ReceivedPacketsInvariant, PTL

\* The interval list is sorted with gaps and covers exactly the duplicate map,
\* for any limits on the tracked ranges and packets.
THEOREM HistoryRepresentationsAgree == Spec => []RangesMatchReceived
<1>1. IInv => RangesMatchReceived
    BY DEF IInv
<1> QED BY <1>1, ReceivedPacketsInvariant, PTL

\* Every ACK frame that sendPacket gets, cached or fresh, is exact.
THEOREM AckFramesAreExact == Spec => []AckFrameIsExact
<1>1. IInv => AckFrameIsExact
    BY BuildAckFrameExact DEF IInv, AckFrameIsExact
<1> QED BY <1>1, ReceivedPacketsInvariant, PTL

\* No packet is processed twice.
THEOREM EachPacketProcessedOnce == Spec => []AcceptedAtMostOnce
<1>1. IInv => AcceptedAtMostOnce
    BY DEF IInv, AcceptedAtMostOnce
<1> QED BY <1>1, ReceivedPacketsInvariant, PTL

\* No received packet is forgotten while the peer waits for it.
THEOREM ReceivedPacketsRemembered == Spec => []NothingForgottenEarly
<1>1. IInv => NothingForgottenEarly
    <2> SUFFICES ASSUME IInv, NEW p \in PacketNumbers, accepted[p] > 0, p > ignorePacketsBelow
                 PROVE  p \in receivedPacketNumbers
        BY DEF NothingForgottenEarly
    <2>1. p \in Nat /\ ignorePacketsBelow \in Nat
        BY BoundsAssumption DEF IInv, TypeOK, PacketNumbers
    <2> QED BY <2>1 DEF IInv
<1> QED BY <1>1, ReceivedPacketsInvariant, PTL

\* The sequence of ACKs put into packets never retreats: only GetAckFrame
\* changes the last ACK, to a frame that acknowledges the whole history.
THEOREM SentAcksNeverRetreat == Spec => AcksNeverRetreat
<1> DEFINE Step == sentAck # NoFrame =>
          /\ sentAck'.LargestAcked >= sentAck.LargestAcked
          /\ \A p \in Acks(sentAck) : p \in Acks(sentAck') \/ p <= ignorePacketsBelow
<1>1. IInv /\ [Next]_vars => [Step]_sentAck
    <2> SUFFICES ASSUME IInv, Next, sentAck' # sentAck, sentAck # NoFrame
                 PROVE  Step
        BY DEF vars
    <2>1. PICK dequeue \in BOOLEAN : GetAckFrame(dequeue)
        BY DEF Next, ReceivedPacketFails, ReceivedPacketIgnored, ReceivedPacketAccepted,
               ReceivedStopWaiting
    <2>2. stateChanged /\ receivedPacketNumbers # {}
        BY <2>1 DEF GetAckFrame, IInv
    <2>3. sentAck' = IF currentAckFrame # NoFrame THEN currentAckFrame ELSE BuildAckFrame
        BY <2>1 DEF GetAckFrame
    <2>4. Acks(sentAck') = receivedPacketNumbers /\ sentAck'.LargestAcked = largestObserved
        <3>1. CASE currentAckFrame # NoFrame
            BY <2>2, <2>3, <3>1 DEF IInv
        <3>2. CASE currentAckFrame = NoFrame
            BY <2>2, <2>3, <3>2, BuildAckFrameExact
        <3> QED BY <3>1, <3>2
    <2>5. sentAck.LargestAcked \in Nat /\ largestObserved \in Nat
        BY BoundsAssumption DEF IInv, TypeOK, AckFrame, PacketNumbers
    <2> QED BY <2>4, <2>5 DEF IInv
<1> QED BY <1>1, ReceivedPacketsInvariant, PTL DEF Spec, AcksNeverRetreat
=============================================================================
