------------------------------- MODULE ListFacts -------------------------------
(***************************************************************************)
(* Facts that the proofs share.  About lists: what is in one after another *)
(* is appended, taken off or removed, and which comes before which.  About *)
(* numbers: the smallest of a set, folds over 1 .. n, and sums.            *)
(***************************************************************************)
EXTENDS Integers, Sequences, SequencesExt, SequenceTheorems, WellFoundedInduction, TLAPS

LEMMA RangeIs ==
    ASSUME NEW S, NEW s \in Seq(S)
    PROVE  /\ Range(s) \subseteq S
           /\ \A x : x \in Range(s) <=> \E k \in 1 .. Len(s) : s[k] = x
  BY DEF Range

LEMMA EmptyRange == Range(<<>>) = {}
  BY DEF Range

LEMMA AppendKeeps ==
    ASSUME NEW S, NEW s \in Seq(S), NEW x \in S
    PROVE  /\ Append(s, x) \in Seq(S)
           /\ Range(Append(s, x)) = Range(s) \cup {x}
  <1> DEFINE t == Append(s, x)
  <1>1. /\ t \in Seq(S) /\ Len(t) = Len(s) + 1 /\ t[Len(s) + 1] = x
        /\ \A k \in 1 .. Len(s) : t[k] = s[k]
        /\ Len(s) \in Nat
    OBVIOUS
  <1> HIDE DEF t
  <1>2. ASSUME NEW y \in Range(t)  PROVE y \in Range(s) \cup {x}
    <2>1. PICK k \in 1 .. Len(t) : t[k] = y
      BY <1>1, RangeIs
    <2>2. CASE k = Len(s) + 1
      BY <1>1, <2>1, <2>2
    <2>3. CASE k \in 1 .. Len(s)
      BY <1>1, <2>1, <2>3, RangeIs
    <2> QED  BY <1>1, <2>2, <2>3
  <1>3. ASSUME NEW y \in Range(s)  PROVE y \in Range(t)
    <2>1. PICK k \in 1 .. Len(s) : s[k] = y
      BY RangeIs
    <2>2. k \in 1 .. Len(t) /\ t[k] = y
      BY <1>1, <2>1
    <2> QED  BY <1>1, <2>2, RangeIs
  <1>4. x \in Range(t)
    <2>1. Len(s) + 1 \in 1 .. Len(t)
      BY <1>1
    <2> QED  BY <1>1, <2>1, RangeIs
  <1>5. t \in Seq(S) /\ Range(t) = Range(s) \cup {x}
    BY <1>1, <1>2, <1>3, <1>4
  <1> QED  BY <1>5 DEF t

LEMMA AppendIsInjective ==
    ASSUME NEW S, NEW s \in Seq(S), NEW x \in S, IsInjective(s), x \notin Range(s)
    PROVE  IsInjective(Append(s, x))
  <1> DEFINE t == Append(s, x)
             n == Len(s)
  <1>1. /\ t \in Seq(S) /\ Len(t) = n + 1 /\ t[n + 1] = x /\ DOMAIN t = 1 .. n + 1
        /\ \A k \in 1 .. n : t[k] = s[k]
        /\ n \in Nat /\ DOMAIN s = 1 .. n
    OBVIOUS
  <1>2. \A k \in 1 .. n : s[k] # x
    BY RangeIs
  <1> HIDE DEF t, n
  <1>3. \A k, l \in 1 .. n : s[k] = s[l] => k = l
    BY <1>1 DEF IsInjective
  <1>4. \A k \in 1 .. n + 1 : k = n + 1 \/ k \in 1 .. n
    BY <1>1
  <1>5. \A k, l \in 1 .. n + 1 : t[k] = t[l] => k = l
    BY <1>1, <1>2, <1>3, <1>4
  <1>6. IsInjective(t)
    BY <1>1, <1>5 DEF IsInjective
  <1> QED  BY <1>6 DEF t

LEMMA RangeOfConcat ==
    ASSUME NEW S, NEW s \in Seq(S), NEW t \in Seq(S)
    PROVE  s \o t \in Seq(S) /\ Range(s \o t) = Range(s) \cup Range(t)
  <1> DEFINE u == s \o t
             m == Len(s)
             n == Len(t)
  <1>1. /\ u \in Seq(S) /\ Len(u) = m + n /\ m \in Nat /\ n \in Nat
        /\ \A k \in 1 .. m + n : u[k] = IF k <= m THEN s[k] ELSE t[k - m]
    BY ConcatProperties, LenProperties
  <1>2. /\ \A x : x \in Range(s) <=> \E k \in 1 .. m : s[k] = x
        /\ \A x : x \in Range(t) <=> \E k \in 1 .. n : t[k] = x
        /\ \A x : x \in Range(u) <=> \E k \in 1 .. m + n : u[k] = x
    BY <1>1, RangeIs
  <1> HIDE DEF u, m, n
  <1>3. ASSUME NEW x \in Range(u)  PROVE x \in Range(s) \cup Range(t)
    <2>1. PICK k \in 1 .. m + n : u[k] = x
      BY <1>2
    <2>2. CASE k <= m
      <3>1. k \in 1 .. m /\ s[k] = x
        BY <1>1, <2>1, <2>2
      <3> QED  BY <3>1, <1>2
    <2>3. CASE ~(k <= m)
      <3>1. k - m \in 1 .. n /\ t[k - m] = x
        BY <1>1, <2>1, <2>3
      <3> QED  BY <3>1, <1>2
    <2> QED  BY <2>2, <2>3
  <1>4. ASSUME NEW x \in Range(s)  PROVE x \in Range(u)
    <2>1. PICK k \in 1 .. m : s[k] = x
      BY <1>2
    <2>2. k \in 1 .. m + n /\ u[k] = x
      BY <1>1, <2>1
    <2> QED  BY <2>2, <1>2
  <1>5. ASSUME NEW x \in Range(t)  PROVE x \in Range(u)
    <2>1. PICK k \in 1 .. n : t[k] = x
      BY <1>2
    <2>2. k + m \in 1 .. m + n /\ ~(k + m <= m) /\ (k + m) - m = k
      BY <1>1, <2>1
    <2>3. u[k + m] = x
      BY <1>1, <2>1, <2>2
    <2> QED  BY <2>2, <2>3, <1>2
  <1>6. Range(u) = Range(s) \cup Range(t)
    BY <1>3, <1>4, <1>5
  <1> QED  BY <1>1, <1>6 DEF u

LEMMA TailKeeps ==
    ASSUME NEW S, NEW s \in Seq(S), s # <<>>
    PROVE  /\ Tail(s) \in Seq(S) /\ Head(s) \in S /\ Len(s) >= 1
           /\ Len(Tail(s)) = Len(s) - 1
           /\ \A k \in 1 .. Len(s) - 1 : Tail(s)[k] = s[k + 1]
           /\ Range(s) = Range(Tail(s)) \cup {Head(s)}
           /\ IsInjective(s) => IsInjective(Tail(s)) /\ Head(s) \notin Range(Tail(s))
  <1> DEFINE t == Tail(s)
             h == Head(s)
  <1>1. /\ t \in Seq(S) /\ h \in S /\ h = s[1] /\ Len(t) = Len(s) - 1
        /\ \A k \in 1 .. Len(s) - 1 : t[k] = s[k + 1]
        /\ Len(s) \in Nat /\ Len(s) >= 1 /\ DOMAIN t = 1 .. Len(t) /\ DOMAIN s = 1 .. Len(s)
    OBVIOUS
  <1> HIDE DEF t, h
  <1>2. ASSUME NEW y \in Range(s)  PROVE y \in Range(t) \cup {h}
    <2>1. PICK k \in 1 .. Len(s) : s[k] = y
      BY RangeIs
    <2>2. CASE k = 1
      BY <1>1, <2>1, <2>2
    <2>3. CASE k # 1
      <3>1. k - 1 \in 1 .. Len(t) /\ t[k - 1] = y
        BY <1>1, <2>1, <2>3
      <3> QED  BY <3>1, <1>1, RangeIs
    <2> QED  BY <2>2, <2>3
  <1>3. ASSUME NEW y \in Range(t)  PROVE \E k \in 2 .. Len(s) : s[k] = y
    <2>1. PICK k \in 1 .. Len(t) : t[k] = y
      BY <1>1, RangeIs
    <2>2. k + 1 \in 2 .. Len(s) /\ s[k + 1] = y
      BY <1>1, <2>1
    <2> QED  BY <2>2
  <1>4. Range(t) \subseteq Range(s) /\ h \in Range(s)
    <2>1. 1 \in 1 .. Len(s) /\ 2 .. Len(s) \subseteq 1 .. Len(s)
      BY <1>1
    <2> QED  BY <2>1, <1>1, <1>3, RangeIs
  <1>5. ASSUME IsInjective(s)  PROVE IsInjective(t) /\ h \notin Range(t)
    <2>1. \A k, l \in 1 .. Len(s) : s[k] = s[l] => k = l
      BY <1>1, <1>5 DEF IsInjective
    <2>2. \A k, l \in 1 .. Len(t) : t[k] = t[l] => k = l
      BY <1>1, <2>1
    <2>3. h \notin Range(t)
      BY <1>1, <1>3, <2>1
    <2> QED  BY <1>1, <2>2, <2>3 DEF IsInjective
  <1> QED  BY <1>1, <1>2, <1>4, <1>5 DEF t, h

LEMMA RemoveAtKeeps ==
    ASSUME NEW S, NEW s \in Seq(S), NEW at \in 1 .. Len(s)
    PROVE  /\ RemoveAt(s, at) \in Seq(S) /\ Len(RemoveAt(s, at)) = Len(s) - 1
           /\ \A k \in 1 .. Len(s) - 1 :
                  RemoveAt(s, at)[k] = IF k < at THEN s[k] ELSE s[k + 1]
           /\ Range(RemoveAt(s, at)) = {s[k] : k \in (1 .. Len(s)) \ {at}}
           /\ IsInjective(s) => IsInjective(RemoveAt(s, at))
  <1> DEFINE t == RemoveAt(s, at)
             a == SubSeq(s, 1, at - 1)
             b == SubSeq(s, at + 1, Len(s))
  <1>1. /\ a \in Seq(S) /\ Len(a) = at - 1 /\ \A k \in 1 .. at - 1 : a[k] = s[k]
        /\ b \in Seq(S) /\ Len(b) = Len(s) - at
        /\ \A k \in 1 .. Len(s) - at : b[k] = s[at + k]
    OBVIOUS
  <1>2. t = a \o b
    BY DEF RemoveAt
  <1> HIDE DEF a, b, t
  <1>3. Len(s) \in Nat /\ at \in Nat /\ at >= 1 /\ at <= Len(s)
    OBVIOUS
  <1>4. t \in Seq(S) /\ Len(t) = Len(s) - 1 /\ DOMAIN t = 1 .. Len(t)
    <2>1. a \o b \in Seq(S) /\ Len(a \o b) = Len(a) + Len(b)
      BY <1>1, ConcatProperties
    <2>2. (at - 1) + (Len(s) - at) = Len(s) - 1
      BY <1>3
    <2>3. t \in Seq(S) /\ Len(t) = Len(s) - 1
      BY <1>1, <1>2, <2>1, <2>2
    <2> QED  BY <2>3, LenProperties
  <1>5. ASSUME NEW k \in 1 .. Len(s) - 1
        PROVE  t[k] = IF k < at THEN s[k] ELSE s[k + 1]
    <2>1. CASE k < at
      <3>1. t[k] = a[k]
        <4>1. k \in 1 .. Len(a)
          BY <1>1, <1>3, <2>1
        <4>2. (a \o b)[k] = a[k]
          BY <4>1, <1>1, ConcatProperties
        <4> QED  BY <4>2, <1>2
      <3> QED  BY <3>1, <1>1, <1>3, <2>1
    <2>2. CASE k >= at
      <3>1. t[k] = b[k - (at - 1)]
        <4>1. k \in (Len(a) + 1) .. (Len(a) + Len(b))
          BY <1>1, <1>3, <2>2
        <4>2. (a \o b)[k] = b[k - Len(a)]
          BY <4>1, <1>1, ConcatProperties
        <4> QED  BY <4>2, <1>1, <1>2
      <3>2. k - (at - 1) \in 1 .. Len(s) - at /\ at + (k - (at - 1)) = k + 1
        BY <1>3, <2>2
      <3>3. b[k - (at - 1)] = s[at + (k - (at - 1))]
        BY <3>2, <1>1
      <3>4. t[k] = s[k + 1]
        BY <3>1, <3>2, <3>3
      <3>5. ~(k < at)
        BY <1>3, <2>2
      <3> QED  BY <3>4, <3>5
    <2>3. k < at \/ k >= at
      BY <1>3
    <2> QED  BY <2>1, <2>2, <2>3
  <1>6. ASSUME NEW y \in Range(t)  PROVE y \in {s[k] : k \in (1 .. Len(s)) \ {at}}
    <2>1. PICK k \in 1 .. Len(s) - 1 : t[k] = y
      BY <1>4, RangeIs
    <2>2. CASE k < at
      <3>1. k \in (1 .. Len(s)) \ {at} /\ s[k] = y
        BY <1>3, <1>5, <2>1, <2>2
      <3> QED  BY <3>1
    <2>3. CASE k >= at
      <3>1. k + 1 \in (1 .. Len(s)) \ {at} /\ s[k + 1] = y
        BY <1>3, <1>5, <2>1, <2>3
      <3> QED  BY <3>1
    <2> QED  BY <1>3, <2>2, <2>3
  <1>7. ASSUME NEW k \in (1 .. Len(s)) \ {at}  PROVE s[k] \in Range(t)
    <2>1. CASE k < at
      <3>1. k \in 1 .. Len(t) /\ t[k] = s[k]
        BY <1>3, <1>4, <1>5, <2>1
      <3> QED  BY <3>1, <1>4, RangeIs
    <2>2. CASE k > at
      <3>1. k - 1 \in 1 .. Len(t) /\ t[k - 1] = s[k]
        <4>1. k - 1 \in 1 .. Len(s) - 1 /\ ~(k - 1 < at) /\ (k - 1) + 1 = k
          BY <1>3, <2>2
        <4> QED  BY <4>1, <1>4, <1>5
      <3> QED  BY <3>1, <1>4, RangeIs
    <2> QED  BY <1>3, <2>1, <2>2
  <1>8. ASSUME IsInjective(s)  PROVE IsInjective(t)
    <2>1. \A k, l \in 1 .. Len(s) : s[k] = s[l] => k = l
      BY <1>8 DEF IsInjective
    <2>2. SUFFICES ASSUME NEW k \in 1 .. Len(t), NEW l \in 1 .. Len(t), t[k] = t[l]
                   PROVE  k = l
      BY <1>4 DEF IsInjective
    <2>3. t[k] = (IF k < at THEN s[k] ELSE s[k + 1]) /\ t[l] = (IF l < at THEN s[l] ELSE s[l + 1])
      BY <1>4, <1>5
    <2>4. k \in 1 .. Len(s) /\ k + 1 \in 1 .. Len(s) /\ l \in 1 .. Len(s) /\ l + 1 \in 1 .. Len(s)
      BY <1>3, <1>4
    <2>5. CASE k < at /\ l < at
      <3>1. s[k] = s[l]
        BY <2>2, <2>3, <2>5
      <3> QED  BY <3>1, <2>1, <2>4
    <2>6. CASE k < at /\ ~(l < at)
      <3>1. s[k] = s[l + 1]
        BY <2>2, <2>3, <2>6
      <3>2. k = l + 1
        BY <3>1, <2>1, <2>4
      <3> QED  BY <3>2, <2>6, <1>3, <2>4
    <2>7. CASE ~(k < at) /\ l < at
      <3>1. s[k + 1] = s[l]
        BY <2>2, <2>3, <2>7
      <3>2. k + 1 = l
        BY <3>1, <2>1, <2>4
      <3> QED  BY <3>2, <2>7, <1>3, <2>4
    <2>8. CASE ~(k < at) /\ ~(l < at)
      <3>1. s[k + 1] = s[l + 1]
        BY <2>2, <2>3, <2>8
      <3>2. k + 1 = l + 1
        BY <3>1, <2>1, <2>4
      <3> QED  BY <3>2, <2>4
    <2> QED  BY <2>5, <2>6, <2>7, <2>8
  <1>9. Range(t) = {s[k] : k \in (1 .. Len(s)) \ {at}}
    BY <1>6, <1>7
  <1> QED  BY <1>4, <1>5, <1>8, <1>9 DEF t

-----------------------------------------------------------------------------
\* a comes before b.
Before(s, a, b) == \E k, l \in DOMAIN s : k < l /\ s[k] = a /\ s[l] = b

LEMMA BeforeIs ==
    ASSUME NEW S, NEW s \in Seq(S), NEW a, NEW b, Before(s, a, b)
    PROVE  a \in Range(s) /\ b \in Range(s)
  BY DEF Before, Range

LEMMA AppendBefore ==
    ASSUME NEW S, NEW s \in Seq(S), NEW x \in S
    PROVE  /\ \A a, b : Before(s, a, b) => Before(Append(s, x), a, b)
           /\ \A a \in Range(s) : Before(Append(s, x), a, x)
  <1> DEFINE t == Append(s, x)
             n == Len(s)
  <1>1. /\ DOMAIN t = 1 .. n + 1 /\ t[n + 1] = x /\ \A k \in 1 .. n : t[k] = s[k]
        /\ n \in Nat /\ DOMAIN s = 1 .. n
    OBVIOUS
  <1>2. \A y : y \in Range(s) <=> \E k \in 1 .. n : s[k] = y
    BY RangeIs
  <1> HIDE DEF t, n
  <1>3. \A k \in 1 .. n : k \in 1 .. n + 1 /\ k < n + 1
    BY <1>1
  <1>4. ASSUME NEW a, NEW b, Before(s, a, b)  PROVE Before(t, a, b)
    BY <1>1, <1>3, <1>4 DEF Before
  <1>5. ASSUME NEW a \in Range(s)  PROVE Before(t, a, x)
    <2>1. PICK k \in 1 .. n : s[k] = a
      BY <1>2
    <2>2. k \in DOMAIN t /\ n + 1 \in DOMAIN t /\ k < n + 1 /\ t[k] = a /\ t[n + 1] = x
      BY <1>1, <1>3, <2>1
    <2> QED  BY <2>2 DEF Before
  <1> QED  BY <1>4, <1>5 DEF t

LEMMA TailBefore ==
    ASSUME NEW S, NEW s \in Seq(S), s # <<>>, IsInjective(s), NEW a, NEW b, Before(s, a, b)
    PROVE  b # Head(s) /\ (a = Head(s) \/ Before(Tail(s), a, b))
  <1> DEFINE t == Tail(s)
             n == Len(s)
  <1>1. /\ DOMAIN t = 1 .. n - 1 /\ \A k \in 1 .. n - 1 : t[k] = s[k + 1]
        /\ n \in Nat /\ DOMAIN s = 1 .. n /\ n >= 1 /\ Head(s) = s[1]
    OBVIOUS
  <1> HIDE DEF t, n
  <1>2. PICK k, l \in 1 .. n : k < l /\ s[k] = a /\ s[l] = b
    BY <1>1 DEF Before
  <1>3. b # Head(s)
    <2>1. l # 1 /\ 1 \in 1 .. n
      BY <1>1, <1>2
    <2> QED  BY <1>1, <1>2, <2>1 DEF IsInjective
  <1>4. ASSUME k # 1  PROVE Before(t, a, b)
    <2>1. k - 1 \in 1 .. n - 1 /\ l - 1 \in 1 .. n - 1 /\ k - 1 < l - 1
      BY <1>1, <1>2, <1>4
    <2>2. (k - 1) + 1 = k /\ (l - 1) + 1 = l
      BY <1>2
    <2>3. t[k - 1] = a /\ t[l - 1] = b
      BY <1>1, <1>2, <2>1, <2>2
    <2> QED  BY <1>1, <2>1, <2>3 DEF Before
  <1> QED  BY <1>1, <1>2, <1>3, <1>4 DEF t

LEMMA ConcatBefore ==
    ASSUME NEW S, NEW s \in Seq(S), NEW t \in Seq(S)
    PROVE  \A a, b : Before(s, a, b) \/ Before(t, a, b) => Before(s \o t, a, b)
  <1> DEFINE u == s \o t
             m == Len(s)
             n == Len(t)
  <1>1. /\ u \in Seq(S) /\ Len(u) = m + n /\ m \in Nat /\ n \in Nat
        /\ \A k \in 1 .. m + n : u[k] = IF k <= m THEN s[k] ELSE t[k - m]
    BY ConcatProperties, LenProperties
  <1>2. DOMAIN s = 1 .. m /\ DOMAIN t = 1 .. n /\ DOMAIN u = 1 .. m + n
    BY <1>1, LenProperties
  <1> HIDE DEF u, m, n
  <1>3. ASSUME NEW a, NEW b, Before(s, a, b)  PROVE Before(u, a, b)
    <2>1. PICK k, l \in 1 .. m : k < l /\ s[k] = a /\ s[l] = b
      BY <1>2, <1>3 DEF Before
    <2>2. k \in 1 .. m + n /\ l \in 1 .. m + n /\ u[k] = a /\ u[l] = b
      BY <1>1, <2>1
    <2> QED  BY <1>2, <2>1, <2>2 DEF Before
  <1>4. ASSUME NEW a, NEW b, Before(t, a, b)  PROVE Before(u, a, b)
    <2>1. PICK k, l \in 1 .. n : k < l /\ t[k] = a /\ t[l] = b
      BY <1>2, <1>4 DEF Before
    <2>2. /\ k + m \in 1 .. m + n /\ l + m \in 1 .. m + n /\ k + m < l + m
          /\ ~(k + m <= m) /\ ~(l + m <= m) /\ (k + m) - m = k /\ (l + m) - m = l
      BY <1>1, <2>1
    <2>3. u[k + m] = a /\ u[l + m] = b
      BY <1>1, <2>1, <2>2
    <2> QED  BY <1>2, <2>2, <2>3 DEF Before
  <1> QED  BY <1>3, <1>4 DEF u

LEMMA ConcatIsInjective ==
    ASSUME NEW S, NEW s \in Seq(S), NEW t \in Seq(S), IsInjective(s), IsInjective(t),
           Range(s) \cap Range(t) = {}
    PROVE  IsInjective(s \o t)
  <1> DEFINE u == s \o t
             m == Len(s)
             n == Len(t)
  <1>1. /\ u \in Seq(S) /\ Len(u) = m + n /\ m \in Nat /\ n \in Nat
        /\ \A k \in 1 .. m + n : u[k] = IF k <= m THEN s[k] ELSE t[k - m]
    BY ConcatProperties, LenProperties
  <1>2. DOMAIN s = 1 .. m /\ DOMAIN t = 1 .. n /\ DOMAIN u = 1 .. m + n
    BY <1>1, LenProperties
  <1>3. /\ \A k \in 1 .. m : s[k] \in Range(s)
        /\ \A k \in 1 .. n : t[k] \in Range(t)
    BY <1>2 DEF Range
  <1> HIDE DEF u, m, n
  <1>4. \A k, l \in 1 .. m : s[k] = s[l] => k = l
    BY <1>2 DEF IsInjective
  <1>5. \A k, l \in 1 .. n : t[k] = t[l] => k = l
    BY <1>2 DEF IsInjective
  <1>6. \A k \in 1 .. m + n : k \in 1 .. m \/ (~(k <= m) /\ k - m \in 1 .. n)
    BY <1>1
  <1>7. SUFFICES ASSUME NEW k \in 1 .. m + n, NEW l \in 1 .. m + n, u[k] = u[l]  PROVE k = l
    BY <1>2 DEF IsInjective, u
  <1>8. CASE k \in 1 .. m /\ l \in 1 .. m
    BY <1>1, <1>4, <1>7, <1>8
  <1>9. CASE k \in 1 .. m /\ ~(l <= m) /\ l - m \in 1 .. n
    <2>1. k <= m /\ k \in 1 .. m + n
      BY <1>1, <1>9
    <2>2. u[k] = s[k] /\ u[k] \in Range(s)
      BY <1>1, <1>3, <1>9, <2>1
    <2>3. u[l] = t[l - m] /\ u[l] \in Range(t)
      BY <1>1, <1>3, <1>9
    <2> QED  BY <1>7, <2>2, <2>3
  <1>10. CASE l \in 1 .. m /\ ~(k <= m) /\ k - m \in 1 .. n
    <2>1. l <= m /\ l \in 1 .. m + n
      BY <1>1, <1>10
    <2>2. u[l] = s[l] /\ u[l] \in Range(s)
      BY <1>1, <1>3, <1>10, <2>1
    <2>3. u[k] = t[k - m] /\ u[k] \in Range(t)
      BY <1>1, <1>3, <1>10
    <2> QED  BY <1>7, <2>2, <2>3
  <1>11. CASE ~(k <= m) /\ k - m \in 1 .. n /\ ~(l <= m) /\ l - m \in 1 .. n
    <2>1. t[k - m] = t[l - m]
      BY <1>1, <1>7, <1>11
    <2>2. k - m = l - m
      BY <1>5, <1>11, <2>1
    <2> QED  BY <1>1, <2>2
  <1> QED  BY <1>6, <1>8, <1>9, <1>10, <1>11

\* One element in front, as a list.
LEMMA OneInFront ==
    ASSUME NEW S, NEW x \in S
    PROVE  <<x>> \in Seq(S) /\ Range(<<x>>) = {x} /\ IsInjective(<<x>>)
  BY DEF Range, IsInjective

-----------------------------------------------------------------------------
(* Numbers. *)

LEMMA SmallestIn ==
    ASSUME NEW T, T \subseteq Nat, T # {}
    PROVE  \E m \in T : \A k \in T : m <= k
  <1>1. PICK x \in T : \A y \in T : ~ (<<y, x>> \in OpToRel(<, Nat))
    BY WFMin, NatLessThanWellFounded, Zenon
  <1>2. ASSUME NEW y \in T  PROVE ~(y < x)
    <2>1. y < x => <<y, x>> \in OpToRel(<, Nat)
      BY DEF OpToRel
    <2> QED  BY <1>1, <2>1, Zenon
  <1>3. \A y \in T : y \in Nat /\ ~(y < x) => x <= y
    OBVIOUS
  <1> QED  BY <1>2, <1>3

\* Induction, for a set of numbers.
LEMMA SetInduction ==
    ASSUME NEW T, T \subseteq Nat, 0 \in T, \A n \in T : n + 1 \in T
    PROVE  T = Nat
  <1> SUFFICES ASSUME Nat \ T # {}  PROVE FALSE
    OBVIOUS
  <1>1. PICK m \in Nat \ T : \A k \in Nat \ T : m <= k
    BY SmallestIn
  <1>2. m # 0 /\ m - 1 \in Nat /\ ~(m <= m - 1)
    BY <1>1
  <1>3. m - 1 \in T
    BY <1>1, <1>2
  <1>4. (m - 1) + 1 = m
    BY <1>1
  <1> QED  BY <1>3, <1>4, <1>1

-----------------------------------------------------------------------------
(* Folds: FoldLeft is a recursive function over the sets of places. *)

\* What Max returns.
LEMMA Largest ==
    ASSUME NEW n \in Nat, NEW s \in SUBSET (1 .. n + 1), n + 1 \in s
    PROVE  Max(s) = n + 1
  <1>1. \A y \in s : n + 1 >= y
    OBVIOUS
  <1>2. \A x \in s : (\A y \in s : x >= y) => x = n + 1
    OBVIOUS
  <1> QED  BY <1>1, <1>2 DEF Max

LEMMA LargestIn ==
    ASSUME NEW n \in Nat, NEW s \in SUBSET (1 .. n), s # {}
    PROVE  Max(s) \in s /\ \A y \in s : y <= Max(s)
  <1> DEFINE T == {k \in Nat : \A y \in s : y <= k}
  <1>1. T \subseteq Nat /\ n \in T
    OBVIOUS
  <1>2. PICK m \in T : \A k \in T : m <= k
    BY <1>1, SmallestIn
  <1>3. m \in s
    <2>1. PICK x \in s : TRUE
      OBVIOUS
    <2>2. m \in Nat /\ x <= m /\ x \in Nat \ {0} /\ \A y \in s : y <= m /\ y \in Nat
      BY <1>2
    <2>3. ASSUME m \notin s  PROVE FALSE
      <3>1. \A y \in s : y <= m - 1
        BY <2>2, <2>3
      <3>2. m - 1 \in T
        BY <2>2, <3>1
      <3> QED  BY <1>2, <2>2, <3>2
    <2> QED  BY <2>3
  <1>4. \A y \in s : m >= y
    BY <1>2
  <1> HIDE DEF T
  <1>5. Max(s) \in s /\ \A y \in s : Max(s) >= y
    BY <1>3, <1>4, Zenon DEF Max
  <1> QED  BY <1>5

\* The function that a fold over the first n places of a list is defined by.
FoldsOver(f, X, base, n, G) ==
    /\ f \in [SUBSET (1 .. n) -> X]
    /\ f = [s \in SUBSET (1 .. n) |->
               IF s = {} THEN base ELSE G[Max(s)][f[s \ {Max(s)}]]]

LEMMA FoldExists ==
    ASSUME NEW X, NEW base \in X, NEW n \in Nat, NEW G \in [1 .. n -> [X -> X]]
    PROVE  \E f : FoldsOver(f, X, base, n, G)
  <1> DEFINE Is(f, k) ==
                 /\ f \in [SUBSET (1 .. k) -> X]
                 /\ \A s \in SUBSET (1 .. k) :
                        f[s] = IF s = {} THEN base ELSE G[Max(s)][f[s \ {Max(s)}]]
             Has(k) == \E f : Is(f, k)
             T == {k \in Nat : k <= n => Has(k)}
  <1>1. 0 \in T
    <2>1. 1 .. 0 = {}
      OBVIOUS
    <2>2. Is([s \in {{}} |-> base], 0)
      BY <2>1
    <2>3. Has(0)
      BY <2>2
    <2> QED  BY <2>3
  <1>2. ASSUME NEW k \in T  PROVE k + 1 \in T
    <2> SUFFICES ASSUME k + 1 <= n  PROVE Has(k + 1)
      <3> HIDE DEF Has
      <3>1. k + 1 \in Nat
        OBVIOUS
      <3> QED  BY <3>1
    <2>1. k \in Nat /\ k + 1 \in 1 .. n /\ G[k + 1] \in [X -> X]
      <3> HIDE DEF Has
      <3> QED  OBVIOUS
    <2>2. PICK f : Is(f, k)
      <3>1. Has(k)
        <4> HIDE DEF Has
        <4> QED  OBVIOUS
      <3> QED  BY <3>1, Zenon
    <2> DEFINE g == [s \in SUBSET (1 .. k + 1) |->
                        IF k + 1 \in s THEN G[k + 1][f[s \ {k + 1}]] ELSE f[s]]
    <2>3. \A s \in SUBSET (1 .. k + 1) :
              /\ s \ {k + 1} \in SUBSET (1 .. k)
              /\ k + 1 \notin s => s \in SUBSET (1 .. k)
      BY <2>1
    <2>4. \A s \in SUBSET (1 .. k) : s \in SUBSET (1 .. k + 1) /\ k + 1 \notin s
      BY <2>1
    <2>5. g \in [SUBSET (1 .. k + 1) -> X]
      BY <2>1, <2>2, <2>3
    <2>6. \A s \in SUBSET (1 .. k) : g[s] = f[s]
      BY <2>4
    <2>7. ASSUME NEW s \in SUBSET (1 .. k + 1)
          PROVE  g[s] = IF s = {} THEN base ELSE G[Max(s)][g[s \ {Max(s)}]]
      <3>1. CASE k + 1 \in s
        <4>1. Max(s) = k + 1 /\ s # {}
          BY <2>1, <3>1, Largest
        <4>2. g[s \ {k + 1}] = f[s \ {k + 1}]
          BY <2>3, <2>6
        <4>3. g[s] = G[k + 1][f[s \ {k + 1}]]
          BY <3>1
        <4> QED  BY <4>1, <4>2, <4>3
      <3>2. CASE k + 1 \notin s
        <4>1. s \in SUBSET (1 .. k) /\ g[s] = f[s]
          BY <2>3, <2>6, <3>2
        <4>2. s \ {Max(s)} \in SUBSET (1 .. k)
          BY <4>1
        <4>3. g[s \ {Max(s)}] = f[s \ {Max(s)}]
          BY <2>6, <4>2
        <4>4. f[s] = IF s = {} THEN base ELSE G[Max(s)][f[s \ {Max(s)}]]
          BY <2>2, <4>1
        <4> HIDE DEF g
        <4> QED  BY <4>1, <4>3, <4>4
      <3> QED  BY <3>1, <3>2
    <2> HIDE DEF g
    <2>8. Is(g, k + 1)
      BY <2>5, <2>7
    <2> QED  BY <2>8, Zenon
  <1> HIDE DEF T
  <1>3. T \subseteq Nat
    BY DEF T
  <1>4. n \in T
    BY <1>1, <1>2, <1>3, SetInduction
  <1>5. PICK f : Is(f, n)
    <2>1. Has(n)
      <3> HIDE DEF Has
      <3> QED  BY <1>4 DEF T
    <2> QED  BY <2>1, Zenon
  <1>6. f = [s \in SUBSET (1 .. n) |-> IF s = {} THEN base ELSE G[Max(s)][f[s \ {Max(s)}]]]
    BY <1>5
  <1>7. f \in [SUBSET (1 .. n) -> X]
    BY <1>5
  <1> QED  BY <1>6, <1>7, Zenon DEF FoldsOver

\* Such a function, for the first k places: one step after the other.
LEMMA FoldPlaces ==
    ASSUME NEW n \in Nat, NEW k \in 1 .. n
    PROVE  /\ 1 .. k \in SUBSET (1 .. n) /\ 1 .. k # {} /\ Max(1 .. k) = k
           /\ (1 .. k) \ {k} = 1 .. k - 1
  <1>1. k - 1 \in Nat /\ (k - 1) + 1 = k
    OBVIOUS
  <1>2. k \in 1 .. k /\ 1 .. k \in SUBSET (1 .. k)
    OBVIOUS
  <1>3. Max(1 .. k) = k
    BY <1>1, <1>2, Largest
  <1> QED  BY <1>3

\* What every step keeps holds in the end.
LEMMA FoldKeeps ==
    ASSUME NEW n \in Nat, NEW r, NEW P, r[0] \in P[0],
           \A k \in 1 .. n : r[k - 1] \in P[k - 1] => r[k] \in P[k]
    PROVE  \A k \in 0 .. n : r[k] \in P[k]
  <1> DEFINE T == {k \in Nat : k <= n => r[k] \in P[k]}
  <1>1. T \subseteq Nat /\ 0 \in T
    OBVIOUS
  <1>2. ASSUME NEW k \in T  PROVE k + 1 \in T
    <2>1. k + 1 <= n => k + 1 \in 1 .. n /\ (k + 1) - 1 = k /\ k <= n
      OBVIOUS
    <2> QED  BY <2>1
  <1> HIDE DEF T
  <1>3. T = Nat
    BY <1>1, <1>2, SetInduction
  <1>4. ASSUME NEW k \in 0 .. n  PROVE r[k] \in P[k]
    BY <1>3 DEF T
  <1> QED  BY <1>4

-----------------------------------------------------------------------------
(* Sums. *)

\* r adds up the numbers a[1], ..., a[n], one after the other, and t is their sum.
AddsUp(r, a, n) == r[0] = 0 /\ \A k \in 1 .. n : r[k] = r[k - 1] + a[k]
Adds(t, a, n) == \E r : AddsUp(r, a, n) /\ t = r[n]

LEMMA SumExists ==
    ASSUME NEW n \in Nat, NEW a \in [1 .. n -> Nat]
    PROVE  \E t : Adds(t, a, n)
  <1> DEFINE G == [k \in 1 .. n |-> [x \in Nat |-> x + a[k]]]
  <1>1. G \in [1 .. n -> [Nat -> Nat]] /\ 0 \in Nat
    OBVIOUS
  <1>2. PICK f : FoldsOver(f, Nat, 0, n, G)
    <2> HIDE DEF G
    <2> QED  BY <1>1, FoldExists, Zenon
  <1>3. /\ f \in [SUBSET (1 .. n) -> Nat]
        /\ f = [s \in SUBSET (1 .. n) |->
                   IF s = {} THEN 0 ELSE G[Max(s)][f[s \ {Max(s)}]]]
    BY <1>2 DEF FoldsOver
  <1> DEFINE r == [k \in 0 .. n |-> f[1 .. k]]
  <1>4. r[0] = 0
    BY <1>3
  <1>5. ASSUME NEW k \in 1 .. n  PROVE r[k] = r[k - 1] + a[k]
    <2>1. k \in 0 .. n /\ k - 1 \in 0 .. n
      OBVIOUS
    <2>2. /\ 1 .. k \in SUBSET (1 .. n) /\ 1 .. k # {} /\ Max(1 .. k) = k
          /\ (1 .. k) \ {k} = 1 .. k - 1
      BY FoldPlaces
    <2>3. f[1 .. k] = IF 1 .. k = {} THEN 0
                      ELSE G[Max(1 .. k)][f[(1 .. k) \ {Max(1 .. k)}]]
      BY <1>3, <2>2, Zenon
    <2>4. f[1 .. k] = G[k][f[1 .. k - 1]]
      BY <2>2, <2>3, Zenon
    <2>5. f[1 .. k - 1] \in Nat
      <3>1. 1 .. k - 1 \in SUBSET (1 .. n)
        OBVIOUS
      <3> QED  BY <1>3, <3>1, Zenon
    <2>6. G[k][f[1 .. k - 1]] = f[1 .. k - 1] + a[k]
      BY <2>5
    <2> HIDE DEF G
    <2> QED  BY <2>1, <2>4, <2>6
  <1> HIDE DEF r
  <1>6. AddsUp(r, a, n)
    BY <1>4, <1>5 DEF AddsUp
  <1> QED  BY <1>6, Zenon DEF Adds

LEMMA RunningSums ==
    ASSUME NEW n \in Nat, NEW a \in [1 .. n -> Nat], NEW r, AddsUp(r, a, n)
    PROVE  \A k \in 0 .. n : r[k] \in Nat
  <1> DEFINE P == [k \in 0 .. n |-> Nat]
  <1>1. r[0] = 0 /\ \A k \in 1 .. n : r[k] = r[k - 1] + a[k]
    BY DEF AddsUp
  <1>2. r[0] \in P[0]
    BY <1>1
  <1>3. ASSUME NEW k \in 1 .. n, r[k - 1] \in P[k - 1]  PROVE r[k] \in P[k]
    <2>1. k \in 0 .. n /\ k - 1 \in 0 .. n /\ a[k] \in Nat
      OBVIOUS
    <2> QED  BY <1>1, <1>3, <2>1
  <1> HIDE DEF P
  <1>4. \A k \in 0 .. n : r[k] \in P[k]
    BY <1>2, <1>3, FoldKeeps
  <1> QED  BY <1>4 DEF P

LEMMA SumIsNat ==
    ASSUME NEW n \in Nat, NEW a \in [1 .. n -> Nat], NEW t, Adds(t, a, n)
    PROVE  t \in Nat
  <1>1. PICK r : AddsUp(r, a, n) /\ t = r[n]
    BY Zenon DEF Adds
  <1>2. n \in 0 .. n
    OBVIOUS
  <1> QED  BY <1>1, <1>2, RunningSums

\* Two lists of n numbers that differ in the jth at most.
SameBut(a, b, n, j) ==
    /\ n \in Nat /\ j \in 1 .. n
    /\ a \in [1 .. n -> Nat] /\ b \in [1 .. n -> Nat]
    /\ \A k \in 1 .. n : k # j => a[k] = b[k]

\* The sum changes by what one number changes.
LEMMA SumChanges ==
    ASSUME NEW a, NEW b, NEW n, NEW j, SameBut(a, b, n, j),
           NEW t, Adds(t, a, n), NEW u, Adds(u, b, n)
    PROVE  t + b[j] = u + a[j]
  <1>0. /\ n \in Nat /\ j \in 1 .. n
        /\ a \in [1 .. n -> Nat] /\ b \in [1 .. n -> Nat]
        /\ \A k \in 1 .. n : k # j => a[k] = b[k]
    BY DEF SameBut
  <1>1. PICK r : AddsUp(r, a, n) /\ t = r[n]
    BY Zenon DEF Adds
  <1>2. PICK q : AddsUp(q, b, n) /\ u = q[n]
    BY Zenon DEF Adds
  <1>3. /\ \A k \in 0 .. n : r[k] \in Nat /\ q[k] \in Nat
        /\ r[0] = 0 /\ \A k \in 1 .. n : r[k] = r[k - 1] + a[k]
        /\ q[0] = 0 /\ \A k \in 1 .. n : q[k] = q[k - 1] + b[k]
    BY <1>0, <1>1, <1>2, RunningSums DEF AddsUp
  <1> DEFINE P == [k \in 0 .. n |->
                      {x \in Nat : IF k < j THEN x = q[k] ELSE x + b[j] = q[k] + a[j]}]
  <1>4. r[0] \in P[0]
    BY <1>0, <1>3
  <1>5. ASSUME NEW k \in 1 .. n, r[k - 1] \in P[k - 1]  PROVE r[k] \in P[k]
    <2>1. k \in 0 .. n /\ k - 1 \in 0 .. n /\ a[k] \in Nat /\ b[k] \in Nat
          /\ a[j] \in Nat /\ b[j] \in Nat
      BY <1>0
    <2>2. IF k - 1 < j THEN r[k - 1] = q[k - 1] ELSE r[k - 1] + b[j] = q[k - 1] + a[j]
      BY <1>5, <2>1
    <2>3. r[k] = r[k - 1] + a[k] /\ q[k] = q[k - 1] + b[k]
      BY <1>3
    <2>4. r[k] \in Nat /\ r[k - 1] \in Nat /\ q[k] \in Nat /\ q[k - 1] \in Nat
      BY <1>3, <2>1
    <2> HIDE DEF P
    <2>5. IF k < j THEN r[k] = q[k] ELSE r[k] + b[j] = q[k] + a[j]
      <3>1. CASE k = j
        BY <1>0, <2>1, <2>2, <2>3, <2>4, <3>1
      <3>2. CASE k # j
        <4>1. a[k] = b[k] /\ (k < j <=> k - 1 < j)
          BY <1>0, <2>1, <3>2
        <4>2. CASE k < j
          <5>1. r[k - 1] = q[k - 1]
            BY <2>2, <4>1, <4>2
          <5> QED  BY <2>3, <4>1, <4>2, <5>1
        <4>3. CASE ~ (k < j)
          <5> DEFINE x == r[k - 1]
                     y == q[k - 1]
                     c == a[j]
                     d == b[j]
                     e == b[k]
          <5>1. x + d = y + c
            BY <2>2, <4>1, <4>3
          <5>2. x \in Nat /\ y \in Nat /\ c \in Nat /\ d \in Nat /\ e \in Nat
            BY <2>1, <2>4
          <5>3. r[k] = x + e /\ q[k] = y + e
            BY <2>3, <4>1, Zenon
          <5>4. r[k] + d = q[k] + c
            <6> HIDE DEF x, y, c, d, e
            <6> QED  BY <5>1, <5>2, <5>3
          <5> QED  BY <4>3, <5>4
        <4> QED  BY <4>2, <4>3
      <3> QED  BY <3>1, <3>2
    <2> QED  BY <2>1, <2>4, <2>5 DEF P
  <1> HIDE DEF P
  <1>6. \A k \in 0 .. n : r[k] \in P[k]
    BY <1>0, <1>4, <1>5, FoldKeeps
  <1>7. n \in 0 .. n /\ ~ (n < j)
    BY <1>0
  <1>8. r[n] + b[j] = q[n] + a[j]
    BY <1>6, <1>7 DEF P
  <1> QED  BY <1>1, <1>2, <1>8

LEMMA SumSame ==
    ASSUME NEW n \in Nat, NEW a \in [1 .. n -> Nat], NEW t, Adds(t, a, n), NEW u, Adds(u, a, n)
    PROVE  t = u
  <1>1. CASE n = 0
    BY <1>1 DEF Adds, AddsUp
  <1>2. CASE n # 0
    <2>1. n \in 1 .. n /\ a[n] \in Nat
      BY <1>2
    <2>2. t \in Nat /\ u \in Nat /\ SameBut(a, a, n, n)
      BY <2>1, SumIsNat DEF SameBut
    <2>3. t + a[n] = u + a[n]
      BY <2>2, SumChanges
    <2> QED  BY <2>1, <2>2, <2>3
  <1> QED  BY <1>1, <1>2

LEMMA SumOfNothing ==
    ASSUME NEW n \in Nat, NEW a \in [1 .. n -> Nat], \A k \in 1 .. n : a[k] = 0,
           NEW t, Adds(t, a, n)
    PROVE  t = 0
  <1>1. PICK r : AddsUp(r, a, n) /\ t = r[n]
    BY Zenon DEF Adds
  <1> DEFINE q == [k \in 0 .. n |-> 0]
  <1>2. AddsUp(q, a, n) /\ q[n] = 0
    BY DEF AddsUp
  <1> HIDE DEF q
  <1>3. Adds(0, a, n)
    BY <1>2 DEF Adds
  <1> QED  BY <1>3, SumSame

=============================================================================
