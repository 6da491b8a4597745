--------------------------- MODULE PageHostProofs ---------------------------
(***************************************************************************)
(* Theorems about PageHost, for every set of pages, every registration and *)
(* every cap: how many hidden pages stay mounted, and the leases of those  *)
(* that do not.                                                            *)
(***************************************************************************)
EXTENDS PageHost, FiniteSetTheorems, WellFoundedInduction, TLAPS

-----------------------------------------------------------------------------
(* What Filter returns.                                                      *)

\* A set of numbers that holds 0 and the successor of each of its members holds
\* every number.
LEMMA SetInduction ==
  ASSUME NEW N, N \subseteq Nat, 0 \in N, \A n \in N : n + 1 \in N
  PROVE  N = Nat
  <1> DEFINE R == OpToRel(<, Nat)
             T == Nat \ N
  <1> SUFFICES ASSUME T # {} PROVE FALSE
    OBVIOUS
  <1>1. PICK x \in T : \A y \in T : ~(<<y, x>> \in R)
    <2>1. IsWellFoundedOn(R, Nat) /\ T \subseteq Nat
      BY NatLessThanWellFounded
    <2> HIDE DEF R, T
    <2> QED
      BY <2>1, WFMin
  <1>2. x \in Nat /\ x # 0 /\ x - 1 \in Nat /\ x - 1 < x /\ (x - 1) + 1 = x
    OBVIOUS
  <1>3. <<x - 1, x>> \in R
    BY <1>2, Zenon DEF OpToRel
  <1>4. x - 1 \in N
    BY <1>1, <1>2, <1>3
  <1> QED
    BY <1>2, <1>4

\* The function Filter is defined with.
PrefixKeeps(s, S, n) ==
  {g \in [0..n -> Seq(S)] :
      /\ g[0] = <<>>
      /\ \A k \in 1..n : g[k] = IF s[k] \in S THEN Append(g[k - 1], s[k]) ELSE g[k - 1]}

\* That function exists.
LEMMA PrefixKeepsExist ==
  ASSUME NEW T, NEW s \in Seq(T), NEW S, NEW n \in 0..Len(s)
  PROVE  PrefixKeeps(s, S, n) # {}
  <1> DEFINE N == {m \in Nat : m \in 0..Len(s) => PrefixKeeps(s, S, m) # {}}
  <1>1. 0 \in N
    <2>1. [k \in 0..0 |-> <<>>] \in PrefixKeeps(s, S, 0)
      BY DEF PrefixKeeps
    <2> QED
      BY <2>1
  <1>2. ASSUME NEW m \in N PROVE m + 1 \in N
    <2> SUFFICES ASSUME m + 1 \in 0..Len(s) PROVE PrefixKeeps(s, S, m + 1) # {}
      OBVIOUS
    <2>1. m \in 0..Len(s) /\ m \in Nat
      OBVIOUS
    <2>2. PICK g \in PrefixKeeps(s, S, m) : TRUE
      BY <1>2, <2>1
    <2> DEFINE last == IF s[m + 1] \in S THEN Append(g[m], s[m + 1]) ELSE g[m]
               h == [k \in 0..(m + 1) |-> IF k = m + 1 THEN last ELSE g[k]]
    <2>3. g \in [0..m -> Seq(S)] /\ g[0] = <<>>
      BY <2>2 DEF PrefixKeeps
    <2>4. last \in Seq(S)
      BY <2>1, <2>3
    <2>5. h \in [0..(m + 1) -> Seq(S)]
      BY <2>1, <2>3, <2>4
    <2>6. h[0] = <<>>
      BY <2>1, <2>3
    <2>7. ASSUME NEW k \in 1..(m + 1)
          PROVE  h[k] = IF s[k] \in S THEN Append(h[k - 1], s[k]) ELSE h[k - 1]
      <3>1. k - 1 \in 0..m /\ h[k - 1] = g[k - 1]
        BY <2>1
      <3>2. CASE k = m + 1
        BY <3>1, <3>2, <2>1
      <3>3. CASE k # m + 1
        <4>1. k \in 1..m /\ h[k] = g[k]
          BY <3>3, <2>1
        <4> QED
          BY <4>1, <3>1, <2>2 DEF PrefixKeeps
      <3> QED
        BY <3>2, <3>3
    <2> HIDE DEF h
    <2>8. h \in PrefixKeeps(s, S, m + 1)
      BY <2>5, <2>6, <2>7 DEF PrefixKeeps
    <2> QED
      BY <2>8
  <1>3. N = Nat
    <2> HIDE DEF N
    <2>1. N \subseteq Nat
      BY DEF N
    <2> QED
      BY <1>1, <1>2, <2>1, SetInduction
  <1> QED
    BY <1>3

\* Filter is the last value of such a function.
LEMMA FilterIsLast ==
  ASSUME NEW T, NEW s \in Seq(T), NEW S
  PROVE  \E g \in PrefixKeeps(s, S, Len(s)) : Filter(s, S) = g[Len(s)]
  <1> DEFINE Body(g) == [k \in 0..Len(s) |->
                           IF k = 0 THEN <<>>
                           ELSE IF s[k] \in S THEN Append(g[k - 1], s[k]) ELSE g[k - 1]]
             kept == CHOOSE g : g = Body(g)
  <1>0. Len(s) \in Nat
    OBVIOUS
  <1>1. PICK g \in PrefixKeeps(s, S, Len(s)) : TRUE
    BY PrefixKeepsExist, <1>0
  <1>2. g = Body(g)
    <2>1. g \in [0..Len(s) -> Seq(S)]
      BY <1>1 DEF PrefixKeeps
    <2>2. ASSUME NEW k \in 0..Len(s) PROVE g[k] = Body(g)[k]
      <3>1. CASE k = 0
        BY <3>1, <1>0, <1>1 DEF PrefixKeeps
      <3>2. CASE k # 0
        <4>1. k \in 1..Len(s)
          BY <3>2, <1>0
        <4> QED
          BY <4>1, <3>2, <1>0, <1>1 DEF PrefixKeeps
      <3> QED
        BY <3>1, <3>2
    <2> QED
      BY <2>1, <2>2
  <1>3. kept = Body(kept)
    <2>1. \E f : f = Body(f)
      BY <1>2
    <2> QED
      BY <2>1, Zenon
  <1>4. Filter(s, S) = kept[Len(s)]
    BY DEF Filter
  <1> HIDE DEF kept
  <1>5. kept \in PrefixKeeps(s, S, Len(s))
    <2> DEFINE N == {m \in Nat : m \in 0..Len(s) => kept[m] \in Seq(S)}
    <2>1. DOMAIN kept = 0..Len(s) /\ kept[0] = <<>>
      BY <1>3, <1>0
    <2>2. ASSUME NEW k \in 1..Len(s)
          PROVE  kept[k] = IF s[k] \in S THEN Append(kept[k - 1], s[k]) ELSE kept[k - 1]
      <3>1. k \in 0..Len(s) /\ k # 0
        BY <1>0
      <3>2. kept[k] = Body(kept)[k]
        <4> HIDE DEF Body
        <4> QED
          BY <1>3
      <3> QED
        BY <3>1, <3>2
    <2>3. 0 \in N
      BY <2>1
    <2>4. ASSUME NEW m \in N PROVE m + 1 \in N
      <3> SUFFICES ASSUME m + 1 \in 0..Len(s) PROVE kept[m + 1] \in Seq(S)
        OBVIOUS
      <3>1. m \in 0..Len(s) /\ m + 1 \in 1..Len(s) /\ (m + 1) - 1 = m /\ kept[m] \in Seq(S)
        BY <2>4, <1>0
      <3>2. kept[m + 1] = IF s[m + 1] \in S THEN Append(kept[m], s[m + 1]) ELSE kept[m]
        BY <3>1, <2>2
      <3> QED
        BY <3>1, <3>2
    <2>5. N = Nat
      <3>1. N \subseteq Nat
        OBVIOUS
      <3> HIDE DEF N
      <3> QED
        BY <2>3, <2>4, <3>1, SetInduction
    <2>6. \A k \in 0..Len(s) : kept[k] \in Seq(S)
      BY <2>5
    <2>7. kept = [k \in 0..Len(s) |-> kept[k]]
      BY <1>3
    <2> QED
      BY <2>1, <2>2, <2>6, <2>7 DEF PrefixKeeps
  <1> QED
    BY <1>4, <1>5

\* Filter returns a sequence of the elements of s that are in S, and of no others.
LEMMA FilterMembers ==
  ASSUME NEW T, NEW s \in Seq(T), NEW S
  PROVE  /\ Filter(s, S) \in Seq(S) /\ Filter(s, S) \in Seq(T)
         /\ ToSet(Filter(s, S)) = ToSet(s) \cap S
  <1>1. PICK g \in PrefixKeeps(s, S, Len(s)) : Filter(s, S) = g[Len(s)]
    BY FilterIsLast
  <1>2. /\ Len(s) \in Nat /\ g \in [0..Len(s) -> Seq(S)] /\ g[0] = <<>>
        /\ \A k \in 1..Len(s) :
              g[k] = IF s[k] \in S THEN Append(g[k - 1], s[k]) ELSE g[k - 1]
    BY <1>1 DEF PrefixKeeps
  <1> DEFINE From(m) == \A i \in 1..Len(g[m]) : \E j \in 1..m : g[m][i] = s[j]
             All(m) == \A j \in 1..m : s[j] \in S => \E i \in 1..Len(g[m]) : g[m][i] = s[j]
             N == {m \in Nat : m \in 0..Len(s) => From(m) /\ All(m)}
  <1>3. 0 \in N
    BY <1>2
  <1>4. ASSUME NEW m \in Nat, m \in 0..Len(s) => From(m) /\ All(m), m + 1 \in 0..Len(s)
        PROVE  From(m + 1) /\ All(m + 1)
    <2>0. m \in 0..Len(s) /\ m + 1 \in 1..Len(s) /\ (m + 1) - 1 = m
      BY <1>2, <1>4
    <2>1. /\ m \in Nat /\ m \in 0..Len(s) /\ g[m] \in Seq(S) /\ From(m) /\ All(m)
          /\ g[m + 1] = IF s[m + 1] \in S THEN Append(g[m], s[m + 1]) ELSE g[m]
      <3> HIDE DEF From, All
      <3> QED
        BY <1>2, <1>4, <2>0
    <2>2. CASE s[m + 1] \in S
      <3>1. /\ g[m + 1] = Append(g[m], s[m + 1]) /\ Len(g[m]) \in Nat
            /\ Len(g[m + 1]) = Len(g[m]) + 1 /\ g[m + 1][Len(g[m]) + 1] = s[m + 1]
            /\ \A i \in 1..Len(g[m]) : g[m + 1][i] = g[m][i]
        BY <2>1, <2>2
      <3>2. From(m + 1)
        <4> SUFFICES ASSUME NEW i \in 1..Len(g[m + 1])
                     PROVE  \E j \in 1..(m + 1) : g[m + 1][i] = s[j]
          OBVIOUS
        <4>1. CASE i = Len(g[m]) + 1
          BY <4>1, <3>1, <2>1
        <4>2. CASE i # Len(g[m]) + 1
          <5>1. i \in 1..Len(g[m])
            BY <4>2, <3>1
          <5>2. PICK j \in 1..m : g[m][i] = s[j]
            BY <5>1, <2>1
          <5> QED
            BY <5>1, <5>2, <3>1, <2>1
        <4> QED
          BY <4>1, <4>2
      <3>3. All(m + 1)
        <4> SUFFICES ASSUME NEW j \in 1..(m + 1), s[j] \in S
                     PROVE  \E i \in 1..Len(g[m + 1]) : g[m + 1][i] = s[j]
          OBVIOUS
        <4>1. CASE j = m + 1
          <5>1. Len(g[m]) + 1 \in 1..Len(g[m + 1])
            BY <3>1
          <5> QED
            BY <5>1, <4>1, <3>1
        <4>2. CASE j # m + 1
          <5>1. j \in 1..m
            BY <4>2, <2>1
          <5>2. PICK i \in 1..Len(g[m]) : g[m][i] = s[j]
            BY <5>1, <2>1
          <5>3. i \in 1..Len(g[m + 1]) /\ g[m + 1][i] = s[j]
            BY <5>2, <3>1
          <5> QED
            BY <5>3
        <4> QED
          BY <4>1, <4>2
      <3> QED
        BY <3>2, <3>3
    <2>3. CASE s[m + 1] \notin S
      <3>1. g[m + 1] = g[m]
        BY <2>1, <2>3
      <3>2. From(m + 1)
        BY <3>1, <2>1
      <3>3. All(m + 1)
        <4> SUFFICES ASSUME NEW j \in 1..(m + 1), s[j] \in S
                     PROVE  \E i \in 1..Len(g[m + 1]) : g[m + 1][i] = s[j]
          OBVIOUS
        <4>1. j \in 1..m
          BY <2>1, <2>3
        <4> QED
          BY <4>1, <3>1, <2>1
      <3> QED
        BY <3>2, <3>3
    <2> QED
      BY <2>2, <2>3
  <1>5. N = Nat
    <2> HIDE DEF From, All
    <2>1. N \subseteq Nat /\ \A m \in N : m + 1 \in N
      BY <1>4
    <2> HIDE DEF N
    <2> QED
      BY <1>3, <2>1, SetInduction
  <1>6. From(Len(s)) /\ All(Len(s)) /\ g[Len(s)] \in Seq(S)
    BY <1>2, <1>5
  <1> HIDE DEF N
  <1>7. ASSUME NEW i \in 1..Len(g[Len(s)]) PROVE g[Len(s)][i] \in T
    <2>1. PICK j \in 1..Len(s) : g[Len(s)][i] = s[j]
      BY <1>6
    <2> QED
      BY <2>1
  <1>8. g[Len(s)] \in Seq(T)
    BY <1>6, <1>7
  <1>9. DOMAIN g[Len(s)] = 1..Len(g[Len(s)]) /\ DOMAIN s = 1..Len(s)
    BY <1>6
  <1>10. ASSUME NEW x \in ToSet(g[Len(s)]) PROVE x \in ToSet(s) \cap S
    <2>1. PICK i \in 1..Len(g[Len(s)]) : x = g[Len(s)][i]
      BY <1>9 DEF ToSet
    <2>2. PICK j \in 1..Len(s) : x = s[j]
      BY <2>1, <1>6
    <2>3. x \in S
      BY <2>1, <1>6
    <2> QED
      BY <2>2, <2>3, <1>9 DEF ToSet
  <1>11. ASSUME NEW x \in ToSet(s) \cap S PROVE x \in ToSet(g[Len(s)])
    <2>1. PICK j \in 1..Len(s) : x = s[j]
      BY <1>9 DEF ToSet
    <2>2. PICK i \in 1..Len(g[Len(s)]) : x = g[Len(s)][i]
      BY <2>1, <1>6
    <2> QED
      BY <2>2, <1>9 DEF ToSet
  <1> QED
    BY <1>1, <1>6, <1>8, <1>10, <1>11

\* Reversing a sequence keeps its elements.
LEMMA ReverseMembers ==
  ASSUME NEW T, NEW s \in Seq(T)
  PROVE  Reverse(s) \in Seq(T) /\ ToSet(Reverse(s)) = ToSet(s)
  <1>1. /\ Len(s) \in Nat /\ DOMAIN s = 1..Len(s)
        /\ Reverse(s) = [i \in 1..Len(s) |-> s[(Len(s) - i) + 1]]
    BY DEF Reverse
  <1>2. \A i \in 1..Len(s) : (Len(s) - i) + 1 \in 1..Len(s)
    BY <1>1
  <1>3. Reverse(s) \in Seq(T) /\ DOMAIN Reverse(s) = 1..Len(s)
    BY <1>1, <1>2
  <1>4. ASSUME NEW x \in ToSet(Reverse(s)) PROVE x \in ToSet(s)
    BY <1>1, <1>2, <1>3 DEF ToSet
  <1>5. ASSUME NEW x \in ToSet(s) PROVE x \in ToSet(Reverse(s))
    <2>1. PICK i \in 1..Len(s) : x = s[i]
      BY <1>1 DEF ToSet
    <2>2. (Len(s) - i) + 1 \in 1..Len(s) /\ (Len(s) - ((Len(s) - i) + 1)) + 1 = i
      BY <1>1
    <2>3. Reverse(s)[(Len(s) - i) + 1] = x
      BY <1>1, <2>1, <2>2
    <2> QED
      BY <2>2, <2>3, <1>3 DEF ToSet
  <1> QED
    BY <1>3, <1>4, <1>5

\* A concatenation has the elements of its parts.
LEMMA ConcatMembers ==
  ASSUME NEW T, NEW s \in Seq(T), NEW t \in Seq(T)
  PROVE  s \o t \in Seq(T) /\ ToSet(s \o t) = ToSet(s) \cup ToSet(t)
  <1>1. /\ s \o t \in Seq(T) /\ Len(s) \in Nat /\ Len(t) \in Nat
        /\ Len(s \o t) = Len(s) + Len(t)
        /\ DOMAIN s = 1..Len(s) /\ DOMAIN t = 1..Len(t) /\ DOMAIN (s \o t) = 1..(Len(s) + Len(t))
        /\ \A i \in 1..(Len(s) + Len(t)) :
              (s \o t)[i] = IF i <= Len(s) THEN s[i] ELSE t[i - Len(s)]
    OBVIOUS
  <1>2. ASSUME NEW x \in ToSet(s \o t) PROVE x \in ToSet(s) \cup ToSet(t)
    <2>1. PICK i \in 1..(Len(s) + Len(t)) : x = (s \o t)[i]
      BY <1>1 DEF ToSet
    <2>2. CASE i <= Len(s)
      BY <1>1, <2>1, <2>2 DEF ToSet
    <2>3. CASE ~(i <= Len(s))
      <3>1. i - Len(s) \in 1..Len(t)
        BY <1>1, <2>3
      <3> QED
        BY <1>1, <2>1, <2>3, <3>1 DEF ToSet
    <2> QED
      BY <2>2, <2>3
  <1>3. ASSUME NEW x \in ToSet(s) PROVE x \in ToSet(s \o t)
    <2>1. PICK i \in 1..Len(s) : x = s[i]
      BY <1>1 DEF ToSet
    <2>2. i \in 1..(Len(s) + Len(t)) /\ (s \o t)[i] = x
      BY <1>1, <2>1
    <2> QED
      BY <1>1, <2>2 DEF ToSet
  <1>4. ASSUME NEW x \in ToSet(t) PROVE x \in ToSet(s \o t)
    <2>1. PICK i \in 1..Len(t) : x = t[i]
      BY <1>1 DEF ToSet
    <2>2. Len(s) + i \in 1..(Len(s) + Len(t)) /\ (s \o t)[Len(s) + i] = x
      BY <1>1, <2>1
    <2> QED
      BY <1>1, <2>2 DEF ToSet
  <1> QED
    BY <1>1, <1>2, <1>3, <1>4

\* An append adds one element.
LEMMA AppendMembers ==
  ASSUME NEW T, NEW s \in Seq(T), NEW e \in T
  PROVE  Append(s, e) \in Seq(T) /\ ToSet(Append(s, e)) = ToSet(s) \cup {e}
  <1>1. /\ Append(s, e) \in Seq(T) /\ Len(s) \in Nat
        /\ DOMAIN s = 1..Len(s) /\ DOMAIN Append(s, e) = 1..(Len(s) + 1)
        /\ \A i \in 1..Len(s) : Append(s, e)[i] = s[i]
        /\ Append(s, e)[Len(s) + 1] = e
    OBVIOUS
  <1>2. ASSUME NEW x \in ToSet(Append(s, e)) PROVE x \in ToSet(s) \cup {e}
    BY <1>1 DEF ToSet
  <1>3. ASSUME NEW x \in ToSet(s) \cup {e} PROVE x \in ToSet(Append(s, e))
    <2>1. CASE x = e
      <3>1. Len(s) + 1 \in 1..(Len(s) + 1)
        BY <1>1
      <3> QED
        BY <1>1, <2>1, <3>1 DEF ToSet
    <2>2. CASE x \in ToSet(s)
      <3>1. PICK i \in 1..Len(s) : x = s[i]
        BY <1>1, <2>2 DEF ToSet
      <3>2. i \in 1..(Len(s) + 1)
        BY <1>1
      <3> QED
        BY <1>1, <3>1, <3>2 DEF ToSet
    <2> QED
      BY <2>1, <2>2
  <1> QED
    BY <1>1, <1>2, <1>3

\* Without takes out the pages it is given and no others.
LEMMA WithoutMembers ==
  ASSUME NEW s \in Seq(Pages), NEW ps
  PROVE  Without(s, ps) \in Seq(Pages) /\ ToSet(Without(s, ps)) = ToSet(s) \ ps
  <1>1. ToSet(s) \subseteq Pages
    BY DEF ToSet
  <1>2. /\ Filter(s, Pages \ ps) \in Seq(Pages)
        /\ ToSet(Filter(s, Pages \ ps)) = ToSet(s) \cap (Pages \ ps)
    BY FilterMembers
  <1>3. ToSet(s) \cap (Pages \ ps) = ToSet(s) \ ps
    BY <1>1
  <1> QED
    BY <1>2, <1>3 DEF Without

-----------------------------------------------------------------------------
(* What the global cap leaves.                                               *)

\* The order of the global cap lists the mounted pages but the active one.
LEMMA HiddenMembers ==
  ASSUME NEW m \in Seq(Pages), NEW p, NEW visits \in Seq(Pages)
  PROVE  /\ HiddenByRecency(m, p, visits) \in Seq(Pages)
         /\ ToSet(HiddenByRecency(m, p, visits)) = ToSet(m) \ {p}
  <1> DEFINE unseen == Without(m, {p} \cup ToSet(visits))
             seen == Filter(Reverse(visits), ToSet(m) \ {p})
  <1>1. unseen \in Seq(Pages) /\ ToSet(unseen) = ToSet(m) \ ({p} \cup ToSet(visits))
    BY WithoutMembers
  <1>2. seen \in Seq(Pages) /\ ToSet(seen) = ToSet(visits) \cap (ToSet(m) \ {p})
    <2>1. Reverse(visits) \in Seq(Pages) /\ ToSet(Reverse(visits)) = ToSet(visits)
      BY ReverseMembers
    <2> DEFINE back == Reverse(visits)
               S == ToSet(m) \ {p}
    <2> HIDE DEF back, S
    <2>2. /\ Filter(back, S) \in Seq(Pages)
          /\ ToSet(Filter(back, S)) = ToSet(back) \cap S
      <3>1. back \in Seq(Pages)
        BY <2>1 DEF back
      <3> QED
        BY <3>1, FilterMembers
    <2> QED
      BY <2>1, <2>2 DEF back, S
  <1>3. HiddenByRecency(m, p, visits) = unseen \o seen
    BY DEF HiddenByRecency
  <1> HIDE DEF unseen, seen
  <1>4. unseen \o seen \in Seq(Pages) /\ ToSet(unseen \o seen) = ToSet(unseen) \cup ToSet(seen)
    BY <1>1, <1>2, ConcatMembers
  <1> QED
    BY <1>1, <1>2, <1>3, <1>4

FirstOf(s, n) == {s[i] : i \in {j \in 1..Len(s) : j <= n}}

\* The first n elements of a sequence are at most n.
LEMMA FirstAreFew ==
  ASSUME NEW T, NEW s \in Seq(T), NEW n \in Nat
  PROVE  IsFiniteSet(FirstOf(s, n)) /\ Cardinality(FirstOf(s, n)) <= n
  <1> DEFINE D == {j \in 1..Len(s) : j <= n}
             S == {s[i] : i \in D}
             f == [i \in D |-> s[i]]
  <1>1. IsFiniteSet(1..n) /\ Cardinality(1..n) = n
    BY FS_Interval
  <1>2. D \in SUBSET (1..n)
    OBVIOUS
  <1>3. f \in Surjection(D, S)
    BY DEF Surjection
  <1> HIDE DEF D
  <1>4. IsFiniteSet(D) /\ Cardinality(D) <= n
    BY <1>1, <1>2, FS_Subset
  <1> HIDE DEF S, f
  <1>5. IsFiniteSet(S) /\ Cardinality(S) <= Cardinality(D)
    BY <1>3, <1>4, FS_Surjection
  <1>6. Cardinality(S) \in Nat /\ Cardinality(D) \in Nat
    BY <1>4, <1>5, FS_CardinalityType
  <1>7. Cardinality(S) <= n
    BY <1>4, <1>5, <1>6
  <1> QED
    BY <1>5, <1>7 DEF S, D, FirstOf

\* What comes after the first n elements of a sequence is in the rest of it.
LEMMA RestMembers ==
  ASSUME NEW T, NEW s \in Seq(T), NEW n \in Nat, NEW i \in 1..Len(s), n < i
  PROVE  s[i] \in ToSet(SubSeq(s, n + 1, Len(s)))
  <1> DEFINE rest == SubSeq(s, n + 1, Len(s))
  <1>1. Len(s) \in Nat /\ i \in Nat
    OBVIOUS
  <1>2. n + 1 \in 1..Len(s) /\ i - n \in 1..(Len(s) - n) /\ (n + 1) + (i - n) - 1 = i
    BY <1>1
  <1>3. Len(rest) = Len(s) - n
    BY <1>1, <1>2
  <1>4. rest \in Seq(T)
    BY <1>1, <1>2
  <1>5. rest[i - n] = s[i]
    BY <1>1, <1>2
  <1> HIDE DEF rest
  <1>6. i - n \in DOMAIN rest
    BY <1>2, <1>3, <1>4
  <1>7. s[i] \in ToSet(rest)
    BY <1>5, <1>6 DEF ToSet
  <1> QED
    BY <1>7 DEF rest

\* Whatever was mounted and in whatever order, at most HiddenCap of the pages
\* the global cap leaves are hidden.
LEMMA CapHolds ==
  ASSUME NEW m \in Seq(Pages), NEW p, NEW visits \in Seq(Pages), NEW S,
         p # NoPage, S \subseteq ToSet(m) \ CapEvicts(m, p, visits)
  PROVE  Cardinality(S \ {p}) <= HiddenCap
  <1> DEFINE hidden == HiddenByRecency(m, p, visits)
             kept == FirstOf(hidden, HiddenCap)
  <1>0. HiddenCap \in Nat
    BY PageAssumption
  <1>1. hidden \in Seq(Pages) /\ ToSet(hidden) = ToSet(m) \ {p}
    BY HiddenMembers
  <1>2. CapEvicts(m, p, visits) = IF Len(hidden) <= HiddenCap THEN {}
                                  ELSE ToSet(SubSeq(hidden, HiddenCap + 1, Len(hidden)))
    BY DEF CapEvicts
  <1> HIDE DEF hidden
  <1>3. IsFiniteSet(kept) /\ Cardinality(kept) <= HiddenCap
    BY <1>0, <1>1, FirstAreFew
  <1>4. ASSUME NEW x \in S \ {p} PROVE x \in kept
    <2>1. x \in ToSet(m) \ {p} /\ x \notin CapEvicts(m, p, visits)
      OBVIOUS
    <2>2. PICK i \in 1..Len(hidden) : x = hidden[i]
      <3>1. x \in ToSet(hidden) /\ DOMAIN hidden = 1..Len(hidden)
        BY <1>1, <2>1
      <3> QED
        BY <3>1 DEF ToSet
    <2>3. CASE i <= HiddenCap
      BY <2>2, <2>3 DEF FirstOf
    <2>4. CASE ~(i <= HiddenCap)
      <3>1. HiddenCap < i /\ ~(Len(hidden) <= HiddenCap)
        BY <2>4, <1>0, <1>1
      <3>2. x \in ToSet(SubSeq(hidden, HiddenCap + 1, Len(hidden)))
        BY <3>1, <2>2, <1>0, <1>1, RestMembers
      <3> QED
        BY <3>1, <3>2, <2>1, <1>2
    <2> QED
      BY <2>3, <2>4
  <1> HIDE DEF kept
  <1>5. S \ {p} \in SUBSET kept
    BY <1>4
  <1>6. IsFiniteSet(S \ {p}) /\ Cardinality(S \ {p}) <= Cardinality(kept)
    BY <1>3, <1>5, FS_Subset
  <1>7. Cardinality(S \ {p}) \in Nat /\ Cardinality(kept) \in Nat
    BY <1>3, <1>6, FS_CardinalityType
  <1> QED
    BY <1>0, <1>3, <1>6, <1>7

-----------------------------------------------------------------------------
(* The host.                                                                 *)

\* The types of the state.  A runtime that is not installed has run no acquire.
HostInv ==
  /\ active \in Pages \cup {NoPage}
  /\ mounted \in Seq(Pages)
  /\ recent \in Seq(Pages)
  /\ frame \in Pages \cup {NoPage}
  /\ prewarm \in [started : BOOLEAN, left : Seq(Pages)]
  /\ closing \subseteq Closable
  /\ installed \in BOOLEAN
  /\ queued \subseteq Pages /\ leased \subseteq Pages
  /\ ~installed => leased = {}

\* What a commit that unmounts pages owes: those pages hold no lease after it,
\* and the hidden ones that stay are within the cap.
Bounded ==
  /\ mounted' \in Seq(Pages)
  /\ active' # NoPage => Cardinality(ToSet(mounted') \ {active'}) <= HiddenCap
Released == \A p \in ToSet(mounted) \ ToSet(mounted') : p \notin queued' \cup leased'

\* Acquire and Release on the leases of a host keep them leases of a host.
IsLease(l) ==
  /\ l = [queued |-> l.queued, leased |-> l.leased]
  /\ l.queued \subseteq Pages /\ l.leased \subseteq Pages
  /\ ~installed => l.leased = {}

\* An acquire or a release maps leases to leases.
LEMMA LeaseSteps ==
  ASSUME NEW l, IsLease(l), NEW ps
  PROVE  /\ IsLease(Release(l, ps))
         /\ \A p \in Pages : IsLease(Acquire(l, p))
         /\ Release(l, ps).queued \cap ps = {} /\ Release(l, ps).leased \cap ps = {}
  <1>1. /\ Release(l, ps).queued = l.queued \ ps
        /\ Release(l, ps).leased = IF installed THEN l.leased \ ps ELSE l.leased
    BY DEF Release
  <1>2. IsLease(Release(l, ps))
    BY <1>1 DEF IsLease, Release
  <1>3. Release(l, ps).queued \cap ps = {} /\ Release(l, ps).leased \cap ps = {}
    BY <1>1 DEF IsLease
  <1>4. ASSUME NEW p \in Pages PROVE IsLease(Acquire(l, p))
    <2>1. l \in [queued : SUBSET Pages, leased : SUBSET Pages]
      BY DEF IsLease
    <2>2. CASE installed
      <3>1. Acquire(l, p) = [l EXCEPT !.leased = @ \cup {p}]
        BY <2>2 DEF Acquire
      <3>2. Acquire(l, p) \in [queued : SUBSET Pages, leased : SUBSET Pages]
        BY <2>1, <3>1
      <3> QED
        BY <2>2, <3>2 DEF IsLease
    <2>3. CASE ~installed
      <3>1. Acquire(l, p) = [l EXCEPT !.queued = @ \cup {p}]
        BY <2>3 DEF Acquire
      <3>2. /\ Acquire(l, p) \in [queued : SUBSET Pages, leased : SUBSET Pages]
            /\ Acquire(l, p).leased = l.leased
        BY <2>1, <3>1
      <3> QED
        BY <2>3, <3>2 DEF IsLease
    <2> QED
      BY <2>2, <2>3
  <1> QED
    BY <1>2, <1>3, <1>4

\* The mounted set changes to m, which holds every mounted page: the global cap
\* leaves few enough and gives back what it takes out.
LEMMA CommitKeeps ==
  ASSUME HostInv, NEW m \in Seq(Pages), ToSet(mounted) \subseteq ToSet(m),
         NEW l, IsLease(l), CommitMounted(m, l),
         active' = active, installed' = installed
  PROVE  /\ Bounded /\ Released
         /\ frame' \in Pages \cup {NoPage} /\ IsLease([queued |-> queued', leased |-> leased'])
  <1> DEFINE evicted == CapEvicts(m, active, recent)
  <1>1. /\ mounted' = Without(m, evicted)
        /\ queued' = Release(l, evicted).queued /\ leased' = Release(l, evicted).leased
        /\ frame' = IF active \in ToSet(mounted') THEN NoPage ELSE active
    BY DEF CommitMounted, SetLeases
  <1> HIDE DEF evicted
  <1>2. mounted' \in Seq(Pages) /\ ToSet(mounted') = ToSet(m) \ evicted
    BY <1>1, WithoutMembers
  <1>3. Bounded
    <2>1. recent \in Seq(Pages)
      BY DEF HostInv
    <2>2. ToSet(mounted') \subseteq ToSet(m) \ CapEvicts(m, active, recent)
      BY <1>2 DEF evicted
    <2>3. active # NoPage => Cardinality(ToSet(mounted') \ {active}) <= HiddenCap
      BY <2>1, <2>2, CapHolds
    <2> QED
      BY <1>2, <2>3 DEF Bounded
  <1>4. /\ IsLease(Release(l, evicted))
        /\ Release(l, evicted).queued \cap evicted = {}
        /\ Release(l, evicted).leased \cap evicted = {}
    BY LeaseSteps
  <1>5. Released
    BY <1>1, <1>2, <1>4 DEF Released
  <1>6. IsLease([queued |-> queued', leased |-> leased'])
    BY <1>1, <1>4 DEF IsLease
  <1> QED
    BY <1>1, <1>3, <1>5, <1>6 DEF HostInv

\* A route change: the lru effect and the global cap leave few enough pages and
\* give back what they take out.
LEMMA ShowKeeps ==
  ASSUME HostInv, NEW p \in Pages, Show(p), installed' = installed
  PROVE  /\ Bounded /\ Released
         /\ active' \in Pages /\ recent' \in Seq(Pages) /\ frame' \in Pages \cup {NoPage}
         /\ IsLease([queued |-> queued', leased |-> leased'])
  <1> DEFINE visits  == <<p>> \o Without(recent, {p})
             dropped == LruDrops(p, visits)
             evicted == CapEvicts(mounted, p, visits)
             left    == IF active \in None /\ active # p THEN {active} ELSE {}
             before  == Acquire(Release(Leases, left), p)
  <1>1. /\ active' = p
        /\ recent' = visits
        /\ queued' = Release(before, dropped \cup evicted).queued
        /\ leased' = Release(before, dropped \cup evicted).leased
        /\ mounted' = Without(mounted, dropped \cup evicted)
        /\ frame' = IF p \in ToSet(mounted') THEN NoPage ELSE p
    BY DEF Show, SetLeases
  <1>2. visits \in Seq(Pages)
    <2>1. recent \in Seq(Pages)
      BY DEF HostInv
    <2>2. Without(recent, {p}) \in Seq(Pages)
      BY <2>1, WithoutMembers
    <2> QED
      BY <2>2
  <1> HIDE DEF visits, dropped, left
  <1>3. IsLease(before)
    <2>1. IsLease(Leases)
      BY DEF IsLease, Leases, HostInv
    <2> QED
      BY <2>1, LeaseSteps
  <1> HIDE DEF before
  <1>4. mounted \in Seq(Pages)
    BY DEF HostInv
  <1> DEFINE gone == dropped \cup evicted
  <1> HIDE DEF gone
  <1>5. mounted' \in Seq(Pages) /\ ToSet(mounted') = ToSet(mounted) \ gone
    <2>1. mounted' = Without(mounted, gone)
      BY <1>1 DEF gone
    <2> QED
      BY <2>1, <1>4, WithoutMembers
  <1>6. Bounded
    <2>1. ToSet(mounted') \subseteq ToSet(mounted) \ CapEvicts(mounted, p, visits)
      BY <1>5 DEF gone
    <2>2. Cardinality(ToSet(mounted') \ {p}) <= HiddenCap
      <3>1. p # NoPage
        BY PageAssumption
      <3> QED
        BY <2>1, <3>1, <1>2, <1>4, CapHolds
    <2> QED
      BY <1>1, <1>5, <2>2 DEF Bounded
  <1>7. /\ IsLease(Release(before, gone))
        /\ Release(before, gone).queued \cap gone = {}
        /\ Release(before, gone).leased \cap gone = {}
    BY <1>3, LeaseSteps
  <1>8. queued' = Release(before, gone).queued /\ leased' = Release(before, gone).leased
    BY <1>1 DEF gone
  <1>9. Released
    BY <1>5, <1>7, <1>8 DEF Released
  <1>10. IsLease([queued |-> queued', leased |-> leased'])
    BY <1>7, <1>8 DEF IsLease
  <1> QED
    BY <1>1, <1>2, <1>6, <1>9, <1>10

\* The first commit mounts the eager pages and the landing page, if it is one.
LEMMA InitHost == Init => HostInv /\ HiddenBounded
  <1> SUFFICES ASSUME Init PROVE HostInv /\ HiddenBounded
    OBVIOUS
  <1>0. /\ Eager \in SUBSET Pages /\ IsFiniteSet(Pages) /\ Landing \in Pages
        /\ NoPage \notin Pages
    BY PageAssumption
  <1>1. ASSUME NEW S \in SUBSET Pages, mounted \in SetToSeqs(S)
        PROVE  mounted \in Seq(Pages) /\ ToSet(mounted) \subseteq S
    <2>1. Cardinality(S) \in Nat
      BY <1>0, FS_Subset, FS_CardinalityType
    <2>2. mounted \in [1..Cardinality(S) -> S]
      BY <1>1 DEF SetToSeqs
    <2> QED
      BY <2>1, <2>2 DEF ToSet
  <1>2. ASSUME mounted \in Seq(Pages), recent \in Seq(Pages), active \in Pages \cup {NoPage}
        PROVE  HostInv
    <2>1. ToSet(recent) \subseteq Pages
      BY <1>2 DEF ToSet
    <2> QED
      BY <1>2, <2>1 DEF Init, HostInv
  <1>3. CASE active = NoPage /\ mounted \in SetToSeqs(Eager) /\ recent = <<>>
    BY <1>0, <1>1, <1>2, <1>3 DEF HiddenBounded
  <1>4. CASE active = Landing /\ mounted \in SetToSeqs(Eager \cup {Landing}) /\ recent = <<Landing>>
    <2>1. mounted \in Seq(Pages) /\ ToSet(mounted) \subseteq Eager \cup {Landing}
      BY <1>0, <1>1, <1>4
    <2>2. ToSet(mounted) \ {Landing} \in SUBSET (Eager \ {Landing})
      BY <2>1
    <2>3. IsFiniteSet(Eager \ {Landing})
      BY <1>0, FS_Subset
    <2>4. /\ IsFiniteSet(ToSet(mounted) \ {Landing})
          /\ Cardinality(ToSet(mounted) \ {Landing}) <= Cardinality(Eager \ {Landing})
      BY <2>2, <2>3, FS_Subset
    <2>5. /\ Cardinality(ToSet(mounted) \ {Landing}) \in Nat
          /\ Cardinality(Eager \ {Landing}) \in Nat
      BY <2>3, <2>4, FS_CardinalityType
    <2>6. HiddenCap \in Nat /\ Cardinality(Eager \ {Landing}) <= HiddenCap
      BY PageAssumption
    <2>7. HostInv
      BY <1>0, <1>2, <1>4, <2>1
    <2> QED
      BY <1>4, <2>4, <2>5, <2>6, <2>7 DEF HiddenBounded
  <1> QED
    BY <1>3, <1>4 DEF Init

\* Every step keeps the types and the bound, and releases what it unmounts.
LEMMA StepHost ==
  ASSUME HostInv, HiddenBounded, [Next]_vars
  PROVE  HostInv' /\ HiddenBounded' /\ (UNCHANGED vars \/ Released)
  <1> USE DEF HostInv
  <1>0. ASSUME UNCHANGED <<active, mounted>> PROVE HiddenBounded' /\ Released
    BY <1>0 DEF HiddenBounded, Released
  <1>1. CASE InstallRuntime
    <2>1. HostInv'
      BY <1>1 DEF InstallRuntime
    <2> QED
      BY <1>0, <1>1, <2>1 DEF InstallRuntime
  <1>2. ASSUME NEW p \in Pages, Show(p), UNCHANGED <<prewarm, installed>>, closing' \subseteq Closable
        PROVE  HostInv' /\ HiddenBounded' /\ Released
    <2>1. /\ Bounded /\ Released
          /\ active' \in Pages /\ recent' \in Seq(Pages) /\ frame' \in Pages \cup {NoPage}
          /\ IsLease([queued |-> queued', leased |-> leased'])
      BY <1>2, ShowKeeps
    <2>2. HostInv'
      BY <1>2, <2>1 DEF Bounded, IsLease
    <2> QED
      BY <2>1, <2>2 DEF Bounded, HiddenBounded
  <1>3. ASSUME NEW p \in Pages, Navigate(p) PROVE HostInv' /\ HiddenBounded' /\ Released
    BY <1>2, <1>3 DEF Navigate
  <1>4. ASSUME NEW p \in Closable, ClosePage(p) PROVE HostInv' /\ HiddenBounded' /\ Released
    <2>1. Exit \in Pages /\ closing' \subseteq Closable /\ UNCHANGED <<prewarm, installed>>
      BY <1>4, PageAssumption DEF ClosePage
    <2>2. CASE Show(Exit)
      BY <1>2, <2>1, <2>2
    <2>3. CASE UNCHANGED <<active, mounted, recent, frame, queued, leased>>
      BY <1>0, <2>1, <2>3
    <2> QED
      BY <1>4, <2>2, <2>3 DEF ClosePage
  <1>5. ASSUME NEW p \in Closable, CloseFrame(p) PROVE HostInv' /\ HiddenBounded' /\ Released
    <2>1. HostInv'
      BY <1>5 DEF CloseFrame, SetLeases, Release, Leases
    <2> QED
      BY <1>0, <1>5, <2>1 DEF CloseFrame
  <1>6. ASSUME NEW p \in Pages, NEW l, IsLease(l), CommitMounted(Append(mounted, p), l),
               UNCHANGED <<active, recent, closing, installed>>,
               prewarm' \in [started : BOOLEAN, left : Seq(Pages)]
        PROVE  HostInv' /\ HiddenBounded' /\ Released
    <2> DEFINE m == Append(mounted, p)
    <2>1. m \in Seq(Pages) /\ ToSet(mounted) \subseteq ToSet(m)
      BY AppendMembers
    <2> HIDE DEF m
    <2>2. /\ Bounded /\ Released
          /\ frame' \in Pages \cup {NoPage} /\ IsLease([queued |-> queued', leased |-> leased'])
      <3>1. CommitMounted(m, l)
        BY <1>6 DEF m
      <3>2. HostInv
        OBVIOUS
      <3> HIDE DEF HostInv
      <3> QED
        BY <1>6, <2>1, <3>1, <3>2, CommitKeeps
    <2>3. HostInv'
      BY <1>6, <2>2 DEF Bounded, IsLease
    <2> QED
      BY <1>6, <2>2, <2>3 DEF Bounded, HiddenBounded
  <1>7. IsLease(Leases)
    BY DEF IsLease, Leases
  <1>8. CASE MountFrame
    BY <1>6, <1>7, <1>8 DEF MountFrame
  <1>9. CASE PrewarmStart
    <2>1. HostInv'
      BY <1>9, PageAssumption DEF PrewarmStart, lease
    <2> QED
      BY <1>0, <1>9, <2>1 DEF PrewarmStart
  <1>10. CASE PrewarmNext
    <2> DEFINE p == Head(prewarm.left)
               l == Acquire(Leases, p)
    <2>1. prewarm.left \in Seq(Pages) /\ prewarm.left # <<>>
      BY <1>10 DEF PrewarmNext
    <2>2. p \in Pages /\ Tail(prewarm.left) \in Seq(Pages)
      BY <2>1
    <2>3. prewarm' \in [started : BOOLEAN, left : Seq(Pages)]
      BY <1>10, <2>2 DEF PrewarmNext
    <2>4. /\ UNCHANGED <<active, recent, closing, installed>>
          /\ \/ SetLeases(l) /\ UNCHANGED <<mounted, frame>>
             \/ CommitMounted(Append(mounted, p), l)
      BY <1>10 DEF PrewarmNext
    <2> HIDE DEF p
    <2>5. IsLease(l)
      BY <1>7, <2>2, LeaseSteps
    <2> HIDE DEF l
    <2>6. CASE SetLeases(l) /\ UNCHANGED <<mounted, frame>>
      <3>1. HostInv'
        BY <2>3, <2>4, <2>5, <2>6 DEF SetLeases, IsLease
      <3> QED
        BY <1>0, <2>4, <2>6, <3>1
    <2>7. CASE CommitMounted(Append(mounted, p), l)
      BY <1>6, <2>2, <2>3, <2>4, <2>5, <2>7
    <2> QED
      BY <2>4, <2>6, <2>7
  <1>11. CASE NavigateUnregistered
    <2>1. HostInv'
      BY <1>11 DEF NavigateUnregistered, SetLeases, Release, Leases
    <2>2. HiddenBounded' /\ Released
      BY <1>11 DEF NavigateUnregistered, HiddenBounded, Released
    <2> QED
      BY <2>1, <2>2
  <1>12. CASE UNCHANGED vars
    BY <1>12 DEF vars, HiddenBounded
  <1> HIDE DEF HostInv
  <1> QED
    BY <1>1, <1>3, <1>4, <1>5, <1>8, <1>9, <1>10, <1>11, <1>12 DEF Next

-----------------------------------------------------------------------------
(* The theorems.                                                             *)

\* While a registered page is active at most PAGE_HOST_LRU_CAP pages are mounted
\* and hidden, for any registry of pages, any keepAlive and any interleaving of
\* navigation, closes, mounts, prewarming and the install of the runtime
\* (PageHost.tsx:234-269).  The page a navigation leaves is hidden from that
\* commit on, so the cap has to count it there; on a route that is not registered
\* any number may be mounted, and the commit that leaves it has to take out all
\* that are too many, not one.
THEOREM HiddenIsBounded == Spec => []HiddenBounded
  <1>1. Init => HostInv /\ HiddenBounded
    BY InitHost
  <1>2. HostInv /\ HiddenBounded /\ [Next]_vars => HostInv' /\ HiddenBounded'
    BY StepHost
  <1> QED
    BY <1>1, <1>2, PTL DEF Spec

\* A page that any effect unmounts holds no lease after the commit, queued or
\* granted (PageHost.tsx:199-232, 252-256; runtime.ts:209-212).  It rests on
\* the invariant that a runtime that is not installed has granted no lease: a
\* release before the install clears the queue only.
THEOREM EvictionReleases == Spec => EvictedIsReleased
  <1>1. Init => HostInv /\ HiddenBounded
    BY InitHost
  <1>2. HostInv /\ HiddenBounded /\ [Next]_vars => HostInv' /\ HiddenBounded'
    BY StepHost
  <1>3. HostInv /\ HiddenBounded /\ [Next]_vars
          => [\A p \in ToSet(mounted) \ ToSet(mounted') : p \notin queued' \cup leased']_vars
    BY StepHost DEF Released
  <1> QED
    BY <1>1, <1>2, <1>3, PTL DEF Spec, EvictedIsReleased
=============================================================================
