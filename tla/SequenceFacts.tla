--------------------------- MODULE SequenceFacts ---------------------------
(***************************************************************************)
(* Facts about lists that the proofs of the components share: what         *)
(* Keeping returns, for lists of every length.  The induction over the     *)
(* length is an argument by least counterexample.                          *)
(***************************************************************************)
EXTENDS Lists, WellFoundedInduction, TLAPS

\* A set of naturals that is not empty has a least element.
LEMMA LeastElement ==
    ASSUME NEW S \in SUBSET Nat, S # {}
    PROVE  \E n \in S : \A m \in S : n <= m
<1> DEFINE R == OpToRel(<, Nat)
<1>1. \A m, n \in Nat : m < n => <<m, n>> \in R
  BY Zenon DEF OpToRel
<1>2. IsWellFoundedOn(R, Nat) BY NatLessThanWellFounded, Zenon
<1> HIDE DEF R
<1>3. PICK n \in S : \A m \in S : ~ (<<m, n>> \in R)
  BY <1>2, WFMin, Zenon
<1>4. ASSUME NEW m \in S PROVE n <= m
  <2>1. n \in Nat /\ m \in Nat OBVIOUS
  <2>2. ~ (<<m, n>> \in R) BY <1>3
  <2>3. ~ (m < n) BY <1>1, <2>1, <2>2
  <2> QED BY <2>1, <2>3
<1> QED BY <1>4

\* The recursion in Keeping, as an equation of the function it defines.
KeptFrom(f, s, places) ==
    [i \in 0..Len(s) |->
        IF i = 0 THEN <<>> ELSE IF i \in places THEN Append(f[i - 1], s[i]) ELSE f[i - 1]]

\* The function that Keeping chooses exists.
LEMMA KeptExists ==
    ASSUME NEW s, NEW places, Len(s) \in Nat
    PROVE  \E f : f = KeptFrom(f, s, places)
<1> DEFINE Grow(f, i) == IF i \in places THEN Append(f[i - 1], s[i]) ELSE f[i - 1]
           Good(n) == \E f : f = [i \in 0..n |-> IF i = 0 THEN <<>> ELSE Grow(f, i)]
           Bad == {n \in Nat : ~Good(n)}
<1>1. SUFFICES Bad = {}
  <2>1. Good(Len(s)) BY <1>1
  <2> QED BY <2>1, Zenon DEF KeptFrom
<1>2. SUFFICES ASSUME Bad # {} PROVE FALSE
  OBVIOUS
<1>3. PICK n \in Bad : \A m \in Bad : n <= m
  <2>1. Bad \in SUBSET Nat OBVIOUS
  <2> HIDE DEF Bad
  <2> QED BY <1>2, <2>1, LeastElement
<1>4. n \in Nat /\ ~Good(n)
  BY Zenon
<1>5. CASE n = 0
  <2> DEFINE f == [i \in 0..0 |-> <<>>]
  <2>1. f = [i \in 0..0 |-> IF i = 0 THEN <<>> ELSE Grow(f, i)] OBVIOUS
  <2> QED BY <1>4, <1>5, <2>1, Zenon
<1>6. CASE n # 0
  <2>1. n - 1 \in Nat /\ ~(n <= n - 1) BY <1>4, <1>6
  <2>2. Good(n - 1) BY <1>3, <2>1, Zenon
  <2>3. PICK f : f = [i \in 0..(n - 1) |-> IF i = 0 THEN <<>> ELSE Grow(f, i)] BY <2>2, Zenon
  <2> DEFINE g == [i \in 0..n |-> IF i = n THEN Grow(f, n) ELSE f[i]]
  <2>4. ASSUME NEW i \in 0..n PROVE g[i] = IF i = 0 THEN <<>> ELSE Grow(g, i)
    <3>1. CASE i = n
      <4>1. n - 1 \in 0..n /\ n - 1 # n BY <1>4, <2>1
      <4>2. g[n - 1] = f[n - 1] BY <4>1
      <4>3. g[i] = Grow(f, n) BY <3>1
      <4> HIDE DEF g
      <4> QED BY <1>6, <3>1, <4>2, <4>3
    <3>2. CASE i # n
      <4>1. i \in 0..(n - 1) BY <1>4, <3>2
      <4>2. g[i] = f[i] BY <3>2
      <4>3. f[i] = IF i = 0 THEN <<>> ELSE Grow(f, i) BY <2>3, <4>1, Zenon
      <4>4. i # 0 => i - 1 \in 0..n /\ i - 1 # n BY <1>4, <4>1
      <4>5. i # 0 => g[i - 1] = f[i - 1] BY <4>4
      <4> HIDE DEF g
      <4> QED BY <4>2, <4>3, <4>5
    <3> QED BY <3>1, <3>2
  <2>5. g = [i \in 0..n |-> IF i = 0 THEN <<>> ELSE Grow(g, i)] BY <2>4
  <2> QED BY <1>4, <2>5, Zenon
<1> QED BY <1>5, <1>6

LEMMA RangeAppended ==
    ASSUME NEW T, NEW q \in Seq(T), NEW e \in T
    PROVE  Range(Append(q, e)) = Range(q) \cup {e}
<1> DEFINE n == Len(q)
           r == Append(q, e)
<1>1. n \in Nat /\ DOMAIN q = 1..n OBVIOUS
<1>2. /\ DOMAIN r = 1..(n + 1) /\ r[n + 1] = e
      /\ \A i \in 1..n : r[i] = q[i]
  OBVIOUS
<1> HIDE DEF r, n
<1>3. 1..(n + 1) = (1..n) \cup {n + 1} BY <1>1
<1>4. Range(r) = {r[i] : i \in (1..n) \cup {n + 1}} BY <1>2, <1>3, Zenon DEF Range
<1>5. Range(q) = {q[i] : i \in 1..n} BY <1>1, Zenon DEF Range
<1> QED BY <1>2, <1>4, <1>5, Zenon DEF r

\* What is kept of a list is a list of the elements at the places that stay.
LEMMA KeepingMembers ==
    ASSUME NEW T, NEW s \in Seq(T), NEW places, places \subseteq DOMAIN s
    PROVE  /\ Keeping(s, places) \in Seq(T)
           /\ Range(Keeping(s, places)) = {s[i] : i \in places}
<1> DEFINE F == CHOOSE f : f = KeptFrom(f, s, places)
           Of(n) == {s[i] : i \in places \cap (1..n)}
           Bad == {n \in 0..Len(s) : ~(F[n] \in Seq(T) /\ Range(F[n]) = Of(n))}
<1>0. Len(s) \in Nat /\ DOMAIN s = 1..Len(s)
  OBVIOUS
<1>1. F = KeptFrom(F, s, places)
  BY <1>0, KeptExists
<1>2. Keeping(s, places) = F[Len(s)]
  BY DEF Keeping, KeptFrom
<1> HIDE DEF F
<1>3. Bad = {}
  <2>1. SUFFICES ASSUME Bad # {} PROVE FALSE BY Zenon
  <2>2. PICK n \in Bad : \A m \in Bad : n <= m
    <3>1. Bad \in SUBSET Nat BY <1>0
    <3> HIDE DEF Bad
    <3> QED BY <2>1, <3>1, LeastElement
  <2>3. n \in 0..Len(s) OBVIOUS
  <2>4. CASE n = 0
    <3>1. F[0] = <<>> BY <1>1, <2>3, <2>4 DEF KeptFrom
    <3>2. Range(<<>>) = {} BY DEF Range
    <3>3. 1..0 = {} OBVIOUS
    <3>4. Of(0) = {}
      <4>1. places \cap (1..0) = {} BY <3>3
      <4> QED BY <4>1
    <3>5. <<>> \in Seq(T) OBVIOUS
    <3> QED BY <2>4, <3>1, <3>2, <3>4, <3>5, Zenon
  <2>5. CASE n # 0
    <3>1. n - 1 \in 0..Len(s) /\ ~(n <= n - 1) /\ n \in 1..Len(s) BY <1>0, <2>3, <2>5
    <3>2. F[n - 1] \in Seq(T) /\ Range(F[n - 1]) = Of(n - 1) BY <2>2, <3>1, Zenon
    <3>3. F[n] = IF n \in places THEN Append(F[n - 1], s[n]) ELSE F[n - 1] BY <1>1, <2>3, <2>5, Zenon DEF KeptFrom
    <3>4. s[n] \in T BY <1>0, <3>1
    <3>5. 1..n = (1..(n - 1)) \cup {n} BY <1>0, <3>1
    <3>6. CASE n \in places
      <4>1. F[n] = Append(F[n - 1], s[n]) BY <3>3, <3>6
      <4>2. F[n] \in Seq(T) BY <3>2, <3>4, <4>1
      <4>3. Range(F[n]) = Range(F[n - 1]) \cup {s[n]}
        BY <3>2, <3>4, <4>1, RangeAppended
      <4>4. Of(n) = Of(n - 1) \cup {s[n]} BY <3>5, <3>6
      <4> QED BY <2>2, <3>2, <4>2, <4>3, <4>4, Zenon
    <3>7. CASE n \notin places
      <4>1. Of(n) = Of(n - 1) BY <3>5, <3>7
      <4> QED BY <2>2, <3>2, <3>3, <3>7, <4>1
    <3> QED BY <3>6, <3>7
  <2> QED BY <2>4, <2>5
<1>4. F[Len(s)] \in Seq(T) /\ Range(F[Len(s)]) = Of(Len(s))
  <2>1. Len(s) \in 0..Len(s) BY <1>0
  <2> QED BY <1>3, <2>1, Zenon
<1>5. Of(Len(s)) = {s[i] : i \in places}
  <2>1. places \cap (1..Len(s)) = places BY <1>0
  <2> QED BY <2>1
<1> QED BY <1>2, <1>4, <1>5
-----------------------------------------------------------------------------
(* Joining lists.                                                          *)

\* The recursion in Joined, as an equation of the function it defines.
JoinedFrom(f, lists) == [i \in 0..Len(lists) |-> IF i = 0 THEN <<>> ELSE f[i - 1] \o lists[i]]

\* The function that Joined chooses exists.
LEMMA JoinedExists ==
    ASSUME NEW lists, Len(lists) \in Nat
    PROVE  \E f : f = JoinedFrom(f, lists)
<1> DEFINE Grow(f, i) == f[i - 1] \o lists[i]
           Good(n) == \E f : f = [i \in 0..n |-> IF i = 0 THEN <<>> ELSE Grow(f, i)]
           Bad == {n \in Nat : ~Good(n)}
<1>1. SUFFICES Bad = {}
  <2>1. Good(Len(lists)) BY <1>1, Zenon
  <2> QED BY <2>1 DEF JoinedFrom
<1>2. SUFFICES ASSUME Bad # {} PROVE FALSE
  BY Zenon
<1>3. PICK n \in Bad : \A m \in Bad : n <= m
  <2>1. Bad \in SUBSET Nat BY Zenon
  <2> HIDE DEF Bad
  <2> QED BY <1>2, <2>1, LeastElement
<1>4. n \in Nat /\ ~Good(n)
  BY Zenon
<1>5. CASE n = 0
  <2> DEFINE f == [i \in 0..0 |-> <<>>]
  <2>1. f = [i \in 0..0 |-> IF i = 0 THEN <<>> ELSE Grow(f, i)] OBVIOUS
  <2> QED BY <1>4, <1>5, <2>1, Zenon
<1>6. CASE n # 0
  <2>1. n - 1 \in Nat /\ ~(n <= n - 1) BY <1>4, <1>6
  <2>2. Good(n - 1) BY <1>3, <2>1, Zenon
  <2>3. PICK f : f = [i \in 0..(n - 1) |-> IF i = 0 THEN <<>> ELSE Grow(f, i)] BY <2>2, Zenon
  <2> DEFINE g == [i \in 0..n |-> IF i = n THEN Grow(f, n) ELSE f[i]]
  <2>4. ASSUME NEW i \in 0..n PROVE g[i] = IF i = 0 THEN <<>> ELSE Grow(g, i)
    <3>1. CASE i = n
      <4>1. n - 1 \in 0..n /\ n - 1 # n BY <1>4, <2>1
      <4>2. g[n - 1] = f[n - 1] BY <4>1
      <4>3. g[i] = Grow(f, n) BY <3>1, Zenon
      <4> HIDE DEF g
      <4> QED BY <1>6, <3>1, <4>2, <4>3, Zenon
    <3>2. CASE i # n
      <4>1. i \in 0..(n - 1) BY <1>4, <3>2
      <4>2. g[i] = f[i] BY <3>2
      <4>3. f[i] = IF i = 0 THEN <<>> ELSE Grow(f, i) BY <2>3, <4>1
      <4>4. i # 0 => i - 1 \in 0..n /\ i - 1 # n BY <1>4, <4>1
      <4>5. i # 0 => g[i - 1] = f[i - 1] BY <4>4
      <4> HIDE DEF g
      <4> QED BY <4>2, <4>3, <4>5
    <3> QED BY <3>1, <3>2
  <2>5. g = [i \in 0..n |-> IF i = 0 THEN <<>> ELSE Grow(g, i)] BY <2>4, Zenon
  <2> QED BY <1>4, <2>5, Zenon
<1> QED BY <1>5, <1>6

LEMMA RangeJoined ==
    ASSUME NEW T, NEW p \in Seq(T), NEW q \in Seq(T)
    PROVE  Range(p \o q) = Range(p) \cup Range(q)
<1> DEFINE m == Len(p)
           n == Len(q)
           r == p \o q
<1>1. m \in Nat /\ DOMAIN p = 1..m /\ n \in Nat /\ DOMAIN q = 1..n OBVIOUS
<1>2. /\ DOMAIN r = 1..(m + n)
      /\ \A i \in 1..m : r[i] = p[i]
      /\ \A i \in 1..n : r[m + i] = q[i]
  OBVIOUS
<1> HIDE DEF r, m, n
<1>3. ASSUME NEW i \in 1..(m + n) PROVE r[i] \in Range(p) \cup Range(q)
  <2>1. CASE i <= m
    <3>1. i \in 1..m BY <1>1, <2>1
    <3> QED BY <1>1, <1>2, <3>1 DEF Range
  <2>2. CASE ~(i <= m)
    <3>1. i - m \in 1..n /\ i = m + (i - m) BY <1>1, <2>2
    <3> QED BY <1>1, <1>2, <3>1, Zenon DEF Range
  <2> QED BY <2>1, <2>2
<1>4. ASSUME NEW i \in 1..m PROVE p[i] \in Range(r)
  <2>1. i \in 1..(m + n) BY <1>1
  <2> QED BY <1>2, <2>1 DEF Range
<1>5. ASSUME NEW i \in 1..n PROVE q[i] \in Range(r)
  <2>1. m + i \in 1..(m + n) BY <1>1
  <2> QED BY <1>2, <2>1 DEF Range
<1>6. Range(r) \subseteq Range(p) \cup Range(q) BY <1>2, <1>3 DEF Range
<1>7. Range(p) \subseteq Range(r) /\ Range(q) \subseteq Range(r)
  BY <1>1, <1>4, <1>5 DEF Range
<1> QED BY <1>6, <1>7 DEF r

\* What several lists are joined to is a list of their elements.
LEMMA JoinedMembers ==
    ASSUME NEW T, NEW lists \in Seq(Seq(T))
    PROVE  /\ Joined(lists) \in Seq(T)
           /\ Range(Joined(lists)) = UNION {Range(lists[i]) : i \in DOMAIN lists}
<1> DEFINE F == CHOOSE f : f = JoinedFrom(f, lists)
           Of(n) == UNION {Range(lists[i]) : i \in 1..n}
           Bad == {n \in 0..Len(lists) : ~(F[n] \in Seq(T) /\ Range(F[n]) = Of(n))}
<1>0. Len(lists) \in Nat /\ DOMAIN lists = 1..Len(lists)
  OBVIOUS
<1>1. F = JoinedFrom(F, lists)
  BY <1>0, JoinedExists
<1>2. Joined(lists) = F[Len(lists)]
  BY DEF Joined, Folding, JoinedFrom
<1> HIDE DEF F
<1>3. Bad = {}
  <2>1. SUFFICES ASSUME Bad # {} PROVE FALSE BY Zenon
  <2>2. PICK n \in Bad : \A m \in Bad : n <= m
    <3>1. Bad \in SUBSET Nat BY <1>0
    <3> HIDE DEF Bad
    <3> QED BY <2>1, <3>1, LeastElement, Zenon
  <2>3. n \in 0..Len(lists) OBVIOUS
  <2>4. CASE n = 0
    <3>1. F[0] = <<>> BY <1>1, <2>3, <2>4 DEF JoinedFrom
    <3>2. Range(<<>>) = {} BY DEF Range
    <3>3. 1..0 = {} OBVIOUS
    <3>4. Of(0) = {} BY <3>3
    <3>5. <<>> \in Seq(T) OBVIOUS
    <3> QED BY <2>4, <3>1, <3>2, <3>4, <3>5, Zenon
  <2>5. CASE n # 0
    <3>1. n - 1 \in 0..Len(lists) /\ ~(n <= n - 1) /\ n \in 1..Len(lists) BY <1>0, <2>3, <2>5
    <3>2. F[n - 1] \in Seq(T) /\ Range(F[n - 1]) = Of(n - 1) BY <2>2, <3>1, Zenon
    <3>3. F[n] = F[n - 1] \o lists[n] BY <1>1, <2>3, <2>5, Zenon DEF JoinedFrom
    <3>4. lists[n] \in Seq(T) BY <1>0, <3>1
    <3>5. 1..n = (1..(n - 1)) \cup {n} BY <1>0, <3>1
    <3>6. F[n] \in Seq(T) BY <3>2, <3>3, <3>4
    <3>7. Range(F[n]) = Range(F[n - 1]) \cup Range(lists[n]) BY <3>2, <3>3, <3>4, RangeJoined
    <3>8. Of(n) = Of(n - 1) \cup Range(lists[n]) BY <3>5
    <3> QED BY <2>2, <3>2, <3>6, <3>7, <3>8, Zenon
  <2> QED BY <2>4, <2>5
<1>4. F[Len(lists)] \in Seq(T) /\ Range(F[Len(lists)]) = Of(Len(lists))
  <2>1. Len(lists) \in 0..Len(lists) BY <1>0
  <2> QED BY <1>3, <2>1, Zenon
<1> QED BY <1>0, <1>2, <1>4

\* The same for lists of whatever they hold.
LEMMA JoinedLists ==
    ASSUME NEW n \in Nat, NEW lists, lists = [i \in 1..n |-> lists[i]],
           \A i \in 1..n : lists[i] \in Seq(Range(lists[i]))
    PROVE  /\ Joined(lists) \in Seq(Range(Joined(lists)))
           /\ Range(Joined(lists)) = UNION {Range(lists[i]) : i \in 1..n}
<1> DEFINE T == UNION {Range(lists[i]) : i \in 1..n}
<1>1. ASSUME NEW i \in 1..n PROVE lists[i] \in Seq(T)
  <2>1. lists[i] \in Seq(Range(lists[i])) /\ Range(lists[i]) \subseteq T OBVIOUS
  <2> HIDE DEF T
  <2> QED BY <2>1
<1> HIDE DEF T
<1>2. lists \in Seq(Seq(T)) /\ DOMAIN lists = 1..n BY <1>1
<1>3. Joined(lists) \in Seq(T) /\ Range(Joined(lists)) = UNION {Range(lists[i]) : i \in 1..n}
  BY <1>2, JoinedMembers, Zenon
<1>4. Range(Joined(lists)) = T BY <1>3, Zenon DEF T
<1> QED BY <1>3, <1>4
=============================================================================
