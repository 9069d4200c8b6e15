---------------------------- MODULE LayersProofs ----------------------------
(***************************************************************************)
(* The layers, for every screen, every size and place of the windows and   *)
(* every shape of the cursor: the mouse stays on top, one window at most   *)
(* looks active, and the screen shows the stack although every operation   *)
(* paints only a part of it.                                               *)
(***************************************************************************)
EXTENDS Layers, NaturalsInduction, WellFoundedInduction, SequenceTheorems, TLAPS

-----------------------------------------------------------------------------
(* Numbers and sequences.                                                  *)

\* A bounded set of numbers has a maximum.
LEMMA MaxOfBounded ==
  ASSUME NEW n \in Nat, NEW S \in SUBSET (0 .. n), S # {}
  PROVE  Max(S) \in S /\ \A y \in S : y <= Max(S)
<1> DEFINE T == {k \in 0 .. n : n - k \in S}
<1>1. T \subseteq Nat /\ T # {}
  <2>1. PICK y \in S : TRUE
    OBVIOUS
  <2>2. n - y \in 0 .. n /\ n - (n - y) = y
    BY <2>1
  <2>3. n - y \in T
    BY <2>2
  <2>4. T \subseteq Nat
    OBVIOUS
  <2> QED BY <2>3, <2>4
<1>2. \E x \in T : \A y \in T : ~(<<y, x>> \in OpToRel(<, Nat))
  BY <1>1, WFMin, NatLessThanWellFounded
<1>3. PICK x \in T : \A y \in T : ~(<<y, x>> \in OpToRel(<, Nat))
  BY <1>2
<1>4. ASSUME NEW y \in S PROVE y <= n - x
  <2>1. n - y \in T /\ n - y \in Nat /\ x \in Nat
    <3>1. n - y \in 0 .. n /\ n - (n - y) = y
      OBVIOUS
    <3> QED BY <3>1, <1>1
  <2>2. n - y < x => <<n - y, x>> \in OpToRel(<, Nat)
    BY <2>1 DEF OpToRel
  <2>3. ~(n - y < x)
    <3> HIDE DEF T
    <3> QED BY <1>3, <2>1, <2>2
  <2> QED BY <2>1, <2>3
<1>5. n - x \in S /\ \A y \in S : n - x >= y
  BY <1>4
<1>6. Max(S) \in S /\ \A y \in S : Max(S) >= y
  BY <1>5 DEF Max
<1>7. ASSUME NEW y \in S PROVE y <= Max(S)
  BY <1>6
<1> QED BY <1>6, <1>7

\* What stands where after an insertion.
LEMMA InsertAtElements ==
  ASSUME NEW S, NEW s \in Seq(S), NEW at \in 1 .. Len(s) + 1, NEW e \in S
  PROVE  /\ InsertAt(s, at, e) \in Seq(S)
         /\ Len(InsertAt(s, at, e)) = Len(s) + 1
         /\ \A i \in 1 .. Len(s) + 1 :
              InsertAt(s, at, e)[i] = IF i < at THEN s[i] ELSE IF i = at THEN e ELSE s[i - 1]
<1> DEFINE a == SubSeq(s, 1, at - 1)
           b == SubSeq(s, at, Len(s))
<1>0. Len(s) \in Nat /\ at \in Int /\ at - 1 \in Int /\ \A i \in 1 .. Len(s) : s[i] \in S
  BY LenProperties
<1>1. /\ a \in Seq(S) /\ Len(a) = at - 1
      /\ \A i \in 1 .. at - 1 : a[i] = s[i]
  <2>1. \A i \in 1 .. at - 1 : s[i] \in S
    BY <1>0
  <2>2. /\ a \in Seq(S) /\ Len(a) = (IF 1 <= at - 1 THEN (at - 1) - 1 + 1 ELSE 0)
        /\ \A i \in 1 .. (at - 1) - 1 + 1 : a[i] = s[1 + i - 1]
    BY <1>0, <2>1, SubSeqProperties
  <2> QED BY <1>0, <2>2
<1>2. /\ b \in Seq(S) /\ Len(b) = Len(s) - at + 1
      /\ \A i \in 1 .. Len(s) - at + 1 : b[i] = s[at + i - 1]
  <2>1. \A i \in at .. Len(s) : s[i] \in S
    BY <1>0
  <2>2. /\ b \in Seq(S) /\ Len(b) = (IF at <= Len(s) THEN Len(s) - at + 1 ELSE 0)
        /\ \A i \in 1 .. Len(s) - at + 1 : b[i] = s[at + i - 1]
    BY <1>0, <2>1, SubSeqProperties
  <2> QED BY <1>0, <2>2
<1>3. InsertAt(s, at, e) = a \o <<e>> \o b
  BY DEF InsertAt
<1> HIDE DEF a, b
<1> DEFINE c == a \o <<e>>
<1>4. /\ c \in Seq(S) /\ Len(c) = at
      /\ \A i \in 1 .. at : c[i] = IF i < at THEN s[i] ELSE e
  <2>1. <<e>> \in Seq(S) /\ Len(<<e>>) = 1 /\ <<e>>[1] = e
    OBVIOUS
  <2>2. /\ c \in Seq(S) /\ Len(c) = Len(a) + 1
        /\ \A i \in 1 .. Len(a) + 1 : c[i] = IF i <= Len(a) THEN a[i] ELSE <<e>>[i - Len(a)]
    BY <1>1, <2>1, ConcatProperties
  <2> QED BY <1>0, <1>1, <2>1, <2>2
<1> HIDE DEF c
<1>5. /\ c \o b \in Seq(S) /\ Len(c \o b) = Len(c) + Len(b)
      /\ \A i \in 1 .. Len(c) + Len(b) : (c \o b)[i] = IF i <= Len(c) THEN c[i] ELSE b[i - Len(c)]
  BY <1>2, <1>4, ConcatProperties
<1>6. InsertAt(s, at, e) = c \o b
  BY <1>3 DEF c
<1>7. Len(InsertAt(s, at, e)) = Len(s) + 1
  BY <1>0, <1>2, <1>4, <1>5, <1>6
<1>8. ASSUME NEW i \in 1 .. Len(s) + 1
      PROVE  InsertAt(s, at, e)[i] = IF i < at THEN s[i] ELSE IF i = at THEN e ELSE s[i - 1]
  <2>1. CASE i <= at
    BY <1>0, <1>2, <1>4, <1>5, <1>6, <2>1
  <2>2. CASE i > at
    <3>1. i - at \in 1 .. Len(s) - at + 1 /\ at + (i - at) - 1 = i - 1
      BY <1>0, <2>2
    <3>2. b[i - at] = s[i - 1]
      BY <1>2, <3>1
    <3> QED BY <1>0, <1>2, <1>4, <1>5, <1>6, <2>2, <3>2
  <2> QED BY <1>0, <2>1, <2>2
<1> QED BY <1>5, <1>6, <1>7, <1>8

\* What stands where after a removal.
LEMMA RemoveAtElements ==
  ASSUME NEW S, NEW s \in Seq(S), NEW at \in 1 .. Len(s)
  PROVE  /\ RemoveAt(s, at) \in Seq(S)
         /\ Len(RemoveAt(s, at)) = Len(s) - 1
         /\ \A i \in 1 .. Len(s) - 1 : RemoveAt(s, at)[i] = IF i < at THEN s[i] ELSE s[i + 1]
<1> DEFINE a == SubSeq(s, 1, at - 1)
           b == SubSeq(s, at + 1, Len(s))
<1>0. Len(s) \in Nat /\ at \in Int /\ at - 1 \in Int /\ \A i \in 1 .. Len(s) : s[i] \in S
  BY LenProperties
<1>1. /\ a \in Seq(S) /\ Len(a) = at - 1
      /\ \A i \in 1 .. at - 1 : a[i] = s[i]
  <2>1. \A i \in 1 .. at - 1 : s[i] \in S
    BY <1>0
  <2>2. /\ a \in Seq(S) /\ Len(a) = (IF 1 <= at - 1 THEN (at - 1) - 1 + 1 ELSE 0)
        /\ \A i \in 1 .. (at - 1) - 1 + 1 : a[i] = s[1 + i - 1]
    BY <1>0, <2>1, SubSeqProperties
  <2> QED BY <1>0, <2>2
<1>2. /\ b \in Seq(S) /\ Len(b) = Len(s) - at
      /\ \A i \in 1 .. Len(s) - at : b[i] = s[at + i]
  <2>1. \A i \in at + 1 .. Len(s) : s[i] \in S
    BY <1>0
  <2>2. /\ b \in Seq(S) /\ Len(b) = (IF at + 1 <= Len(s) THEN Len(s) - (at + 1) + 1 ELSE 0)
        /\ \A i \in 1 .. Len(s) - (at + 1) + 1 : b[i] = s[(at + 1) + i - 1]
    BY <1>0, <2>1, SubSeqProperties
  <2> QED BY <1>0, <2>2
<1>3. RemoveAt(s, at) = a \o b
  BY DEF RemoveAt
<1> HIDE DEF a, b
<1>4. /\ a \o b \in Seq(S) /\ Len(a \o b) = Len(a) + Len(b)
      /\ \A i \in 1 .. Len(a) + Len(b) : (a \o b)[i] = IF i <= Len(a) THEN a[i] ELSE b[i - Len(a)]
  BY <1>1, <1>2, ConcatProperties
<1>5. ASSUME NEW i \in 1 .. Len(s) - 1
      PROVE  RemoveAt(s, at)[i] = IF i < at THEN s[i] ELSE s[i + 1]
  <2>1. CASE i < at
    BY <1>0, <1>1, <1>2, <1>3, <1>4, <2>1
  <2>2. CASE i >= at
    <3>1. i - (at - 1) \in 1 .. Len(s) - at /\ at + (i - (at - 1)) = i + 1
      BY <1>0, <2>2
    <3>2. b[i - (at - 1)] = s[i + 1]
      BY <1>2, <3>1
    <3> QED BY <1>0, <1>1, <1>2, <1>3, <1>4, <2>2, <3>2
  <2> QED BY <1>0, <2>1, <2>2
<1> QED BY <1>0, <1>1, <1>2, <1>3, <1>4, <1>5

-----------------------------------------------------------------------------
(* The stack.                                                              *)

\* No layer twice, the background below everything.
StackOK(s) ==
  /\ s \in Seq(Layer) /\ IsInjective(s)
  /\ Len(s) >= 3 /\ s[1] = Background

\* Nothing is above the mouse.
NothingAboveMouse(s) == \A i \in DOMAIN s : s[i] = Mouse => i = Len(s)

\* The layers other than id are above one another as before.
SameOrder(s, t, id) ==
  \A i \in DOMAIN s : s[i] # id =>
    \E k \in DOMAIN t : /\ t[k] = s[i]
                        /\ \A m \in DOMAIN t : m > k /\ t[m] # id =>
                             \E j \in DOMAIN s : j > i /\ s[j] = t[m]

\* A layer's height is its index.
LEMMA HeightIsIndex ==
  ASSUME NEW s \in Seq(Layer), IsInjective(s), NEW id
  PROVE  /\ \A i \in DOMAIN s : s[i] = id => HeightOf(s, id) = i - 1
         /\ (\A i \in DOMAIN s : s[i] # id) => HeightOf(s, id) = -1
         /\ HeightOf(s, id) < 0 => \A i \in DOMAIN s : s[i] # id
<1>1. DOMAIN s = 1 .. Len(s) /\ Len(s) \in Nat
  BY LenProperties
<1>2. ASSUME NEW i \in DOMAIN s, s[i] = id
      PROVE  HeightOf(s, id) = i - 1
  <2>1. (CHOOSE k \in DOMAIN s : s[k] = id) = i
    BY <1>2 DEF IsInjective
  <2> QED BY <1>2, <2>1 DEF HeightOf
<1>3. (\A i \in DOMAIN s : s[i] # id) => HeightOf(s, id) = -1
  BY DEF HeightOf
<1>4. ASSUME HeightOf(s, id) < 0, NEW i \in DOMAIN s, s[i] = id
      PROVE  FALSE
  <2>1. HeightOf(s, id) = i - 1
    BY <1>2, <1>4
  <2> QED BY <1>1, <1>4, <2>1
<1> QED BY <1>2, <1>3, <1>4

\* A window that is activated ends up below the mouse.
LEMMA RaisedStack ==
  ASSUME NEW s, StackOK(s), Len(s) >= 4, s[Len(s)] = Mouse,
         NEW id \in Layer, id # Mouse, id # Background
  PROVE  LET t == UpDown(s, id, HeightOf(s, Mouse) - 1)
         IN  /\ StackOK(t) /\ Len(t) >= 4 /\ t[Len(t)] = Mouse
             /\ \E k \in DOMAIN t : t[k] = id
             /\ SameOrder(s, t, id)
<1> DEFINE n == Len(s)
           t == UpDown(s, id, HeightOf(s, Mouse) - 1)
<1>s. s \in Seq(Layer) /\ IsInjective(s) /\ DOMAIN s = 1 .. n /\ n = Len(s)
  BY LenProperties DEF StackOK
<1>0. n \in Nat /\ n >= 4 /\ s[1] = Background /\ s[n] = Mouse
  BY <1>s, LenProperties DEF StackOK
<1> HIDE DEF n
<1>1. HeightOf(s, Mouse) = n - 1
  BY <1>0, <1>s, HeightIsIndex
<1>2. \A a, b \in 1 .. n : s[a] = s[b] => a = b
  BY <1>0, <1>s DEF IsInjective
<1>3. CASE HeightOf(s, id) < 0
  <2>1. \A i \in 1 .. n : s[i] # id
    BY <1>s, <1>3, HeightIsIndex
  <2>2. t = InsertAt(s, n - 1, id)
    BY <1>0, <1>1, <1>3, <1>s DEF UpDown
  <2> HIDE DEF t
  <2>3. n - 1 \in 1 .. Len(s) + 1 /\ Len(s) = n
    BY <1>0, <1>s
  <2>4. /\ t \in Seq(Layer) /\ Len(t) = n + 1
        /\ \A i \in 1 .. n + 1 : t[i] = IF i < n - 1 THEN s[i] ELSE IF i = n - 1 THEN id ELSE s[i - 1]
    <3> DEFINE at == n - 1
               u == InsertAt(s, at, id)
    <3>0. at \in 1 .. Len(s) + 1
      BY <2>3
    <3> HIDE DEF at
    <3>1. /\ u \in Seq(Layer) /\ Len(u) = Len(s) + 1
          /\ \A i \in 1 .. Len(s) + 1 :
               u[i] = IF i < at THEN s[i] ELSE IF i = at THEN id ELSE s[i - 1]
      <4>1. s \in Seq(Layer)
        BY <1>s
      <4>2. u \in Seq(Layer)
        BY <3>0, <4>1, InsertAtElements
      <4>3. Len(u) = Len(s) + 1
        BY <3>0, <4>1, InsertAtElements
      <4>4. ASSUME NEW i \in 1 .. Len(s) + 1
            PROVE  u[i] = IF i < at THEN s[i] ELSE IF i = at THEN id ELSE s[i - 1]
        BY <3>0, <4>1, InsertAtElements
      <4> QED BY <4>2, <4>3, <4>4
    <3> HIDE DEF u
    <3>2. t = u
      BY <2>2 DEF u, at
    <3> QED BY <2>3, <3>1, <3>2 DEF at
  <2>5. DOMAIN t = 1 .. n + 1
    BY <2>4, LenProperties
  <2>6. IsInjective(t)
    <3> SUFFICES ASSUME NEW a \in 1 .. n + 1, NEW b \in 1 .. n + 1, t[a] = t[b]
                 PROVE  a = b
      BY <2>5 DEF IsInjective
    <3>1. a # n - 1 /\ b # n - 1 => a = b
      BY <1>0, <1>2, <2>4, SMTT(30)
    <3>2. a = n - 1 <=> b = n - 1
      BY <1>0, <2>1, <2>4
    <3> QED BY <3>1, <3>2
  <2>7. t[1] = Background /\ t[n + 1] = Mouse /\ t[n - 1] = id
    BY <1>0, <2>4
  <2>8. SameOrder(s, t, id)
    <3> SUFFICES ASSUME NEW i \in DOMAIN s, s[i] # id
                 PROVE  \E k \in DOMAIN t :
                          /\ t[k] = s[i]
                          /\ \A m \in DOMAIN t : m > k /\ t[m] # id =>
                               \E j \in DOMAIN s : j > i /\ s[j] = t[m]
      BY DEF SameOrder
    <3>0. i \in 1 .. n /\ DOMAIN s = 1 .. n /\ DOMAIN t = 1 .. n + 1
      BY <1>s, <2>5
    <3> DEFINE k == IF i < n - 1 THEN i ELSE i + 1
    <3>1. k \in 1 .. n + 1 /\ t[k] = s[i]
      BY <1>0, <2>4, <3>0
    <3>2. ASSUME NEW m \in 1 .. n + 1, m > k, t[m] # id
          PROVE  \E j \in 1 .. n : j > i /\ s[j] = t[m]
      <4> DEFINE j == IF m < n - 1 THEN m ELSE m - 1
      <4>1. m # n - 1
        BY <2>7, <3>2
      <4>2. j \in 1 .. n /\ j > i /\ s[j] = t[m]
        BY <1>0, <2>4, <3>0, <3>2, <4>1
      <4> QED BY <4>2
    <3> HIDE DEF k
    <3> QED BY <3>0, <3>1, <3>2
  <2> QED BY <1>0, <2>4, <2>5, <2>6, <2>7, <2>8 DEF StackOK, t
<1>4. CASE ~(HeightOf(s, id) < 0)
  <2>1. PICK p \in 1 .. n : s[p] = id
    BY <1>s, <1>4, HeightIsIndex
  <2>2. HeightOf(s, id) = p - 1 /\ p < n /\ p > 1
    BY <1>0, <1>s, <2>1, HeightIsIndex
  <2> DEFINE h == RemoveAt(s, p)
  <2>3. Hide(s, id) = h
    BY <1>0, <2>1, <2>2 DEF Hide
  <2>4. t = InsertAt(h, n - 1, id)
    <3>1. HeightOf(s, Mouse) - 1 = n - 2 /\ ~(n - 2 < 0) /\ ~(n - 2 > Len(s)) /\ n - 2 # Len(s)
      <4>1. n - 1 - 1 = n - 2 /\ ~(n - 2 < 0) /\ ~(n - 2 > n) /\ n - 2 # n
        BY <1>0
      <4> QED BY <1>1, <1>s, <4>1
    <3>2. t = InsertAt(Hide(s, id), n - 2 + 1, id)
      BY <1>4, <3>1 DEF UpDown
    <3> QED BY <1>0, <2>3, <3>2
  <2> HIDE DEF t
  <2>5. /\ h \in Seq(Layer) /\ Len(h) = n - 1
        /\ \A i \in 1 .. n - 1 : h[i] = IF i < p THEN s[i] ELSE s[i + 1]
    BY <1>s, RemoveAtElements
  <2> HIDE DEF h
  <2>6. n - 1 \in 1 .. Len(h) + 1
    BY <1>0, <2>5
  <2>7. /\ t \in Seq(Layer) /\ Len(t) = n
        /\ \A i \in 1 .. n : t[i] = IF i < n - 1 THEN h[i] ELSE IF i = n - 1 THEN id ELSE h[i - 1]
    <3> DEFINE at == n - 1
               u == InsertAt(h, at, id)
    <3>0. at \in 1 .. Len(h) + 1
      BY <2>6
    <3> HIDE DEF at
    <3>1. /\ u \in Seq(Layer) /\ Len(u) = Len(h) + 1
          /\ \A i \in 1 .. Len(h) + 1 :
               u[i] = IF i < at THEN h[i] ELSE IF i = at THEN id ELSE h[i - 1]
      <4>1. h \in Seq(Layer)
        BY <2>5
      <4>2. u \in Seq(Layer)
        BY <3>0, <4>1, InsertAtElements
      <4>3. Len(u) = Len(h) + 1
        BY <3>0, <4>1, InsertAtElements
      <4>4. ASSUME NEW i \in 1 .. Len(h) + 1
            PROVE  u[i] = IF i < at THEN h[i] ELSE IF i = at THEN id ELSE h[i - 1]
        BY <3>0, <4>1, InsertAtElements
      <4> QED BY <4>2, <4>3, <4>4
    <3> HIDE DEF u
    <3>2. t = u /\ Len(h) + 1 = n
      BY <1>0, <2>4, <2>5 DEF u, at
    <3> QED BY <3>1, <3>2 DEF at
  <2>8. DOMAIN t = 1 .. n
    BY <2>7, LenProperties
  <2> DEFINE old(i) == IF i = n - 1 THEN p ELSE IF i < p \/ i = n THEN i ELSE i + 1
  <2>9. ASSUME NEW i \in 1 .. n PROVE old(i) \in 1 .. n /\ t[i] = s[old(i)]
    <3>1. CASE i < n - 1
      <4>1. i \in 1 .. n - 1 /\ t[i] = h[i] /\ i + 1 \in 1 .. n
        BY <1>0, <2>7, <3>1
      <4>2. h[i] = IF i < p THEN s[i] ELSE s[i + 1]
        BY <2>5, <4>1
      <4> QED BY <1>0, <3>1, <4>1, <4>2
    <3>2. CASE i = n - 1
      BY <1>0, <2>1, <2>7, <3>2
    <3>3. CASE i = n
      <4>1. n - 1 \in 1 .. n - 1 /\ t[i] = h[n - 1]
        BY <1>0, <2>7, <3>3
      <4>2. h[n - 1] = s[n - 1 + 1]
        BY <1>0, <2>2, <2>5, <4>1
      <4> QED BY <1>0, <2>2, <3>3, <4>1, <4>2
    <3> QED BY <1>0, <3>1, <3>2, <3>3
  <2>10. \A a, b \in 1 .. n : old(a) = old(b) => a = b
    BY <1>0, <2>2
  <2>11. \A a, b \in 1 .. n : t[a] = t[b] => a = b
    <3> SUFFICES ASSUME NEW a \in 1 .. n, NEW b \in 1 .. n, t[a] = t[b]
                 PROVE  a = b
      OBVIOUS
    <3>1. old(a) \in 1 .. n /\ old(b) \in 1 .. n /\ s[old(a)] = s[old(b)]
      BY <2>9
    <3> HIDE DEF old
    <3>2. old(a) = old(b)
      BY <1>2, <3>1
    <3> QED BY <2>10, <3>2
  <2>12. IsInjective(t)
    BY <2>8, <2>11 DEF IsInjective
  <2>13. t[1] = Background /\ t[n] = Mouse /\ t[n - 1] = id
    BY <1>0, <2>1, <2>2, <2>9
  <2>14. SameOrder(s, t, id)
    <3> SUFFICES ASSUME NEW i \in DOMAIN s, s[i] # id
                 PROVE  \E k \in DOMAIN t :
                          /\ t[k] = s[i]
                          /\ \A m \in DOMAIN t : m > k /\ t[m] # id =>
                               \E j \in DOMAIN s : j > i /\ s[j] = t[m]
      BY DEF SameOrder
    <3>0. i \in 1 .. n /\ DOMAIN s = 1 .. n /\ DOMAIN t = 1 .. n
      BY <1>s, <2>8
    <3> DEFINE k == IF i < p \/ i = n THEN i ELSE i - 1
    <3>1. k \in 1 .. n /\ k # n - 1 /\ old(k) = i
      BY <1>0, <2>1, <2>2, <3>0
    <3>2. t[k] = s[i]
      BY <2>9, <3>1
    <3>3. ASSUME NEW m \in 1 .. n, m > k, t[m] # id
          PROVE  \E j \in 1 .. n : j > i /\ s[j] = t[m]
      <4>1. m # n - 1
        BY <2>13, <3>3
      <4>2. old(m) > i
        BY <1>0, <2>2, <3>0, <3>1, <3>3, <4>1
      <4> QED BY <2>9, <4>2
    <3> HIDE DEF k
    <3> QED BY <3>0, <3>1, <3>2, <3>3
  <2> QED BY <1>0, <2>7, <2>8, <2>12, <2>13, <2>14 DEF StackOK, t
<1> QED BY <1>3, <1>4

-----------------------------------------------------------------------------
(* Painting, one row at a time.                                            *)

Fields == {"pos", "looks_active", "stack", "back", "screen"}

LayersOK(l) ==
  /\ DOMAIN l = Fields
  /\ l.pos \in [Layer -> Int] /\ l.pos[Background] = 0
  /\ l.looks_active \subseteq Layer
  /\ StackOK(l.stack) /\ NothingAboveMouse(l.stack)

\* Only the two buffers may differ.
SameLayers(l, m) ==
  /\ DOMAIN m = Fields
  /\ m.pos = l.pos /\ m.looks_active = l.looks_active /\ m.stack = l.stack

\* The layer has something to show in the row.
Covers(l, id, row) ==
  IF id = Mouse THEN row - l.pos[Mouse] \in CursorRows ELSE row \in WindowArea(l, id)

\* The uppermost of these.
IsTop(l, row, i) ==
  /\ Covers(l, l.stack[i], row)
  /\ \A j \in DOMAIN l.stack : j > i => ~Covers(l, l.stack[j], row)

\* The pixel is what the row should show, or was before its window was written.
Shows(l, row, p, stale) ==
  \E i \in DOMAIN l.stack :
    /\ IsTop(l, row, i)
    /\ \/ p = Pixel(l, l.stack[i])
       \/ l.stack[i] \in stale /\ p = [Pixel(l, l.stack[i]) EXCEPT !.old = TRUE]

Shown(l, row, stale) ==
  Shows(l, row, l.back[row], stale) /\ Shows(l, row, l.screen[row], stale)

\* What a layer shows lies in its window.
LEMMA CoversWindow ==
  ASSUME NEW l, LayersOK(l), NEW id \in Layer, NEW row \in Rows, NEW area
  PROVE  /\ Covers(l, id, row) => row \in WindowArea(l, id)
         /\ row \in DrawTo(l, id, area) <=> Covers(l, id, row) /\ (id = Mouse \/ row \in area)
<1>1. l.pos[id] \in Int /\ Size[id] \in Nat /\ row \in Int
  BY SizeAssumption, HeightAssumption DEF LayersOK, Rows
<1>2. CASE id = Mouse
  <2>1. CursorRows \subseteq 0 .. Size[id] - 1
    BY <1>2, MoveAssumption
  <2>2. row - l.pos[id] \in CursorRows => row \in WindowArea(l, id)
    <3> SUFFICES ASSUME row - l.pos[id] \in CursorRows PROVE row \in WindowArea(l, id)
      OBVIOUS
    <3>1. row - l.pos[id] \in 0 .. Size[id] - 1
      BY <2>1
    <3> QED BY <1>1, <3>1 DEF WindowArea, Rectangle
  <2>3. row \in {l.pos[id] + r : r \in CursorRows} <=> row - l.pos[id] \in CursorRows
    <3>1. ASSUME NEW r \in CursorRows, row = l.pos[id] + r PROVE row - l.pos[id] \in CursorRows
      <4>1. r \in Int
        BY <1>1, <2>1
      <4>2. row - l.pos[id] = r
        BY <1>1, <3>1, <4>1
      <4> QED BY <4>2
    <3>2. row = l.pos[id] + (row - l.pos[id])
      BY <1>1
    <3> QED BY <3>1, <3>2
  <2> QED BY <1>2, <2>2, <2>3 DEF Covers, DrawTo
<1>3. CASE id # Mouse
  BY <1>3 DEF Covers, DrawTo
<1> QED BY <1>2, <1>3

\* The stack as a function.
LEMMA StackFacts ==
  ASSUME NEW l, LayersOK(l)
  PROVE  /\ Len(l.stack) \in Nat /\ Len(l.stack) >= 3 /\ DOMAIN l.stack = 1 .. Len(l.stack)
         /\ \A i \in 1 .. Len(l.stack) : l.stack[i] \in Layer
         /\ l.stack[1] = Background
         /\ \A i \in 1 .. Len(l.stack) : l.stack[i] = Mouse => i = Len(l.stack)
<1>1. l.stack \in Seq(Layer)
  BY DEF LayersOK, StackOK
<1>2. Len(l.stack) \in Nat /\ DOMAIN l.stack = 1 .. Len(l.stack)
      /\ \A i \in 1 .. Len(l.stack) : l.stack[i] \in Layer
  BY <1>1, LenProperties
<1> QED BY <1>2 DEF LayersOK, StackOK, NothingAboveMouse

\* The background shows in every row that nothing else covers.
LEMMA TopExists ==
  ASSUME NEW l, LayersOK(l), NEW row \in Rows
  PROVE  \E i \in DOMAIN l.stack : IsTop(l, row, i)
<1> DEFINE n == Len(l.stack)
           S == {i \in DOMAIN l.stack : Covers(l, l.stack[i], row)}
<1>1. n \in Nat /\ n >= 3 /\ DOMAIN l.stack = 1 .. n /\ l.stack[1] = Background
  BY StackFacts
<1> HIDE DEF n
<1>2. 1 \in S
  <2>1. row \in WindowArea(l, Background)
    BY HeightAssumption, PlacesAssumption DEF LayersOK, Rows, WindowArea, Rectangle
  <2>2. Covers(l, Background, row)
    BY <2>1 DEF Covers, Background, Mouse
  <2> QED BY <1>1, <2>2
<1>3. S \in SUBSET (0 .. n) /\ S # {}
  BY <1>1, <1>2
<1>4. Max(S) \in S /\ \A y \in S : y <= Max(S)
  <2> HIDE DEF S
  <2> QED BY <1>1, <1>3, MaxOfBounded
<1> DEFINE i == Max(S)
<1>5. i \in DOMAIN l.stack /\ Covers(l, l.stack[i], row)
  BY <1>4
<1>6. ASSUME NEW j \in DOMAIN l.stack, j > i, Covers(l, l.stack[j], row) PROVE FALSE
  <2>1. j \in S
    BY <1>6
  <2>2. j <= i
    BY <1>4, <2>1
  <2> HIDE DEF i
  <2> QED BY <1>1, <1>5, <1>6, <2>2
<1> QED BY <1>5, <1>6 DEF IsTop

\* The back buffer after a repaint: a row shows the uppermost layer, or has not
\* been touched, which does not happen where the repaint reaches that layer.
LEMMA DrawFromRow ==
  ASSUME NEW l, LayersOK(l), NEW height \in Nat, NEW area, NEW row \in Rows
  PROVE  LET m == DrawFrom(l, height, area)
         IN  \/ \E i \in DOMAIN l.stack : IsTop(l, row, i) /\ m.back[row] = Pixel(l, l.stack[i])
             \/ /\ m.back[row] = l.back[row]
                /\ row \in area => \A i \in DOMAIN l.stack : i > height => ~IsTop(l, row, i)
<1> DEFINE n == Len(l.stack)
           painted == [i \in height + 1 .. n |-> DrawTo(l, l.stack[i], area)]
           S == {i \in DOMAIN painted : row \in painted[i]}
           top == Max({0} \cup S)
           m == DrawFrom(l, height, area)
<1>1. /\ n \in Nat /\ DOMAIN l.stack = 1 .. n /\ \A i \in 1 .. n : l.stack[i] \in Layer
      /\ \A i \in 1 .. n : l.stack[i] = Mouse => i = n
  BY StackFacts
<1>2. m.back[row] = IF top = 0 THEN l.back[row] ELSE Pixel(l, l.stack[top])
  <2>1. "back" \in DOMAIN l
    BY DEF LayersOK, Fields
  <2> QED BY <2>1 DEF DrawFrom
<1> HIDE DEF n, m
<1>3. DOMAIN painted = height + 1 .. n
  OBVIOUS
<1>4. \A i \in height + 1 .. n :
        i \in S <=> Covers(l, l.stack[i], row) /\ (l.stack[i] = Mouse \/ row \in area)
  <2> SUFFICES ASSUME NEW i \in height + 1 .. n
               PROVE  i \in S <=> Covers(l, l.stack[i], row) /\ (l.stack[i] = Mouse \/ row \in area)
    OBVIOUS
  <2>1. l.stack[i] \in Layer
    BY <1>1
  <2>2. i \in S <=> row \in DrawTo(l, l.stack[i], area)
    OBVIOUS
  <2> QED BY <2>1, <2>2, CoversWindow
<1>5. S \subseteq height + 1 .. n
  BY <1>3
<1> HIDE DEF painted, S
<1>6. {0} \cup S \in SUBSET (0 .. n) /\ {0} \cup S # {}
  BY <1>1, <1>5
<1>7. top \in {0} \cup S /\ \A y \in {0} \cup S : y <= top
  BY <1>1, <1>6, MaxOfBounded
<1> HIDE DEF top
<1>8. CASE top = 0
  <2>1. \A i \in S : FALSE
    BY <1>1, <1>5, <1>7, <1>8
  <2>2. ASSUME row \in area, NEW i \in DOMAIN l.stack, i > height, IsTop(l, row, i)
        PROVE  FALSE
    <3>1. i \in height + 1 .. n
      BY <1>1, <2>2
    <3>2. i \in S
      BY <1>4, <2>2, <3>1 DEF IsTop
    <3> QED BY <2>1, <3>2
  <2> QED BY <1>2, <1>8, <2>2 DEF m
<1>9. CASE top # 0
  <2>1. top \in S /\ top \in height + 1 .. n /\ top \in 1 .. n
    BY <1>1, <1>5, <1>7, <1>9
  <2>2. Covers(l, l.stack[top], row) /\ (l.stack[top] = Mouse \/ row \in area)
    BY <1>4, <2>1
  <2>3. ASSUME NEW j \in DOMAIN l.stack, j > top, Covers(l, l.stack[j], row)
        PROVE  FALSE
    <3>1. j \in 1 .. n /\ j \in height + 1 .. n
      BY <1>1, <2>1, <2>3
    <3>2. row \in area
      BY <1>1, <2>1, <2>2, <2>3, <3>1
    <3>3. j \in S
      BY <1>4, <2>3, <3>1, <3>2
    <3> QED BY <1>1, <1>5, <1>7, <2>1, <2>3, <3>3
  <2>4. IsTop(l, row, top)
    BY <2>2, <2>3 DEF IsTop
  <2>5. m.back[row] = Pixel(l, l.stack[top]) /\ top \in DOMAIN l.stack
    BY <1>1, <1>2, <1>9, <2>1
  <2> QED BY <2>4, <2>5 DEF m
<1> QED BY <1>8, <1>9

\* Painting leaves everything but the buffers alone.
LEMMA PaintKeeps ==
  ASSUME NEW l, DOMAIN l = Fields, NEW id, NEW area, NEW stray, NEW height
  PROVE  /\ SameLayers(l, DrawFrom(l, height, area)) /\ SameLayers(l, Copy(l, area))
         /\ SameLayers(l, Draw(l, area))
         /\ SameLayers(l, DrawWindow(l, id, stray))
         /\ SameLayers(l, Write(l, id))
<1>1. \A h, a : SameLayers(l, DrawFrom(l, h, a))
  BY DEF SameLayers, DrawFrom, Fields
<1>2. \A k, a : DOMAIN k = Fields => SameLayers(k, Copy(k, a))
  BY DEF SameLayers, Copy, Fields
<1>3. \A h, a, b : SameLayers(l, Copy(DrawFrom(l, h, a), b))
  <2> SUFFICES ASSUME NEW h, NEW a, NEW b PROVE SameLayers(l, Copy(DrawFrom(l, h, a), b))
    OBVIOUS
  <2> DEFINE k == DrawFrom(l, h, a)
             c == Copy(k, b)
  <2>1. SameLayers(l, k)
    BY <1>1
  <2>2. SameLayers(k, c)
    BY <1>2, <2>1 DEF SameLayers
  <2> HIDE DEF k, c
  <2>3. SameLayers(l, c)
    BY <2>1, <2>2 DEF SameLayers
  <2> QED BY <2>3 DEF c, k
<1>4. SameLayers(l, Write(l, id))
  BY DEF SameLayers, Write, Fields
<1> QED BY <1>1, <1>2, <1>3, <1>4 DEF Draw, DrawWindow, DrawLayer

\* What a row should show depends on the layers, not on the buffers.
LEMMA SameLayersShow ==
  ASSUME NEW l, NEW m, SameLayers(l, m)
  PROVE  /\ LayersOK(l) => LayersOK(m)
         /\ \A id, row : Covers(m, id, row) <=> Covers(l, id, row)
         /\ \A id : Pixel(m, id) = Pixel(l, id) /\ GetHeight(m, id) = GetHeight(l, id)
                    /\ WindowArea(m, id) = WindowArea(l, id)
         /\ \A row, p, stale : Shows(m, row, p, stale) <=> Shows(l, row, p, stale)
<1>1. LayersOK(l) => LayersOK(m)
  BY DEF LayersOK, SameLayers
<1>2. \A id : WindowArea(m, id) = WindowArea(l, id)
  BY DEF SameLayers, WindowArea
<1>3. \A id, row : Covers(m, id, row) <=> Covers(l, id, row)
  BY <1>2 DEF SameLayers, Covers
<1>4. \A id : Pixel(m, id) = Pixel(l, id) /\ GetHeight(m, id) = GetHeight(l, id)
  BY DEF SameLayers, Pixel, GetHeight
<1>5. \A row, i : IsTop(m, row, i) <=> IsTop(l, row, i)
  BY <1>3 DEF SameLayers, IsTop
<1>6. \A row, p, stale : Shows(m, row, p, stale) <=> Shows(l, row, p, stale)
  BY <1>4, <1>5 DEF SameLayers, Shows
<1> QED BY <1>1, <1>2, <1>3, <1>4, <1>6

\* What a copy to the screen does to a row.
LEMMA CopyRow ==
  ASSUME NEW l, DOMAIN l = Fields, NEW area, NEW row \in Rows
  PROVE  /\ Copy(l, area).back = l.back
         /\ Copy(l, area).screen[row] = IF row \in area THEN l.back[row] ELSE l.screen[row]
BY DEF Copy, Fields

\* A row that both buffers show stays so, whatever is copied.
LEMMA CopyShows ==
  ASSUME NEW l, DOMAIN l = Fields, NEW area, NEW row \in Rows, NEW stale, Shown(l, row, stale)
  PROVE  Shown(Copy(l, area), row, stale)
<1> DEFINE m == Copy(l, area)
<1>1. SameLayers(l, m)
  BY PaintKeeps
<1>2. m.back = l.back /\ m.screen[row] = IF row \in area THEN l.back[row] ELSE l.screen[row]
  BY CopyRow
<1> HIDE DEF m
<1>3. Shows(l, row, m.back[row], stale) /\ Shows(l, row, m.screen[row], stale)
  BY <1>2 DEF Shown
<1>4. Shown(m, row, stale)
  BY <1>1, <1>3, SameLayersShow DEF Shown
<1> QED BY <1>4 DEF m

\* A repaint from a height up makes right what it reaches, and keeps right what was.
LEMMA RepaintShows ==
  ASSUME NEW l, LayersOK(l), NEW height \in Nat, NEW area, NEW row \in Rows, NEW stale,
         \/ Shown(l, row, stale)
         \/ row \in area /\ \A i \in DOMAIN l.stack : IsTop(l, row, i) => i > height
  PROVE  Shown(Copy(DrawFrom(l, height, area), area), row, stale)
<1> DEFINE k == DrawFrom(l, height, area)
           m == Copy(k, area)
<1>1. SameLayers(l, k) /\ DOMAIN k = Fields
  BY PaintKeeps DEF LayersOK, SameLayers
<1>2. SameLayers(k, m)
  BY <1>1, PaintKeeps
<1>3. m.back = k.back /\ m.screen[row] = IF row \in area THEN k.back[row] ELSE k.screen[row]
  BY <1>1, CopyRow
<1>4. k.screen = l.screen
  BY DEF DrawFrom, LayersOK, Fields
<1>5. \/ \E i \in DOMAIN l.stack : IsTop(l, row, i) /\ k.back[row] = Pixel(l, l.stack[i])
      \/ /\ k.back[row] = l.back[row]
         /\ row \in area => \A i \in DOMAIN l.stack : i > height => ~IsTop(l, row, i)
  BY DrawFromRow
<1> HIDE DEF k, m
<1>6. PICK i \in DOMAIN l.stack : IsTop(l, row, i)
  BY TopExists
<1>7. Shows(l, row, k.back[row], stale)
  <2>1. CASE \E j \in DOMAIN l.stack : IsTop(l, row, j) /\ k.back[row] = Pixel(l, l.stack[j])
    BY <2>1 DEF Shows
  <2>2. CASE /\ k.back[row] = l.back[row]
             /\ row \in area => \A j \in DOMAIN l.stack : j > height => ~IsTop(l, row, j)
    <3>1. Shown(l, row, stale)
      BY <1>6, <2>2
    <3> QED BY <2>2, <3>1 DEF Shown
  <2> QED BY <1>5, <2>1, <2>2
<1>8. Shows(l, row, m.screen[row], stale)
  <2>1. CASE row \in area
    BY <1>3, <1>7, <2>1
  <2>2. CASE row \notin area
    BY <1>3, <1>4, <2>2 DEF Shown
  <2> QED BY <2>1, <2>2
<1>9. SameLayers(l, m)
  BY <1>1, <1>2 DEF SameLayers
<1>10. Shown(m, row, stale)
  BY <1>3, <1>7, <1>8, <1>9, SameLayersShow DEF Shown
<1> QED BY <1>10 DEF m, k

\* Draw(area).
LEMMA DrawShows ==
  ASSUME NEW l, LayersOK(l), NEW area, NEW row \in Rows, NEW stale,
         Shown(l, row, stale) \/ row \in area
  PROVE  Shown(Draw(l, area), row, stale)
<1>1. \A i \in DOMAIN l.stack : i > 0
  BY StackFacts
<1>2. Shown(Copy(DrawFrom(l, 0, area), area), row, stale)
  BY <1>1, RepaintShows
<1> QED BY <1>2 DEF Draw

\* Draw(id): what the layer covers is right afterwards.
LEMMA DrawWindowShows ==
  ASSUME NEW l, LayersOK(l), NEW id, NEW stray, NEW row \in Rows, NEW stale,
         \/ Shown(l, row, stale)
         \/ Covers(l, id, row) /\ \E k \in DOMAIN l.stack : l.stack[k] = id
  PROVE  Shown(DrawWindow(l, id, stray), row, stale)
<1>0. l.stack \in Seq(Layer) /\ IsInjective(l.stack) /\ DOMAIN l = Fields
      /\ DOMAIN l.stack = 1 .. Len(l.stack) /\ Len(l.stack) \in Nat
  BY StackFacts DEF LayersOK, StackOK
<1>1. CASE GetHeight(l, id) < 0
  <2>1. \A k \in DOMAIN l.stack : l.stack[k] # id
    BY <1>0, <1>1, HeightIsIndex DEF GetHeight
  <2>2. Shown(l, row, stale)
    BY <2>1
  <2>3. DrawWindow(l, id, stray) = Copy(l, stray)
    BY <1>1 DEF DrawWindow, DrawLayer
  <2> QED BY <1>0, <2>2, <2>3, CopyShows
<1>2. CASE ~(GetHeight(l, id) < 0)
  <2>1. PICK k \in DOMAIN l.stack : l.stack[k] = id
    BY <1>0, <1>2, HeightIsIndex DEF GetHeight
  <2> DEFINE h == k - 1
             area == WindowArea(l, id)
  <2>2. GetHeight(l, id) = h
    BY <1>0, <2>1, HeightIsIndex DEF GetHeight
  <2>3. h \in Nat /\ k = h + 1
    BY <1>0
  <2>4. DrawWindow(l, id, stray) = Copy(DrawFrom(l, h, area), area)
    BY <1>2, <2>2 DEF DrawWindow, DrawLayer
  <2>5. ASSUME Covers(l, id, row)
        PROVE  row \in area /\ \A i \in DOMAIN l.stack : IsTop(l, row, i) => i > h
    <3>0. id \in Layer
      BY <1>0, <2>1, StackFacts
    <3>1. row \in area
      BY <2>5, <3>0, CoversWindow
    <3>2. ASSUME NEW i \in DOMAIN l.stack, IsTop(l, row, i) PROVE i > h
      <4>1. ~(k > i)
        BY <2>1, <2>5, <3>2 DEF IsTop
      <4> QED BY <1>0, <4>1
    <3> QED BY <3>1, <3>2
  <2> HIDE DEF h, area
  <2>6. Shown(Copy(DrawFrom(l, h, area), area), row, stale)
    BY <2>3, <2>5, RepaintShows
  <2> QED BY <2>4, <2>6
<1> QED BY <1>1, <1>2

-----------------------------------------------------------------------------
(* Operations on the layers.                                               *)

AllShown(l, stale, hidden) == \A row \in Rows \ hidden : Shown(l, row, stale)

OnStack(l, id) == \E k \in DOMAIN l.stack : l.stack[k] = id

\* A stack is in its own order.
LEMMA SameStack ==
  ASSUME NEW s, NEW id
  PROVE  SameOrder(s, s, id)
BY DEF SameOrder

\* A row in which one layer does not show does not mind what becomes of it.
LEMMA OthersShow ==
  ASSUME NEW l, NEW m, NEW id, NEW row, NEW p, NEW stale, NEW stale2,
         SameOrder(l.stack, m.stack, id),
         \A o : o # id => (Covers(m, o, row) <=> Covers(l, o, row)) /\ Pixel(m, o) = Pixel(l, o),
         ~Covers(l, id, row) \/ ~OnStack(l, id),
         ~Covers(m, id, row) \/ ~OnStack(m, id),
         \A o : o # id /\ o \in stale => o \in stale2,
         Shows(l, row, p, stale)
  PROVE  Shows(m, row, p, stale2)
<1>1. PICK i \in DOMAIN l.stack :
        /\ IsTop(l, row, i)
        /\ \/ p = Pixel(l, l.stack[i])
           \/ l.stack[i] \in stale /\ p = [Pixel(l, l.stack[i]) EXCEPT !.old = TRUE]
  BY DEF Shows
<1>2. l.stack[i] # id /\ Covers(l, l.stack[i], row)
  BY <1>1 DEF IsTop, OnStack
<1>3. PICK k \in DOMAIN m.stack :
        /\ m.stack[k] = l.stack[i]
        /\ \A h \in DOMAIN m.stack : h > k /\ m.stack[h] # id =>
             \E j \in DOMAIN l.stack : j > i /\ l.stack[j] = m.stack[h]
  BY <1>2 DEF SameOrder
<1>4. ASSUME NEW h \in DOMAIN m.stack, h > k, Covers(m, m.stack[h], row) PROVE FALSE
  <2>1. m.stack[h] # id
    BY <1>4 DEF OnStack
  <2>2. PICK j \in DOMAIN l.stack : j > i /\ l.stack[j] = m.stack[h]
    BY <1>3, <1>4, <2>1
  <2> QED BY <1>1, <1>4, <2>1, <2>2 DEF IsTop
<1>5. IsTop(m, row, k)
  BY <1>2, <1>3, <1>4 DEF IsTop
<1>6. \/ p = Pixel(m, m.stack[k])
      \/ m.stack[k] \in stale2 /\ p = [Pixel(m, m.stack[k]) EXCEPT !.old = TRUE]
  <2>1. Pixel(m, m.stack[k]) = Pixel(l, l.stack[i])
    BY <1>2, <1>3
  <2> QED BY <1>1, <1>2, <1>3, <2>1
<1> QED BY <1>5, <1>6 DEF Shows

\* One layer changes and does not move, and nothing is drawn: the rows in which it
\* is not seen stay right.
LEMMA ChangeKeeps ==
  ASSUME NEW l, NEW m, NEW id, NEW stale, NEW stale2, NEW row, Shown(l, row, stale),
         m.pos = l.pos, m.back = l.back, m.screen = l.screen,
         SameOrder(l.stack, m.stack, id), OnStack(l, id) => OnStack(m, id),
         \A o : o # id => (o \in m.looks_active <=> o \in l.looks_active),
         \A o : o # id /\ o \in stale => o \in stale2,
         ~(Covers(m, id, row) /\ OnStack(m, id))
  PROVE  Shown(m, row, stale2)
<1>1. \A o : Covers(m, o, row) <=> Covers(l, o, row)
  BY DEF Covers, WindowArea
<1>2. \A o : o # id => Pixel(m, o) = Pixel(l, o)
  <2> SUFFICES ASSUME NEW o, o # id PROVE Pixel(m, o) = Pixel(l, o)
    OBVIOUS
  <2>1. (o \in m.looks_active) = (o \in l.looks_active)
    OBVIOUS
  <2> QED BY <2>1 DEF Pixel
<1>3. ~Covers(l, id, row) \/ ~OnStack(l, id)
  BY <1>1
<1>4. \A p : Shows(l, row, p, stale) => Shows(m, row, p, stale2)
  BY <1>1, <1>2, <1>3, OthersShow
<1> QED BY <1>4 DEF Shown

\* The same with a Draw of its window: the rows in which it is seen become right.
LEMMA ChangeShows ==
  ASSUME NEW l, NEW m, LayersOK(m), NEW id, NEW stray,
         NEW stale, NEW stale2, NEW hidden, NEW hidden2,
         m.pos = l.pos, m.back = l.back, m.screen = l.screen,
         SameOrder(l.stack, m.stack, id), OnStack(l, id) => OnStack(m, id),
         \A o : o # id => (o \in m.looks_active <=> o \in l.looks_active),
         \A o : o # id /\ o \in stale => o \in stale2,
         \A row \in Rows : row \in hidden =>
           row \in hidden2 \/ (Covers(m, id, row) /\ OnStack(m, id)),
         AllShown(l, stale, hidden)
  PROVE  AllShown(DrawWindow(m, id, stray), stale2, hidden2)
<1> SUFFICES ASSUME NEW row \in Rows \ hidden2
             PROVE  Shown(DrawWindow(m, id, stray), row, stale2)
  BY DEF AllShown
<1>1. CASE Covers(m, id, row) /\ OnStack(m, id)
  BY <1>1, DrawWindowShows DEF OnStack
<1>2. CASE ~(Covers(m, id, row) /\ OnStack(m, id))
  <2>1. Shown(l, row, stale)
    BY <1>2 DEF AllShown
  <2>2. Shown(m, row, stale2)
    BY <1>2, <2>1, ChangeKeeps
  <2> QED BY <2>2, DrawWindowShows
<1> QED BY <1>1, <1>2

\* The rows of a window that is on the stack.
WindowRows(l, id) == {row \in Rows : id # NoLayer /\ OnStack(l, id) /\ row \in WindowArea(l, id)}

\* What ActiveLayer may be told to activate.
MayBeActive == Draggable \cup {NoLayer}

\* A window other than the mouse's is seen in all of its rows.
LEMMA WindowRowsCovered ==
  ASSUME NEW l, NEW id \in MayBeActive, NEW row \in Rows
  PROVE  /\ row \in WindowRows(l, id) => Covers(l, id, row) /\ OnStack(l, id)
         /\ id # NoLayer /\ Covers(l, id, row) /\ OnStack(l, id) => row \in WindowRows(l, id)
<1>1. id # Mouse
  BY DEF MayBeActive, Draggable, Mouse, TextWindow, Terminal, AppWindow, NoLayer
<1> QED BY <1>1 DEF WindowRows, Covers

\* The title bar changes.
LEMMA TitleChanged ==
  ASSUME NEW l, LayersOK(l), NEW id
  PROVE  /\ LET m == Darkened(l, id)
             IN  /\ LayersOK(m) /\ m.pos = l.pos /\ m.back = l.back /\ m.screen = l.screen
                 /\ m.stack = l.stack /\ m.looks_active = l.looks_active \ {id}
         /\ id \in Layer =>
            LET m == Brightened(l, id)
            IN  /\ LayersOK(m) /\ m.pos = l.pos /\ m.back = l.back /\ m.screen = l.screen
                /\ m.stack = l.stack /\ m.looks_active = l.looks_active \cup {id}
<1>1. ASSUME NEW m, NEW looks, m = [l EXCEPT !.looks_active = looks], looks \subseteq Layer
      PROVE  /\ LayersOK(m) /\ m.pos = l.pos /\ m.back = l.back /\ m.screen = l.screen
             /\ m.stack = l.stack /\ m.looks_active = looks
  <2>1. /\ m.pos = l.pos /\ m.back = l.back /\ m.screen = l.screen /\ m.stack = l.stack
        /\ m.looks_active = looks /\ DOMAIN m = Fields
    BY <1>1 DEF LayersOK, Fields
  <2> QED BY <1>1, <2>1 DEF LayersOK
<1>2. l.looks_active \ {id} \subseteq Layer /\ (id \in Layer => l.looks_active \cup {id} \subseteq Layer)
  BY DEF LayersOK
<1>3. /\ Darkened(l, id) = [l EXCEPT !.looks_active = l.looks_active \ {id}]
      /\ Brightened(l, id) = [l EXCEPT !.looks_active = l.looks_active \cup {id}]
  BY DEF Darkened, Brightened
<1> QED BY <1>1, <1>2, <1>3

\* The window is raised.
LEMMA RaisedOK ==
  ASSUME NEW l, LayersOK(l), Len(l.stack) >= 4, l.stack[Len(l.stack)] = Mouse, NEW id \in Draggable
  PROVE  LET m == Raised(l, id)
         IN  /\ LayersOK(m) /\ m.pos = l.pos /\ m.back = l.back /\ m.screen = l.screen
             /\ m.looks_active = l.looks_active
             /\ Len(m.stack) >= 4 /\ m.stack[Len(m.stack)] = Mouse
             /\ OnStack(m, id) /\ SameOrder(l.stack, m.stack, id)
<1>0. id \in Layer /\ id # Mouse /\ id # Background
  BY DEF Draggable, Layer, Mouse, Background, TextWindow, Terminal, AppWindow
<1> DEFINE t == UpDown(l.stack, id, HeightOf(l.stack, Mouse) - 1)
           m == Raised(l, id)
<1>1. /\ m.pos = l.pos /\ m.back = l.back /\ m.screen = l.screen /\ m.stack = t
      /\ m.looks_active = l.looks_active /\ DOMAIN m = Fields
  BY DEF LayersOK, Fields, GetHeight, Raised
<1> HIDE DEF m
<1>2. /\ StackOK(t) /\ Len(t) >= 4 /\ t[Len(t)] = Mouse
      /\ (\E i \in DOMAIN t : t[i] = id) /\ SameOrder(l.stack, t, id)
  BY <1>0, RaisedStack DEF LayersOK
<1> HIDE DEF t
<1>3. NothingAboveMouse(t)
  <2>1. t \in Seq(Layer) /\ IsInjective(t)
    BY <1>2 DEF StackOK
  <2>2. Len(t) \in DOMAIN t
    BY <1>2, <2>1, LenProperties
  <2> QED BY <1>2, <2>1, <2>2 DEF NothingAboveMouse, IsInjective
<1>4. LayersOK(m)
  BY <1>1, <1>2, <1>3 DEF LayersOK
<1> QED BY <1>1, <1>2, <1>4 DEF OnStack, m

\* The first half of Activate: the window that was active is drawn, too, if it was
\* not before.
LEMMA DeactivatedOK ==
  ASSUME NEW l, LayersOK(l), NEW id \in MayBeActive, NEW stray,
         NEW stale, NEW hidden, NEW hidden2, AllShown(l, stale, hidden),
         \A row \in Rows : row \in hidden => row \in hidden2 \/ row \in WindowRows(l, id)
  PROVE  LET m == Deactivated(l, id, stray)
         IN  /\ LayersOK(m) /\ AllShown(m, stale, hidden2)
             /\ m.pos = l.pos /\ m.stack = l.stack /\ m.looks_active = l.looks_active \ {id}
<1>0. NoLayer \notin l.looks_active
  BY DEF LayersOK, Layer, NoLayer
<1>1. CASE id = NoLayer
  <2>1. AllShown(l, stale, hidden2)
    BY <1>1 DEF AllShown, WindowRows
  <2>2. Deactivated(l, id, stray) = l
    BY <1>1 DEF Deactivated
  <2> QED BY <1>0, <1>1, <2>1, <2>2
<1>2. CASE id # NoLayer
  <2> DEFINE k == Darkened(l, id)
             m == DrawWindow(k, id, stray)
  <2>1. /\ LayersOK(k) /\ k.pos = l.pos /\ k.back = l.back /\ k.screen = l.screen
        /\ k.stack = l.stack /\ k.looks_active = l.looks_active \ {id}
    BY TitleChanged
  <2>2. Deactivated(l, id, stray) = m
    BY <1>2 DEF Deactivated
  <2> HIDE DEF k
  <2>4. SameOrder(l.stack, k.stack, id) /\ (OnStack(l, id) <=> OnStack(k, id))
    BY <2>1, SameStack DEF OnStack
  <2>5. \A row \in Rows : row \in hidden => row \in hidden2 \/ (Covers(k, id, row) /\ OnStack(k, id))
    <3> SUFFICES ASSUME NEW row \in Rows, row \in hidden, row \notin hidden2
                 PROVE  Covers(k, id, row) /\ OnStack(k, id)
      OBVIOUS
    <3>1. Covers(l, id, row) /\ OnStack(l, id)
      BY WindowRowsCovered
    <3> QED BY <2>1, <2>4, <3>1 DEF Covers, WindowArea
  <2>6. AllShown(m, stale, hidden2)
    <3>1. /\ \A o : o # id => (o \in k.looks_active <=> o \in l.looks_active)
          /\ \A o : o # id /\ o \in stale => o \in stale
      BY <2>1
    <3> QED BY <2>1, <2>4, <2>5, <3>1, ChangeShows
  <2>7. SameLayers(k, m)
    BY <2>1, PaintKeeps DEF LayersOK
  <2> HIDE DEF m
  <2>8. LayersOK(m)
    BY <2>1, <2>7, SameLayersShow
  <2> QED BY <2>1, <2>2, <2>6, <2>7, <2>8 DEF SameLayers
<1> QED BY <1>1, <1>2

\* The second half.
LEMMA ActivatedOK ==
  ASSUME NEW l, LayersOK(l), Len(l.stack) >= 4, l.stack[Len(l.stack)] = Mouse,
         NEW id \in MayBeActive, NEW stale, NEW hidden,
         AllShown(l, stale, hidden)
  PROVE  LET m == Activated(l, id)
         IN  /\ LayersOK(m) /\ AllShown(m, stale, hidden)
             /\ Len(m.stack) >= 4 /\ m.stack[Len(m.stack)] = Mouse
             /\ m.pos = l.pos /\ m.looks_active = l.looks_active \cup ({id} \ {NoLayer})
<1>1. CASE id = NoLayer
  BY <1>1 DEF Activated
<1>2. CASE id # NoLayer
  <2>0. id \in Draggable /\ id \in Layer
    BY <1>2 DEF MayBeActive, Draggable, Layer, TextWindow, Terminal, AppWindow
  <2> DEFINE b == Brightened(l, id)
             k == Raised(b, id)
             m == DrawWindow(k, id, {})
  <2>1. /\ LayersOK(b) /\ b.pos = l.pos /\ b.back = l.back /\ b.screen = l.screen
        /\ b.stack = l.stack /\ b.looks_active = l.looks_active \cup {id}
    BY <2>0, TitleChanged
  <2>2. Activated(l, id) = m
    BY <1>2 DEF Activated
  <2> HIDE DEF b
  <2>3. /\ LayersOK(k) /\ k.pos = b.pos /\ k.back = b.back /\ k.screen = b.screen
        /\ k.looks_active = b.looks_active
        /\ Len(k.stack) >= 4 /\ k.stack[Len(k.stack)] = Mouse
        /\ OnStack(k, id) /\ SameOrder(b.stack, k.stack, id)
    BY <2>0, <2>1, RaisedOK
  <2> HIDE DEF k
  <2>4. AllShown(m, stale, hidden)
    <3>1. /\ \A o : o # id => (o \in k.looks_active <=> o \in l.looks_active)
          /\ \A o : o # id /\ o \in stale => o \in stale
          /\ \A row \in Rows : row \in hidden =>
               row \in hidden \/ (Covers(k, id, row) /\ OnStack(k, id))
      BY <2>1, <2>3
    <3> QED BY <2>1, <2>3, <3>1, ChangeShows
  <2>5. SameLayers(k, m)
    BY <2>3, PaintKeeps DEF LayersOK
  <2> HIDE DEF m
  <2>6. LayersOK(m)
    BY <2>3, <2>5, SameLayersShow
  <2> QED BY <1>2, <2>1, <2>2, <2>3, <2>4, <2>5, <2>6 DEF SameLayers
<1> QED BY <1>1, <1>2

\* Everything is shown, with the mouse on top.
Ready(l, stale, hidden) ==
  /\ LayersOK(l) /\ AllShown(l, stale, hidden)
  /\ Len(l.stack) >= 4 /\ l.stack[Len(l.stack)] = Mouse

\* Activate as a whole.
LEMMA ActivateOK ==
  ASSUME NEW l, NEW stale, NEW hidden, NEW hidden2, Ready(l, stale, hidden),
         NEW old \in MayBeActive, NEW id \in MayBeActive, NEW stray,
         \A row \in Rows : row \in hidden =>
           row \in hidden2 \/ (old # id /\ row \in WindowRows(l, old))
  PROVE  Ready(Activate(l, old, id, stray), stale, hidden2)
<1> USE DEF Ready
<1>1. CASE old = id
  <2>1. Activate(l, old, id, stray) = l
    BY <1>1 DEF Activate
  <2>2. AllShown(l, stale, hidden2)
    BY <1>1 DEF AllShown
  <2> QED BY <1>1, <2>1, <2>2
<1>2. CASE old # id
  <2> DEFINE k == Deactivated(l, old, stray)
             m == Activated(k, id)
  <2>1. \A row \in Rows : row \in hidden => row \in hidden2 \/ row \in WindowRows(l, old)
    OBVIOUS
  <2>2. /\ LayersOK(k) /\ AllShown(k, stale, hidden2)
        /\ k.pos = l.pos /\ k.stack = l.stack /\ k.looks_active = l.looks_active \ {old}
    BY <2>1, DeactivatedOK
  <2> HIDE DEF k
  <2>3. /\ LayersOK(m) /\ AllShown(m, stale, hidden2)
        /\ Len(m.stack) >= 4 /\ m.stack[Len(m.stack)] = Mouse
        /\ m.pos = k.pos /\ m.looks_active = k.looks_active \cup ({id} \ {NoLayer})
    BY <2>2, ActivatedOK
  <2> HIDE DEF m
  <2>4. Activate(l, old, id, stray) = m
    BY <1>2 DEF Activate, m, k
  <2> QED BY <1>2, <2>2, <2>3, <2>4
<1> QED BY <1>1, <1>2

\* What Activate does to the layers, whatever is shown.
LEMMA ActivateKeeps ==
  ASSUME NEW l, NEW stale, NEW hidden, Ready(l, stale, hidden),
         NEW old \in MayBeActive, NEW id \in MayBeActive, NEW stray
  PROVE  /\ Activate(l, old, id, stray).pos = l.pos
         /\ Activate(l, old, id, stray).looks_active =
              IF old = id THEN l.looks_active ELSE (l.looks_active \ {old}) \cup ({id} \ {NoLayer})
<1> USE DEF Ready
<1>1. CASE old = id
  BY <1>1 DEF Activate
<1>2. CASE old # id
  <2> DEFINE k == Deactivated(l, old, stray)
             m == Activated(k, id)
  <2>1. AllShown(l, {}, Rows) /\ \A row \in Rows : row \in Rows => row \in Rows \/ row \in WindowRows(l, old)
    BY DEF AllShown
  <2>2. /\ LayersOK(k) /\ AllShown(k, {}, Rows)
        /\ k.pos = l.pos /\ k.stack = l.stack /\ k.looks_active = l.looks_active \ {old}
    BY <2>1, DeactivatedOK
  <2> HIDE DEF k
  <2>3. m.pos = k.pos /\ m.looks_active = k.looks_active \cup ({id} \ {NoLayer})
    BY <2>2, ActivatedOK
  <2> HIDE DEF m
  <2>4. Activate(l, old, id, stray) = m
    BY <1>2 DEF Activate, m, k
  <2> QED BY <1>2, <2>2, <2>3, <2>4
<1> QED BY <1>1, <1>2

\* Move: the rows the layer leaves and the ones it comes to are right.
LEMMA MoveOK ==
  ASSUME NEW l, LayersOK(l), NEW id \in Layer, id # Background, NEW pos \in Int, NEW stray,
         NEW stale, NEW hidden, NEW hidden2, AllShown(l, stale, hidden),
         \A row \in Rows : row \in hidden => row \in hidden2 \/ row \in WindowArea(l, id)
  PROVE  LET m == Move(l, id, pos, stray)
         IN  /\ LayersOK(m) /\ AllShown(m, stale, hidden2)
             /\ m.pos = [l.pos EXCEPT ![id] = pos]
             /\ m.stack = l.stack /\ m.looks_active = l.looks_active
<1> DEFINE k == [l EXCEPT !.pos[id] = pos]
           area == WindowArea(l, id)
           d == Draw(k, area)
           m == DrawWindow(d, id, stray)
<1>0. Move(l, id, pos, stray) = m
  BY DEF Move
<1>1. /\ k.pos = [l.pos EXCEPT ![id] = pos] /\ k.back = l.back /\ k.screen = l.screen
      /\ k.stack = l.stack /\ k.looks_active = l.looks_active /\ DOMAIN k = Fields
  BY DEF LayersOK, Fields
<1> HIDE DEF k, area
<1>2. LayersOK(k)
  BY <1>1 DEF LayersOK
<1>3. SameLayers(k, d) /\ DOMAIN d = Fields
  BY <1>1, PaintKeeps DEF SameLayers
<1> HIDE DEF d
<1>4. LayersOK(d) /\ \A row : Covers(d, id, row) <=> Covers(k, id, row)
  BY <1>2, <1>3, SameLayersShow
<1>5. SameLayers(d, m)
  BY <1>3, PaintKeeps
<1> HIDE DEF m
<1>6. LayersOK(m)
  BY <1>4, <1>5, SameLayersShow
<1>7. ASSUME NEW row \in Rows \ hidden2 PROVE Shown(m, row, stale)
  <2>1. Shown(d, row, stale) \/ (Covers(d, id, row) /\ \E i \in DOMAIN d.stack : d.stack[i] = id)
    <3>1. CASE row \in area
      BY <1>2, <3>1, DrawShows DEF d
    <3>2. CASE row \notin area
      <4>1. row \notin hidden /\ ~Covers(l, id, row)
        BY <3>2, CoversWindow DEF area
      <4>2. CASE Covers(k, id, row) /\ OnStack(k, id)
        BY <1>3, <1>4, <4>2 DEF OnStack, SameLayers
      <4>3. CASE ~(Covers(k, id, row) /\ OnStack(k, id))
        <5>1. \A o : o # id => k.pos[o] = l.pos[o]
          BY <1>1 DEF LayersOK
        <5>2. \A o : o # id => (Covers(k, o, row) <=> Covers(l, o, row)) /\ Pixel(k, o) = Pixel(l, o)
          BY <1>1, <5>1 DEF Covers, WindowArea, Pixel
        <5>3. SameOrder(l.stack, k.stack, id)
          BY <1>1, SameStack
        <5>4. \A p : Shows(l, row, p, stale) => Shows(k, row, p, stale)
          BY <4>1, <4>3, <5>2, <5>3, OthersShow
        <5>5. Shown(l, row, stale)
          BY <4>1 DEF AllShown
        <5>6. Shown(k, row, stale)
          BY <1>1, <5>4, <5>5 DEF Shown
        <5> QED BY <1>2, <5>6, DrawShows DEF d
      <4> QED BY <4>2, <4>3
    <3> QED BY <3>1, <3>2
  <2> QED BY <1>4, <2>1, DrawWindowShows DEF m
<1> QED BY <1>0, <1>1, <1>3, <1>5, <1>6, <1>7 DEF SameLayers, AllShown

\* Drawing into a window: what is shown of it is out of date.
LEMMA WriteShows ==
  ASSUME NEW l, LayersOK(l), NEW id, NEW stale, NEW hidden, AllShown(l, stale, hidden)
  PROVE  LET m == Write(l, id)
         IN  /\ LayersOK(m) /\ AllShown(m, stale \cup {id}, hidden)
             /\ m.pos = l.pos /\ m.stack = l.stack /\ m.looks_active = l.looks_active
<1> DEFINE m == Write(l, id)
<1>1. SameLayers(l, m)
  BY PaintKeeps DEF LayersOK
<1>2. m.back = Aged(l.back, id) /\ m.screen = Aged(l.screen, id)
  BY DEF Write, LayersOK, Fields
<1> HIDE DEF m
<1>3. LayersOK(m)
  BY <1>1, SameLayersShow
<1>4. ASSUME NEW row \in Rows, NEW b, Shows(l, row, b[row], stale)
      PROVE  Shows(l, row, Aged(b, id)[row], stale \cup {id})
  <2>1. PICK i \in DOMAIN l.stack :
          /\ IsTop(l, row, i)
          /\ \/ b[row] = Pixel(l, l.stack[i])
             \/ l.stack[i] \in stale /\ b[row] = [Pixel(l, l.stack[i]) EXCEPT !.old = TRUE]
    BY <1>4 DEF Shows
  <2>2. Aged(b, id)[row] = IF b[row].layer = id THEN [b[row] EXCEPT !.old = TRUE] ELSE b[row]
    BY DEF Aged
  <2>3. b[row].layer = l.stack[i]
    BY <2>1 DEF Pixel
  <2>4. CASE l.stack[i] # id
    BY <2>1, <2>2, <2>3, <2>4 DEF Shows
  <2>5. CASE l.stack[i] = id
    <3>1. [b[row] EXCEPT !.old = TRUE] = [Pixel(l, l.stack[i]) EXCEPT !.old = TRUE]
      BY <2>1 DEF Pixel
    <3>2. Aged(b, id)[row] = [Pixel(l, l.stack[i]) EXCEPT !.old = TRUE]
      BY <2>2, <2>3, <2>5, <3>1
    <3> QED BY <2>1, <2>5, <3>2 DEF Shows
  <2> QED BY <2>4, <2>5
<1>5. ASSUME NEW row \in Rows \ hidden PROVE Shown(m, row, stale \cup {id})
  <2>1. Shows(l, row, l.back[row], stale) /\ Shows(l, row, l.screen[row], stale)
    BY DEF AllShown, Shown
  <2>2. Shows(l, row, m.back[row], stale \cup {id}) /\ Shows(l, row, m.screen[row], stale \cup {id})
    BY <1>2, <1>4, <2>1
  <2> QED BY <1>1, <2>2, SameLayersShow DEF Shown
<1> QED BY <1>1, <1>3, <1>5 DEF SameLayers, AllShown, m

\* A window is drawn: nothing of it is out of date, and all of it is shown.
LEMMA RefreshShows ==
  ASSUME NEW l, LayersOK(l), NEW id, NEW stray, NEW stale, NEW stale2, NEW hidden, NEW hidden2,
         AllShown(l, stale, hidden),
         \A o : o # id /\ o \in stale => o \in stale2,
         \A row \in Rows : row \in hidden =>
           row \in hidden2 \/ (Covers(l, id, row) /\ OnStack(l, id))
  PROVE  LET m == DrawWindow(l, id, stray)
         IN  /\ LayersOK(m) /\ AllShown(m, stale2, hidden2)
             /\ m.pos = l.pos /\ m.stack = l.stack /\ m.looks_active = l.looks_active
<1> DEFINE m == DrawWindow(l, id, stray)
<1>1. SameLayers(l, m)
  BY PaintKeeps DEF LayersOK
<1>2. AllShown(m, stale2, hidden2)
  BY SameStack, ChangeShows
<1> HIDE DEF m
<1>3. LayersOK(m)
  BY <1>1, SameLayersShow
<1> QED BY <1>1, <1>2, <1>3 DEF SameLayers, m

\* A repaint of any area, and a copy of any other.
LEMMA StrayShows ==
  ASSUME NEW l, LayersOK(l), NEW area, NEW stray, NEW stale, NEW hidden,
         AllShown(l, stale, hidden)
  PROVE  LET m == Copy(Draw(l, area), stray)
         IN  /\ LayersOK(m) /\ AllShown(m, stale, hidden)
             /\ m.pos = l.pos /\ m.stack = l.stack /\ m.looks_active = l.looks_active
<1> DEFINE d == Draw(l, area)
           m == Copy(d, stray)
<1>1. SameLayers(l, d) /\ DOMAIN d = Fields
  BY PaintKeeps DEF LayersOK, SameLayers
<1>2. SameLayers(d, m)
  BY <1>1, PaintKeeps
<1>3. LayersOK(m)
  <2>1. LayersOK(d)
    BY <1>1, SameLayersShow
  <2> HIDE DEF d, m
  <2> QED BY <1>2, <2>1, SameLayersShow
<1>4. ASSUME NEW row \in Rows \ hidden PROVE Shown(m, row, stale)
  <2>1. Shown(d, row, stale)
    BY DrawShows DEF AllShown
  <2> HIDE DEF d
  <2> QED BY <1>1, <2>1, CopyShows
<1> HIDE DEF d, m
<1>5. AllShown(m, stale, hidden)
  BY <1>4 DEF AllShown
<1>6. m.pos = l.pos /\ m.stack = l.stack /\ m.looks_active = l.looks_active
  BY <1>1, <1>2 DEF SameLayers
<1> QED BY <1>3, <1>5, <1>6 DEF d, m

\* A new layer goes on top.
LEMMA NewLayerOnTop ==
  ASSUME NEW s \in Seq(Layer), NEW id \in Layer, \A i \in DOMAIN s : s[i] # id,
         NEW new_height \in Nat, new_height >= Len(s)
  PROVE  UpDown(s, id, new_height) = Append(s, id)
<1> DEFINE n == Len(s)
<1>0. n \in Nat /\ \A i \in DOMAIN s : s[i] # id
  BY LenProperties
<1>1. HeightOf(s, id) = -1
  BY DEF HeightOf
<1>2. UpDown(s, id, new_height) = InsertAt(s, n + 1, id)
  BY <1>0, <1>1 DEF UpDown
<1>3. SubSeq(s, 1, (n + 1) - 1) = s
  <2>1. (n + 1) - 1 = n
    BY <1>0
  <2> QED BY <2>1, SubSeqFull
<1>4. SubSeq(s, n + 1, n) = << >>
  BY <1>0, SubSeqEmpty
<1>5. InsertAt(s, n + 1, id) = (s \o <<id>>) \o << >>
  BY <1>3, <1>4 DEF InsertAt
<1>6. s \o <<id>> \in Seq(Layer)
  OBVIOUS
<1>7. (s \o <<id>>) \o << >> = s \o <<id>>
  BY <1>6, ConcatEmptySeq
<1>8. Append(s, id) = s \o <<id>>
  BY AppendIsConcat
<1> QED BY <1>2, <1>5, <1>7, <1>8

-----------------------------------------------------------------------------
(* The invariant.                                                          *)

BootStack == <<Background, Console, TextWindow>>

\* The windows written to and not drawn since.
Stale == (IF message THEN {Terminal} ELSE {}) \cup (IF app = "writing" THEN {AppWindow} ELSE {})

\* The rows of a cursor that has not been painted yet.
NoCursor == IF moved THEN {} ELSE {row \in Rows : Covers(lm, Mouse, row)}

\* The rows of the window that the terminal's Activate has changed and draws next.
Undrawn == IF pc \in Drawing THEN WindowRows(lm, active) ELSE {}

Hidden == NoCursor \cup Undrawn

TypeInv ==
  /\ active \in Draggable \cup {NoLayer} /\ drag_layer_id \in Draggable \cup {NoLayer}
  /\ position \in Rows /\ message \in BOOLEAN
  /\ previous_left_pressed \in BOOLEAN

\* Before and after the mouse is set up.
StackInv ==
  IF pc = "boot"
  THEN ~moved /\ lm.stack = BootStack /\ lm.pos = StartAt /\ drag_layer_id = NoLayer
  ELSE Len(lm.stack) >= 4 /\ lm.stack[Len(lm.stack)] = Mouse

LooksInv ==
  ~raced => lm.looks_active = IF pc \in InActivate THEN {} ELSE {active} \ {NoLayer}

DragInv == drag_layer_id # NoLayer => previous_left_pressed

IInv ==
  /\ TypeInv /\ StackInv /\ LooksInv /\ DragInv
  /\ LayersOK(lm) /\ AllShown(lm, Stale, Hidden)

\* numeric_limits<int>::max() is above any height.
LEMMA IntMaxIsLarge == IntMax \in Nat /\ IntMax >= 6
BY SMT DEF IntMax

\* The stack that the kernel boots with.
LEMMA BootStackOK ==
  /\ BootStack \in Seq(Layer) /\ Len(BootStack) = 3 /\ DOMAIN BootStack = 1 .. 3
  /\ StackOK(BootStack) /\ \A i \in DOMAIN BootStack : BootStack[i] # Mouse
  /\ UpDown(UpDown(UpDown(<<>>, Background, 0), Console, 1), TextWindow, IntMax) = BootStack
<1> USE DEF Background, Console, TextWindow, Mouse, Layer
<1>1. BootStack \in Seq(Layer) /\ Len(BootStack) = 3 /\ DOMAIN BootStack = 1 .. 3
      /\ BootStack[1] = 1 /\ BootStack[2] = 2 /\ BootStack[3] = 3
  BY DEF BootStack
<1>2. StackOK(BootStack) /\ \A i \in DOMAIN BootStack : BootStack[i] # Mouse
  BY <1>1 DEF StackOK, IsInjective
<1>3. UpDown(<<>>, Background, 0) = <<Background>>
  <2>1. UpDown(<<>>, Background, 0) = Append(<<>>, Background)
    <3> DEFINE s == << >>
    <3>1. /\ s \in Seq(Layer) /\ (\A i \in DOMAIN s : s[i] # Background) /\ 0 >= Len(s)
          /\ Background \in Layer
      OBVIOUS
    <3> HIDE DEF s, Background, Layer
    <3>2. UpDown(s, Background, 0) = Append(s, Background)
      BY <3>1, NewLayerOnTop
    <3> QED BY <3>2 DEF s
  <2> QED BY <2>1
<1>4. UpDown(<<Background>>, Console, 1) = <<Background, Console>>
  <2>1. UpDown(<<Background>>, Console, 1) = Append(<<Background>>, Console)
    <3> DEFINE s == <<Background>>
    <3>1. /\ s \in Seq(Layer) /\ (\A i \in DOMAIN s : s[i] # Console) /\ 1 >= Len(s)
          /\ Console \in Layer
      OBVIOUS
    <3> HIDE DEF s, Background, Console, Layer
    <3>2. UpDown(s, Console, 1) = Append(s, Console)
      BY <3>1, NewLayerOnTop
    <3> QED BY <3>2 DEF s
  <2> QED BY <2>1
<1>5. UpDown(<<Background, Console>>, TextWindow, IntMax) = BootStack
  <2>1. UpDown(<<Background, Console>>, TextWindow, IntMax) = Append(<<Background, Console>>, TextWindow)
    <3> DEFINE s == <<Background, Console>>
    <3>1. /\ s \in Seq(Layer) /\ (\A i \in DOMAIN s : s[i] # TextWindow) /\ 6 >= Len(s)
          /\ TextWindow \in Layer /\ Len(s) \in Nat
      OBVIOUS
    <3> HIDE DEF s, Background, Console, TextWindow, Layer
    <3>2. IntMax >= Len(s)
      BY <3>1, IntMaxIsLarge
    <3>3. UpDown(s, TextWindow, IntMax) = Append(s, TextWindow)
      BY <3>1, <3>2, IntMaxIsLarge, NewLayerOnTop
    <3> QED BY <3>3 DEF s
  <2> QED BY <2>1 DEF BootStack
<1> QED BY <1>1, <1>2, <1>3, <1>4, <1>5

\* The first picture.
LEMMA InitOK == Init => IInv
<1> SUFFICES ASSUME Init PROVE IInv
  OBVIOUS
<1>1. /\ DOMAIN Unpainted = Fields /\ Unpainted.pos = StartAt /\ Unpainted.looks_active = {}
      /\ Unpainted.stack = BootStack
  BY BootStackOK DEF Unpainted, Fields
<1>2. LayersOK(Unpainted)
  BY <1>1, BootStackOK, SizeAssumption, PlacesAssumption
  DEF LayersOK, NothingAboveMouse
<1>3. lm = Draw(Unpainted, Rows)
  BY DEF Init
<1>4. SameLayers(Unpainted, lm)
  BY <1>1, <1>3, PaintKeeps
<1>5. LayersOK(lm)
  BY <1>2, <1>4, SameLayersShow
<1>6. \A row \in Rows : Shown(lm, row, Stale)
  BY <1>2, <1>3, DrawShows
<1>7. TypeInv /\ DragInv
  <2>1. 0 \in Rows
    BY HeightAssumption DEF Rows
  <2> QED BY <2>1, Zenon DEF Init, TypeInv, DragInv
<1>8. StackInv /\ LooksInv
  BY <1>1, <1>4 DEF Init, StackInv, LooksInv, SameLayers, InActivate
<1> QED BY <1>5, <1>6, <1>7, <1>8 DEF IInv, AllShown

\* A step that only paints.
LEMMA PaintedInv ==
  ASSUME IInv, LayersOK(lm'), AllShown(lm, Stale, Hidden)', message' \in BOOLEAN,
         lm'.pos = lm.pos, lm'.stack = lm.stack, lm'.looks_active = lm.looks_active,
         UNCHANGED <<active, position, previous_left_pressed, drag_layer_id, moved, raced>>,
         pc' = "boot" <=> pc = "boot", pc' \in InActivate <=> pc \in InActivate
  PROVE  IInv'
<1>1. TypeInv'
  BY Zenon DEF IInv, TypeInv
<1>2. StackInv' /\ LooksInv' /\ DragInv'
  BY DEF IInv, StackInv, LooksInv, DragInv, InActivate
<1> QED BY <1>1, <1>2 DEF IInv

\* What is hidden depends on where the layers are and where the terminal is.
LEMMA HiddenStays ==
  ASSUME lm'.pos = lm.pos, lm'.stack = lm.stack, active' = active, moved' = moved,
         pc' \in Drawing <=> pc \in Drawing
  PROVE  Hidden' = Hidden
<1>1. \A row : Covers(lm, Mouse, row)' <=> Covers(lm, Mouse, row)
  BY DEF Covers
<1>2. WindowRows(lm, active)' = WindowRows(lm, active)
  BY DEF WindowRows, OnStack, WindowArea
<1>3. NoCursor' = NoCursor
  BY <1>1 DEF NoCursor
<1>4. Undrawn' = Undrawn
  BY <1>2 DEF Undrawn, Drawing
<1> QED BY <1>3, <1>4 DEF Hidden

\* The text window's cursor.
LEMMA BlinkTextInv ==
  ASSUME IInv, BlinkText
  PROVE  IInv'
<1> DEFINE w == Write(lm, TextWindow)
<1>1. /\ LayersOK(w) /\ AllShown(w, Stale \cup {TextWindow}, Hidden)
      /\ w.pos = lm.pos /\ w.stack = lm.stack /\ w.looks_active = lm.looks_active
  BY WriteShows DEF IInv
<1>2. lm' = DrawWindow(w, TextWindow, {})
  BY DEF BlinkText
<1> HIDE DEF w
<1>3. /\ LayersOK(lm') /\ AllShown(lm', Stale, Hidden)
      /\ lm'.pos = w.pos /\ lm'.stack = w.stack /\ lm'.looks_active = w.looks_active
  BY <1>1, <1>2, RefreshShows
<1>4. Stale' = Stale /\ message' \in BOOLEAN
  BY DEF BlinkText, Stale, IInv, TypeInv
<1>5. Hidden' = Hidden
  BY <1>1, <1>3, HiddenStays DEF BlinkText
<1>6. AllShown(lm, Stale, Hidden)'
  BY <1>3, <1>4, <1>5 DEF AllShown
<1> QED BY <1>1, <1>3, <1>4, <1>6, PaintedInv DEF BlinkText

\* The terminal's request.
LEMMA ProcessLayerMessageInv ==
  ASSUME IInv, ProcessLayerMessage
  PROVE  IInv'
<1>1. PICK stray \in StrayFor(lm, Terminal) : lm' = DrawWindow(lm, Terminal, stray)
  BY DEF ProcessLayerMessage, DrawWindow
<1>2. Stale' = Stale \ {Terminal} /\ message' \in BOOLEAN
  <2>1. message' = FALSE /\ app' = app
    BY DEF ProcessLayerMessage
  <2>2. Stale' = Stale \ {Terminal}
    BY <2>1 DEF Stale, Terminal, AppWindow
  <2> QED BY <2>1, <2>2
<1>3. /\ LayersOK(lm') /\ AllShown(lm', Stale', Hidden)
      /\ lm'.pos = lm.pos /\ lm'.stack = lm.stack /\ lm'.looks_active = lm.looks_active
  BY <1>1, <1>2, RefreshShows DEF IInv
<1>4. Hidden' = Hidden
  BY <1>3, HiddenStays DEF ProcessLayerMessage
<1>5. AllShown(lm, Stale, Hidden)'
  BY <1>3, <1>4 DEF AllShown
<1> QED BY <1>2, <1>3, <1>5, PaintedInv DEF ProcessLayerMessage

\* The terminal draws its cursor and asks.
LEMMA TerminalBlinkInv ==
  ASSUME IInv, TerminalBlink
  PROVE  IInv'
<1>1. lm' = Write(lm, Terminal)
  BY DEF TerminalBlink
<1>2. /\ LayersOK(lm') /\ AllShown(lm', Stale \cup {Terminal}, Hidden)
      /\ lm'.pos = lm.pos /\ lm'.stack = lm.stack /\ lm'.looks_active = lm.looks_active
  BY <1>1, WriteShows DEF IInv
<1>3. Stale' = Stale \cup {Terminal} /\ message' \in BOOLEAN
  BY DEF TerminalBlink, Stale
<1>4. Hidden' = Hidden
  BY <1>2, HiddenStays DEF TerminalBlink
<1>5. AllShown(lm, Stale, Hidden)'
  BY <1>2, <1>3, <1>4 DEF AllShown
<1> QED BY <1>2, <1>3, <1>5, PaintedInv DEF TerminalBlink

\* The application writes ...
LEMMA WinWriteInv ==
  ASSUME IInv, WinWrite
  PROVE  IInv'
<1>1. lm' = Write(lm, AppWindow)
  BY DEF WinWrite
<1>2. /\ LayersOK(lm') /\ AllShown(lm', Stale \cup {AppWindow}, Hidden)
      /\ lm'.pos = lm.pos /\ lm'.stack = lm.stack /\ lm'.looks_active = lm.looks_active
  BY <1>1, WriteShows DEF IInv
<1>3. Stale' = Stale \cup {AppWindow} /\ message' \in BOOLEAN
  BY DEF WinWrite, Stale, IInv, TypeInv
<1>4. Hidden' = Hidden
  BY <1>2, HiddenStays DEF WinWrite
<1>5. AllShown(lm, Stale, Hidden)'
  BY <1>2, <1>3, <1>4 DEF AllShown
<1> QED BY <1>2, <1>3, <1>5, PaintedInv DEF WinWrite

\* ... and its window is drawn.
LEMMA WinDrawInv ==
  ASSUME IInv, WinDraw
  PROVE  IInv'
<1>1. lm' = DrawWindow(lm, AppWindow, {})
  BY DEF WinDraw
<1>2. Stale' = Stale \ {AppWindow} /\ message' \in BOOLEAN
  BY DEF WinDraw, Stale, Terminal, AppWindow, IInv, TypeInv
<1>3. /\ LayersOK(lm') /\ AllShown(lm', Stale', Hidden)
      /\ lm'.pos = lm.pos /\ lm'.stack = lm.stack /\ lm'.looks_active = lm.looks_active
  BY <1>1, <1>2, RefreshShows DEF IInv
<1>4. Hidden' = Hidden
  BY <1>3, HiddenStays DEF WinDraw
<1>5. AllShown(lm, Stale, Hidden)'
  BY <1>3, <1>4 DEF AllShown
<1> QED BY <1>2, <1>3, <1>5, PaintedInv DEF WinDraw

\* The terminal's window gets its place: the Draw of where it was ...
LEMMA TerminalMoveInv ==
  ASSUME IInv, TerminalMove
  PROVE  IInv'
<1>1. PICK old \in Stray : lm' = Draw(lm, old)
  BY DEF TerminalMove
<1>2. SameLayers(lm, lm') /\ LayersOK(lm')
  <2>1. SameLayers(lm, lm')
    BY <1>1, PaintKeeps DEF IInv, LayersOK
  <2> QED BY <2>1, SameLayersShow DEF IInv
<1>3. lm'.pos = lm.pos /\ lm'.stack = lm.stack /\ lm'.looks_active = lm.looks_active
  BY <1>2 DEF SameLayers
<1>4. Stale' = Stale /\ message' \in BOOLEAN
  BY DEF TerminalMove, Stale, IInv, TypeInv
<1>5. Hidden' = Hidden
  BY <1>3, HiddenStays DEF TerminalMove, Drawing
<1>6. ASSUME NEW row \in Rows \ Hidden PROVE Shown(lm', row, Stale)
  BY <1>1, DrawShows DEF IInv, AllShown
<1>7. AllShown(lm, Stale, Hidden)'
  BY <1>4, <1>5, <1>6 DEF AllShown
<1> QED BY <1>2, <1>3, <1>4, <1>7, PaintedInv DEF TerminalMove, InActivate

\* ... and of where it is.
LEMMA TerminalPlaceInv ==
  ASSUME IInv, TerminalPlace
  PROVE  IInv'
<1>1. PICK stray \in StrayFor(lm, Terminal) : lm' = DrawWindow(lm, Terminal, stray)
  BY DEF TerminalPlace
<1>2. /\ LayersOK(lm') /\ AllShown(lm', Stale, Hidden)
      /\ lm'.pos = lm.pos /\ lm'.stack = lm.stack /\ lm'.looks_active = lm.looks_active
  BY <1>1, RefreshShows DEF IInv
<1>3. Stale' = Stale /\ message' \in BOOLEAN
  BY DEF TerminalPlace, Stale, IInv, TypeInv
<1>4. Hidden' = Hidden
  BY <1>2, HiddenStays DEF TerminalPlace, Drawing
<1>5. AllShown(lm, Stale, Hidden)'
  BY <1>2, <1>3, <1>4 DEF AllShown
<1> QED BY <1>2, <1>3, <1>5, PaintedInv DEF TerminalPlace, InActivate

\* The terminal's Activate draws what it has changed.
LEMMA TerminalDrawInv ==
  ASSUME IInv, TerminalDraw
  PROVE  IInv'
<1>1. PICK stray \in StrayFor(lm, active) : lm' = DrawWindow(lm, active, stray)
  BY DEF TerminalDraw
<1>2. active \in MayBeActive /\ LayersOK(lm) /\ AllShown(lm, Stale, Hidden)
  BY DEF IInv, TypeInv, MayBeActive
<1>3. \A row \in Rows : row \in Hidden =>
        row \in NoCursor \/ (Covers(lm, active, row) /\ OnStack(lm, active))
  BY <1>2, WindowRowsCovered DEF Hidden, Undrawn
<1>4. /\ LayersOK(lm') /\ AllShown(lm', Stale, NoCursor)
      /\ lm'.pos = lm.pos /\ lm'.stack = lm.stack /\ lm'.looks_active = lm.looks_active
  BY <1>1, <1>2, <1>3, RefreshShows
<1>5. Stale' = Stale /\ message' \in BOOLEAN
  BY DEF TerminalDraw, Stale, IInv, TypeInv
<1>6. Hidden' = NoCursor
  <2>1. Undrawn' = {}
    BY DEF TerminalDraw, Undrawn, Drawing
  <2>2. NoCursor' = NoCursor
    BY <1>4 DEF TerminalDraw, NoCursor, Covers
  <2> QED BY <2>1, <2>2 DEF Hidden
<1>7. AllShown(lm, Stale, Hidden)'
  BY <1>4, <1>5, <1>6 DEF AllShown
<1> QED BY <1>4, <1>5, <1>7, PaintedInv DEF TerminalDraw, InActivate

\* Between two draws it changes one window: the rows of that are left for later.
LEMMA ChangedInv ==
  ASSUME IInv, LayersOK(lm'), active' \in MayBeActive, active' # NoLayer,
         pc # "boot", pc' \in Drawing, pc \in Drawing => active' = active, LooksInv',
         lm'.pos = lm.pos, lm'.back = lm.back, lm'.screen = lm.screen,
         SameOrder(lm.stack, lm'.stack, active'), OnStack(lm, active') => OnStack(lm', active'),
         Len(lm'.stack) >= 4, lm'.stack[Len(lm'.stack)] = Mouse,
         \A o : o # active' => (o \in lm'.looks_active <=> o \in lm.looks_active),
         UNCHANGED <<position, previous_left_pressed, drag_layer_id, moved, app, message, raced>>
  PROVE  IInv'
<1>1. Stale' = Stale
  BY DEF Stale
<1>2. NoCursor' = NoCursor
  BY DEF NoCursor, Covers
<1>3. ASSUME NEW row \in Rows \ Hidden' PROVE Shown(lm', row, Stale)
  <2>1. row \notin NoCursor /\ row \notin WindowRows(lm', active')
    BY <1>2, <1>3 DEF Hidden, Undrawn
  <2>2. ~(Covers(lm', active', row) /\ OnStack(lm', active'))
    BY <2>1, WindowRowsCovered
  <2>3. row \notin Undrawn
    <3> SUFFICES ASSUME pc \in Drawing, row \in WindowRows(lm, active) PROVE FALSE
      BY DEF Undrawn
    <3>1. Covers(lm, active', row) /\ OnStack(lm, active')
      BY WindowRowsCovered
    <3> QED BY <2>2, <3>1 DEF Covers, WindowArea
  <2>4. Shown(lm, row, Stale)
    BY <2>1, <2>3 DEF IInv, AllShown, Hidden
  <2> QED BY <2>2, <2>4, ChangeKeeps
<1>4. AllShown(lm, Stale, Hidden)'
  BY <1>1, <1>3 DEF AllShown
<1>5. TypeInv'
  BY Zenon DEF IInv, TypeInv, MayBeActive
<1>6. StackInv' /\ DragInv'
  BY DEF IInv, StackInv, DragInv, Drawing
<1> QED BY <1>4, <1>5, <1>6 DEF IInv

\* The title bar of the window that was active ...
LEMMA TerminalDeactivateInv ==
  ASSUME IInv, TerminalDeactivate
  PROVE  IInv'
<1>1. active \in MayBeActive /\ LayersOK(lm)
  BY DEF IInv, TypeInv, MayBeActive
<1>2. /\ LayersOK(lm') /\ lm'.pos = lm.pos /\ lm'.back = lm.back /\ lm'.screen = lm.screen
      /\ lm'.stack = lm.stack /\ lm'.looks_active = lm.looks_active \ {active}
  BY <1>1, TitleChanged DEF TerminalDeactivate
<1>3. /\ pc = "activate" /\ active' = active
      /\ UNCHANGED <<position, previous_left_pressed, drag_layer_id, moved, app, message, raced>>
  BY DEF TerminalDeactivate
<1>4. Len(lm.stack) >= 4 /\ lm.stack[Len(lm.stack)] = Mouse
  BY <1>3 DEF IInv, StackInv
<1>5. CASE active # NoLayer
  <2>1. pc' = "redraw"
    BY <1>5 DEF TerminalDeactivate
  <2>2. LooksInv'
    BY <1>2, <1>3, <2>1 DEF IInv, LooksInv, InActivate
  <2>3. SameOrder(lm.stack, lm'.stack, active') /\ (OnStack(lm, active') => OnStack(lm', active'))
    BY <1>2, SameStack DEF OnStack
  <2>4. \A o : o # active' => (o \in lm'.looks_active <=> o \in lm.looks_active)
    BY <1>2, <1>3
  <2> QED BY <1>1, <1>2, <1>3, <1>4, <1>5, <2>1, <2>2, <2>3, <2>4, ChangedInv DEF Drawing
<1>6. CASE active = NoLayer
  <2>1. pc' = "assign"
    BY <1>6 DEF TerminalDeactivate
  <2>2. lm'.looks_active = lm.looks_active
    BY <1>1, <1>2, <1>6 DEF LayersOK, Layer, NoLayer
  <2>3. Stale' = Stale /\ Hidden' = Hidden
    BY <1>2, <1>3, <2>1, HiddenStays DEF Stale, Drawing
  <2>4. AllShown(lm, Stale, Hidden)'
    <3>1. SameLayers(lm, lm')
      BY <1>2, <2>2 DEF SameLayers, LayersOK
    <3>2. \A row : Shown(lm, row, Stale) => Shown(lm', row, Stale)
      BY <1>2, <3>1, SameLayersShow DEF Shown
    <3> QED BY <2>3, <3>2 DEF IInv, AllShown
  <2>5. TypeInv'
    BY <1>3, Zenon DEF IInv, TypeInv
  <2>6. StackInv' /\ LooksInv' /\ DragInv'
    BY <1>2, <1>3, <1>4, <1>6, <2>1, <2>2 DEF IInv, StackInv, LooksInv, DragInv, InActivate
  <2> QED BY <1>2, <2>4, <2>5, <2>6 DEF IInv
<1> QED BY <1>5, <1>6

\* ... active_layer_ and the terminal's own title bar ...
LEMMA TerminalAssignInv ==
  ASSUME IInv, TerminalAssign
  PROVE  IInv'
<1>1. Terminal \in Layer /\ Terminal \in MayBeActive /\ Terminal # NoLayer /\ LayersOK(lm)
  BY DEF IInv, MayBeActive, Draggable, Terminal, Layer, NoLayer
<1>2. /\ LayersOK(lm') /\ lm'.pos = lm.pos /\ lm'.back = lm.back /\ lm'.screen = lm.screen
      /\ lm'.stack = lm.stack /\ lm'.looks_active = lm.looks_active \cup {Terminal}
  BY <1>1, TitleChanged DEF TerminalAssign
<1>3. /\ pc = "assign" /\ pc' = "raise" /\ active' = Terminal
      /\ UNCHANGED <<position, previous_left_pressed, drag_layer_id, moved, app, message, raced>>
  BY DEF TerminalAssign
<1>4. Len(lm.stack) >= 4 /\ lm.stack[Len(lm.stack)] = Mouse
  BY <1>3 DEF IInv, StackInv
<1>5. LooksInv'
  BY <1>1, <1>2, <1>3 DEF IInv, LooksInv, InActivate
<1>6. SameOrder(lm.stack, lm'.stack, active') /\ (OnStack(lm, active') => OnStack(lm', active'))
  BY <1>2, SameStack DEF OnStack
<1>7. \A o : o # active' => (o \in lm'.looks_active <=> o \in lm.looks_active)
  BY <1>2, <1>3
<1> QED BY <1>1, <1>2, <1>3, <1>4, <1>5, <1>6, <1>7, ChangedInv DEF Drawing

\* ... and the stack, or nothing of it after a click on the desktop.
LEMMA TerminalRaiseInv ==
  ASSUME IInv, TerminalRaise
  PROVE  IInv'
<1>1. active \in MayBeActive /\ LayersOK(lm)
  BY DEF IInv, TypeInv, MayBeActive
<1>2. /\ pc = "raise" /\ active' = active
      /\ UNCHANGED <<position, previous_left_pressed, drag_layer_id, moved, app, message, raced>>
  BY DEF TerminalRaise
<1>3. Len(lm.stack) >= 4 /\ lm.stack[Len(lm.stack)] = Mouse
  BY <1>2 DEF IInv, StackInv
<1>4. CASE active # NoLayer
  <2>1. pc' = "draw" /\ lm' = Raised(lm, active) /\ active \in Draggable
    BY <1>1, <1>4 DEF TerminalRaise, MayBeActive
  <2>2. /\ LayersOK(lm') /\ lm'.pos = lm.pos /\ lm'.back = lm.back /\ lm'.screen = lm.screen
        /\ lm'.looks_active = lm.looks_active
        /\ Len(lm'.stack) >= 4 /\ lm'.stack[Len(lm'.stack)] = Mouse
        /\ OnStack(lm', active) /\ SameOrder(lm.stack, lm'.stack, active)
    BY <1>1, <1>3, <2>1, RaisedOK
  <2>3. LooksInv'
    BY <1>2, <2>1, <2>2 DEF IInv, LooksInv, InActivate
  <2> QED BY <1>1, <1>2, <1>4, <2>1, <2>2, <2>3, ChangedInv DEF Drawing
<1>5. CASE active = NoLayer
  <2>1. pc' \in {"run", "astray"} /\ lm' = lm
    BY <1>5 DEF TerminalRaise
  <2>2. Stale' = Stale
    BY <1>2 DEF Stale
  <2>3. Hidden' = Hidden
    <3>1. NoCursor' = NoCursor
      BY <1>2, <2>1 DEF NoCursor, Covers
    <3>2. Undrawn = {} /\ Undrawn' = {}
      BY <1>2, <1>5, <2>1 DEF Undrawn, WindowRows, Drawing
    <3> QED BY <3>1, <3>2 DEF Hidden
  <2>4. AllShown(lm, Stale, Hidden)'
    BY <2>1, <2>2, <2>3 DEF IInv, AllShown
  <2>5. message' \in BOOLEAN
    BY <1>2 DEF IInv, TypeInv
  <2> QED BY <1>1, <1>2, <2>1, <2>4, <2>5, PaintedInv DEF InActivate
<1> QED BY <1>4, <1>5

\* An application's window opens on top of the others, and is active.
LEMMA OpenWindowInv ==
  ASSUME IInv, OpenWindow
  PROVE  IInv'
<1>0. /\ Stale' = Stale /\ moved' = moved /\ position' = position
      /\ message' = message /\ previous_left_pressed' = previous_left_pressed
      /\ drag_layer_id' = drag_layer_id /\ raced' = raced /\ pc' = pc /\ pc = "run"
      /\ active' = AppWindow
  BY DEF OpenWindow, Stale
<1>1. active \in MayBeActive /\ AppWindow \in MayBeActive
  BY DEF IInv, TypeInv, Draggable, MayBeActive
<1>2. Len(lm.stack) >= 4 /\ lm.stack[Len(lm.stack)] = Mouse
  BY <1>0 DEF IInv, StackInv
<1>3. PICK stray \in StrayFor(lm, active) : lm' = Activate(lm, active, AppWindow, stray)
  BY DEF OpenWindow
<1>4. /\ Ready(lm', Stale, Hidden) /\ lm'.pos = lm.pos
      /\ lm'.looks_active = IF active = AppWindow THEN lm.looks_active
                            ELSE (lm.looks_active \ {active}) \cup ({AppWindow} \ {NoLayer})
  <2>1. Ready(lm, Stale, Hidden)
    BY <1>2 DEF IInv, Ready
  <2>2. Ready(lm', Stale, Hidden)
    BY <1>1, <1>3, <2>1, ActivateOK
  <2> DEFINE m == Activate(lm, active, AppWindow, stray)
  <2>4. /\ m.pos = lm.pos
        /\ m.looks_active = IF active = AppWindow THEN lm.looks_active
                            ELSE (lm.looks_active \ {active}) \cup ({AppWindow} \ {NoLayer})
    BY <1>1, <2>1, ActivateKeeps
  <2>5. lm' = m
    BY <1>3
  <2> HIDE DEF m
  <2> QED BY <2>2, <2>4, <2>5
<1>5. Hidden' = Hidden
  <2>1. NoCursor' = NoCursor
    BY <1>0, <1>4 DEF NoCursor, Covers
  <2>2. Undrawn = {} /\ Undrawn' = {}
    BY <1>0 DEF Undrawn, Drawing
  <2> QED BY <2>1, <2>2 DEF Hidden
<1>6. AllShown(lm, Stale, Hidden)' /\ LayersOK(lm')
  BY <1>0, <1>4, <1>5 DEF AllShown, Ready
<1>7. TypeInv'
  BY <1>0, <1>1, Zenon DEF IInv, TypeInv, MayBeActive
<1>8. LooksInv'
  BY <1>0, <1>4 DEF IInv, LooksInv, InActivate
<1>9. StackInv' /\ DragInv'
  BY <1>0, <1>4 DEF IInv, StackInv, DragInv, Ready
<1> QED BY <1>6, <1>7, <1>8, <1>9 DEF IInv

\* The first step of Mouse::OnInterrupt: the cursor is at its new place, and shown.
LEMMA CursorMoved ==
  ASSUME IInv, NEW displacement \in -MaxMove .. MaxMove, NEW left_pressed \in BOOLEAN,
         MouseInterrupt(displacement, left_pressed)
  PROVE  LET newpos == Clamp(position + displacement)
             k == Move(lm, Mouse, newpos, {})
         IN  /\ position' = newpos /\ newpos \in Rows /\ Ready(k, Stale, Undrawn)
             /\ k.looks_active = lm.looks_active /\ k.stack = lm.stack
             /\ k.pos = [lm.pos EXCEPT ![Mouse] = newpos]
<1> DEFINE newpos == Clamp(position + displacement)
           k == Move(lm, Mouse, newpos, {})
<1>1. position' = newpos /\ newpos \in Rows /\ newpos \in Int
  <2>1. position \in Int /\ displacement \in Int /\ Height \in Nat \ {0}
    BY HeightAssumption, MoveAssumption DEF IInv, TypeInv, Rows
  <2>2. position' = newpos
    BY DEF MouseInterrupt
  <2> QED BY <2>1, <2>2 DEF Clamp, Rows
<1> HIDE DEF newpos
<1>2. LayersOK(lm) /\ AllShown(lm, Stale, Hidden) /\ Mouse \in Layer /\ Mouse # Background
  BY DEF IInv, Mouse, Layer, Background
<1>3. \A row \in Rows : row \in Hidden => row \in Undrawn \/ row \in WindowArea(lm, Mouse)
  BY <1>2, CoversWindow DEF Hidden, NoCursor
<1>4. /\ LayersOK(k) /\ AllShown(k, Stale, Undrawn)
      /\ k.pos = [lm.pos EXCEPT ![Mouse] = newpos]
      /\ k.stack = lm.stack /\ k.looks_active = lm.looks_active
  BY <1>1, <1>2, <1>3, MoveOK
<1> HIDE DEF k
<1>5. Len(lm.stack) >= 4 /\ lm.stack[Len(lm.stack)] = Mouse
  BY DEF MouseInterrupt, IInv, StackInv, Running
<1>6. Ready(k, Stale, Undrawn)
  BY <1>4, <1>5 DEF Ready
<1> QED BY <1>1, <1>4, <1>6 DEF k, newpos

\* Moving the mouse leaves the rows of the other windows where they are.
LEMMA UndrawnIsStill ==
  ASSUME NEW k, NEW id \in MayBeActive, NEW newpos, lm.pos \in [Layer -> Int],
         k.stack = lm.stack, k.pos = [lm.pos EXCEPT ![Mouse] = newpos]
  PROVE  WindowRows(k, id) = WindowRows(lm, id)
<1>1. CASE id = NoLayer
  BY <1>1 DEF WindowRows
<1>2. CASE id # NoLayer
  <2>1. id \in Layer /\ id # Mouse
    BY <1>2 DEF MayBeActive, Draggable, Layer, Mouse, TextWindow, Terminal, AppWindow
  <2>2. k.pos[id] = lm.pos[id]
    BY <2>1
  <2> QED BY <2>2 DEF WindowRows, OnStack, WindowArea
<1> QED BY <1>1, <1>2

\* What a report of the mouse does: a click, a drag, or only a move.
LEMMA MouseSteps ==
  ASSUME IInv, NEW displacement \in -MaxMove .. MaxMove, NEW left_pressed \in BOOLEAN,
         MouseInterrupt(displacement, left_pressed)
  PROVE  /\ Ready(lm', Stale, Undrawn')
         /\ active' \in MayBeActive /\ drag_layer_id' \in MayBeActive
         /\ DragInv'
         /\ \/ left_pressed /\ ~previous_left_pressed
            \/ lm'.looks_active = lm.looks_active /\ active' = active
         /\ lm.looks_active = {active} \ {NoLayer} => lm'.looks_active = {active'} \ {NoLayer}
         /\ drag_layer_id # NoLayer /\ drag_layer_id' = drag_layer_id =>
              lm'.pos[drag_layer_id] - lm.pos[drag_layer_id] = position' - position
<1> DEFINE newpos == Clamp(position + displacement)
           k == Move(lm, Mouse, newpos, {})
           found == FindLayerByPosition(k, newpos, Mouse)
           target == IF found \in Draggable THEN found ELSE NoLayer
<1>1. /\ position' = newpos /\ newpos \in Rows /\ Ready(k, Stale, Undrawn)
      /\ k.looks_active = lm.looks_active /\ k.stack = lm.stack
      /\ k.pos = [lm.pos EXCEPT ![Mouse] = newpos]
  BY CursorMoved
<1>2. /\ target \in MayBeActive /\ active \in MayBeActive /\ drag_layer_id \in MayBeActive
      /\ previous_left_pressed \in BOOLEAN /\ previous_left_pressed' = left_pressed
      /\ position \in Rows /\ lm.pos \in [Layer -> Int] /\ pc' = pc
  <2>1. target \in MayBeActive
    BY DEF MayBeActive
  <2> QED BY <2>1, Zenon DEF MouseInterrupt, MayBeActive, IInv, TypeInv, LayersOK
<1>3. DragInv
  BY DEF IInv
<1>4. CASE ~previous_left_pressed /\ left_pressed
  <2>1. PICK stray \in StrayFor(k, active) :
          /\ drag_layer_id' = IF target # NoLayer THEN target ELSE drag_layer_id
          /\ active' = target /\ lm' = Activate(k, active, target, stray)
    BY <1>4 DEF MouseInterrupt
  <2> HIDE DEF k, target, newpos
  <2>a. WindowRows(k, active) = WindowRows(lm, active)
    BY <1>1, <1>2, UndrawnIsStill
  <2>b. active = target => Undrawn' = Undrawn
    <3>1. SUFFICES ASSUME active = target PROVE Undrawn' = Undrawn
      OBVIOUS
    <3>2. lm' = k /\ active' = active
      BY <2>1, <3>1 DEF Activate
    <3>3. WindowRows(lm, active)' = WindowRows(k, active)
      BY <3>2 DEF WindowRows, OnStack, WindowArea
    <3> QED BY <1>2, <2>a, <3>3 DEF Undrawn
  <2>c. \A row \in Rows : row \in Undrawn =>
          row \in Undrawn' \/ (active # target /\ row \in WindowRows(k, active))
    <3> SUFFICES ASSUME NEW row \in Rows, row \in Undrawn, active # target
                 PROVE  row \in WindowRows(k, active)
      BY <2>b
    <3> QED BY <2>a DEF Undrawn
  <2>2. /\ Ready(lm', Stale, Undrawn')
        /\ lm'.looks_active = IF active = target THEN k.looks_active
                              ELSE (k.looks_active \ {active}) \cup ({target} \ {NoLayer})
    <3>0. PICK after : after = Undrawn'
      OBVIOUS
    <3>1. \A row \in Rows : row \in Undrawn =>
            row \in after \/ (active # target /\ row \in WindowRows(k, active))
      BY <2>c, <3>0
    <3>2. Ready(k, Stale, Undrawn)
      BY <1>1
    <3>3. Ready(lm', Stale, after)
      BY <1>2, <2>1, <3>1, <3>2, ActivateOK
    <3> DEFINE m == Activate(k, active, target, stray)
    <3>5. m.looks_active = IF active = target THEN k.looks_active
                           ELSE (k.looks_active \ {active}) \cup ({target} \ {NoLayer})
      BY <1>2, <3>2, ActivateKeeps
    <3>6. lm' = m
      BY <2>1
    <3> HIDE DEF m
    <3> QED BY <3>0, <3>3, <3>5, <3>6
  <2>4. lm.looks_active = {active} \ {NoLayer} => lm'.looks_active = {active'} \ {NoLayer}
    BY <1>1, <2>1, <2>2
  <2>5. drag_layer_id = NoLayer
    BY <1>3, <1>4 DEF DragInv
  <2>6. drag_layer_id' \in MayBeActive /\ DragInv'
    BY <1>2, <1>4, <2>1 DEF DragInv
  <2> QED BY <1>2, <1>4, <2>1, <2>2, <2>4, <2>5, <2>6
<1>5. CASE ~(~previous_left_pressed /\ left_pressed)
  <2>1. /\ lm' = IF left_pressed /\ drag_layer_id # NoLayer
                 THEN Move(k, drag_layer_id, k.pos[drag_layer_id] + newpos - position, {})
                 ELSE k
        /\ drag_layer_id' = IF left_pressed THEN drag_layer_id ELSE NoLayer
        /\ active' = active
    BY <1>5 DEF MouseInterrupt
  <2> HIDE DEF k, target, newpos
  <2>2. drag_layer_id' \in MayBeActive /\ DragInv'
    BY <1>2, <2>1 DEF DragInv, MayBeActive
  <2>a. WindowRows(k, active) = WindowRows(lm, active)
    BY <1>1, <1>2, UndrawnIsStill
  <2>3. CASE left_pressed /\ drag_layer_id # NoLayer
    <3> DEFINE p == k.pos[drag_layer_id] + newpos - position
               m == Move(k, drag_layer_id, p, {})
    <3>1. /\ drag_layer_id \in Layer /\ drag_layer_id # Background /\ drag_layer_id # Mouse
      BY <1>2, <2>3 DEF MayBeActive, Draggable, Layer, Background, Mouse,
                        TextWindow, Terminal, AppWindow
    <3>2. k.pos[drag_layer_id] = lm.pos[drag_layer_id] /\ lm.pos[drag_layer_id] \in Int
          /\ k.pos \in [Layer -> Int]
      <4>1. newpos \in Int
        BY <1>1, HeightAssumption DEF Rows
      <4> QED BY <1>1, <1>2, <3>1, <4>1
    <3>3. p \in Int /\ newpos \in Int /\ position \in Int
      BY <1>1, <1>2, <3>2, HeightAssumption DEF Rows
    <3>4. p - lm.pos[drag_layer_id] = position' - position
      BY <1>1, <3>2, <3>3
    <3>5. LayersOK(k) /\ AllShown(k, Stale, Undrawn) /\ DOMAIN k = Fields
      BY <1>1 DEF Ready, LayersOK
    <3>6. lm' = m
      BY <2>1, <2>3
    <3> HIDE DEF p
    <3>7. /\ LayersOK(m) /\ m.pos = [k.pos EXCEPT ![drag_layer_id] = p]
          /\ m.stack = k.stack /\ m.looks_active = k.looks_active
      <4>1. \A row \in Rows : row \in Undrawn => row \in Undrawn \/ row \in WindowArea(k, drag_layer_id)
        OBVIOUS
      <4>2. /\ LayersOK(m) /\ AllShown(m, Stale, Undrawn)
            /\ m.pos = [k.pos EXCEPT ![drag_layer_id] = p]
            /\ m.stack = k.stack /\ m.looks_active = k.looks_active
        BY <3>1, <3>3, <3>5, <4>1, MoveOK
      <4> QED BY <4>2
    <3> HIDE DEF m
    <3>8. \A row \in Rows : row \in Undrawn => row \in Undrawn' \/ row \in WindowArea(k, drag_layer_id)
      <4> SUFFICES ASSUME NEW row \in Rows, row \in Undrawn, row \notin WindowArea(k, drag_layer_id)
                   PROVE  row \in Undrawn'
        OBVIOUS
      <4>1. pc \in Drawing /\ row \in WindowRows(k, active)
        BY <2>a DEF Undrawn
      <4>2. active # drag_layer_id
        BY <4>1 DEF WindowRows
      <4>3. lm'.pos[active] = k.pos[active] /\ lm'.stack = k.stack
        <5>1. active \in Layer
          BY <1>2, <4>1 DEF WindowRows, MayBeActive, Draggable, Layer, TextWindow, Terminal, AppWindow
        <5> QED BY <3>2, <3>6, <3>7, <4>2, <5>1
      <4>4. row \in WindowRows(lm', active)
        BY <4>1, <4>3 DEF WindowRows, OnStack, WindowArea
      <4> QED BY <1>2, <2>1, <4>1, <4>4 DEF Undrawn
    <3>9. AllShown(m, Stale, Undrawn')
      <4>0. PICK after : after = Undrawn'
        OBVIOUS
      <4>1. \A row \in Rows : row \in Undrawn => row \in after \/ row \in WindowArea(k, drag_layer_id)
        BY <3>8, <4>0
      <4>2. AllShown(m, Stale, after)
        BY <3>1, <3>3, <3>5, <4>1, MoveOK DEF m
      <4> QED BY <4>0, <4>2
    <3>10. Ready(lm', Stale, Undrawn')
      BY <1>1, <3>6, <3>7, <3>9 DEF Ready
    <3>11. lm'.pos[drag_layer_id] = p
      BY <3>1, <3>2, <3>6, <3>7
    <3> QED BY <1>1, <1>2, <2>1, <2>2, <3>4, <3>6, <3>7, <3>10, <3>11
  <2>4. CASE ~(left_pressed /\ drag_layer_id # NoLayer)
    <3>1. lm' = k
      BY <2>1, <2>4
    <3>2. WindowRows(lm, active)' = WindowRows(k, active)
      BY <2>1, <3>1 DEF WindowRows, OnStack, WindowArea
    <3>3. Undrawn' = Undrawn
      BY <1>2, <2>a, <3>2 DEF Undrawn
    <3> QED BY <1>1, <1>2, <1>5, <2>1, <2>2, <2>4, <3>1, <3>3
  <2> QED BY <2>3, <2>4
<1> QED BY <1>4, <1>5

\* A report of the mouse.
LEMMA MouseInterruptInv ==
  ASSUME IInv, NEW displacement \in -MaxMove .. MaxMove, NEW left_pressed \in BOOLEAN,
         MouseInterrupt(displacement, left_pressed)
  PROVE  IInv'
<1>1. /\ Ready(lm', Stale, Undrawn')
      /\ active' \in MayBeActive /\ drag_layer_id' \in MayBeActive
      /\ DragInv'
      /\ \/ left_pressed /\ ~previous_left_pressed
         \/ lm'.looks_active = lm.looks_active /\ active' = active
      /\ lm.looks_active = {active} \ {NoLayer} => lm'.looks_active = {active'} \ {NoLayer}
  BY MouseSteps
<1>2. position' \in Rows
  BY CursorMoved
<1>3. /\ moved' = TRUE /\ pc' = pc /\ pc # "boot" /\ app' = app /\ message' = message
      /\ previous_left_pressed' = left_pressed
      /\ raced' = (raced \/ (left_pressed /\ ~previous_left_pressed /\ pc \in InActivate))
  BY DEF MouseInterrupt, Running
<1>4. Hidden' = Undrawn' /\ Stale' = Stale
  BY <1>3 DEF Hidden, NoCursor, Stale
<1>5. LayersOK(lm') /\ AllShown(lm, Stale, Hidden)' /\ StackInv'
  BY <1>1, <1>3, <1>4 DEF Ready, StackInv, AllShown
<1>6. TypeInv'
  BY <1>1, <1>2, <1>3, Zenon DEF IInv, TypeInv, MayBeActive
<1>7. LooksInv'
  BY <1>1, <1>3 DEF IInv, LooksInv, InActivate
<1> QED BY <1>1, <1>5, <1>6, <1>7 DEF IInv

\* The mouse's layer goes on top, its cursor not painted yet.
LEMMA InitializeMouseInv ==
  ASSUME IInv, InitializeMouse
  PROVE  IInv'
<1>1. PICK old \in Stray, stray \in Stray :
        lm' = [Copy(Draw([lm EXCEPT !.pos[Mouse] = StartAt[Mouse]], old), stray)
                 EXCEPT !.stack = UpDown(@, Mouse, IntMax)]
  BY DEF InitializeMouse
<1>2. /\ pc = "boot" /\ lm.stack = BootStack /\ lm.pos = StartAt /\ ~moved /\ drag_layer_id = NoLayer
      /\ LayersOK(lm) /\ AllShown(lm, Stale, Hidden) /\ LooksInv
  BY DEF IInv, StackInv, InitializeMouse
<1>3. /\ active' = active /\ previous_left_pressed' = previous_left_pressed /\ moved' = moved
      /\ drag_layer_id' = drag_layer_id /\ app' = app /\ message' = message /\ raced' = raced
      /\ position' = StartAt[Mouse] /\ pc' = "start"
  BY DEF InitializeMouse
<1> DEFINE j == [lm EXCEPT !.pos[Mouse] = StartAt[Mouse]]
           k == Copy(Draw(j, old), stray)
           t == UpDown(BootStack, Mouse, IntMax)
<1>4. /\ DOMAIN j = Fields /\ j.pos = lm.pos /\ j.stack = lm.stack /\ j.looks_active = lm.looks_active
      /\ j.back = lm.back /\ j.screen = lm.screen
  BY <1>2 DEF LayersOK, Fields
<1> HIDE DEF j
<1>5. SameLayers(lm, j)
  BY <1>4 DEF SameLayers
<1>6. LayersOK(j) /\ AllShown(j, Stale, Hidden)
  BY <1>2, <1>4, <1>5, SameLayersShow DEF AllShown, Shown
<1>7. /\ LayersOK(k) /\ AllShown(k, Stale, Hidden)
      /\ k.pos = j.pos /\ k.stack = j.stack /\ k.looks_active = j.looks_active
  BY <1>6, StrayShows
<1>8. lm' = [k EXCEPT !.stack = UpDown(@, Mouse, IntMax)]
  BY <1>1 DEF k, j
<1> HIDE DEF k
<1>9. /\ DOMAIN lm' = Fields /\ lm'.pos = StartAt /\ lm'.stack = t /\ lm'.looks_active = lm.looks_active
      /\ lm'.back = k.back /\ lm'.screen = k.screen
  BY <1>2, <1>4, <1>7, <1>8 DEF LayersOK, Fields
<1>10. /\ t \in Seq(Layer) /\ Len(t) = 4 /\ DOMAIN t = 1 .. 4
       /\ t[4] = Mouse /\ \A i \in 1 .. 3 : t[i] = BootStack[i]
  <2>1. Mouse \in Layer /\ 3 \in Nat
    BY DEF Mouse, Layer
  <2>2. t = Append(BootStack, Mouse)
    <3>1. BootStack \in Seq(Layer) /\ \A i \in DOMAIN BootStack : BootStack[i] # Mouse
      BY BootStackOK
    <3>2. IntMax \in Nat /\ IntMax >= Len(BootStack)
      BY BootStackOK, IntMaxIsLarge
    <3> QED BY <2>1, <3>1, <3>2, NewLayerOnTop
  <2> HIDE DEF t
  <2>3. /\ t \in Seq(Layer) /\ Len(t) = Len(BootStack) + 1
        /\ \A i \in 1 .. Len(BootStack) : t[i] = BootStack[i]
        /\ t[Len(BootStack) + 1] = Mouse
    <3>1. BootStack \in Seq(Layer)
      BY BootStackOK
    <3> QED BY <2>1, <2>2, <3>1, AppendProperties
  <2>4. Len(t) = 4 /\ t[4] = Mouse /\ \A i \in 1 .. 3 : t[i] = BootStack[i]
    BY <2>3, BootStackOK
  <2> QED BY <2>3, <2>4, LenProperties
<1> HIDE DEF t
<1>11. StackOK(t) /\ NothingAboveMouse(t) /\ SameOrder(BootStack, t, Mouse)
  <2>1. \A i \in 1 .. 3 : BootStack[i] # Mouse
    BY BootStackOK
  <2>2. \A a, b \in 1 .. 3 : BootStack[a] = BootStack[b] => a = b
    BY BootStackOK DEF StackOK, IsInjective
  <2>3. IsInjective(t)
    <3> SUFFICES ASSUME NEW a \in 1 .. 4, NEW b \in 1 .. 4, t[a] = t[b] PROVE a = b
      BY <1>10 DEF IsInjective
    <3>1. CASE a \in 1 .. 3 /\ b \in 1 .. 3
      BY <1>10, <2>2, <3>1
    <3>2. CASE a = 4 \/ b = 4
      BY <1>10, <2>1, <3>2
    <3> QED BY <3>1, <3>2
  <2>4. StackOK(t)
    BY <1>10, <2>3, BootStackOK DEF StackOK
  <2>5. NothingAboveMouse(t)
    BY <1>10, <2>1 DEF NothingAboveMouse
  <2>6. SameOrder(BootStack, t, Mouse)
    <3> SUFFICES ASSUME NEW i \in DOMAIN BootStack, BootStack[i] # Mouse
                 PROVE  \E h \in DOMAIN t :
                          /\ t[h] = BootStack[i]
                          /\ \A m \in DOMAIN t : m > h /\ t[m] # Mouse =>
                               \E n \in DOMAIN BootStack : n > i /\ BootStack[n] = t[m]
      BY DEF SameOrder
    <3>1. i \in 1 .. 3 /\ i \in DOMAIN t /\ t[i] = BootStack[i]
      BY <1>10, BootStackOK
    <3>2. ASSUME NEW m \in DOMAIN t, m > i, t[m] # Mouse
          PROVE  \E n \in DOMAIN BootStack : n > i /\ BootStack[n] = t[m]
      <4>1. m \in 1 .. 3
        BY <1>10, <3>2
      <4> QED BY <1>10, <3>2, <4>1, BootStackOK
    <3> QED BY <3>1, <3>2
  <2> QED BY <2>4, <2>5, <2>6
<1>12. LayersOK(lm')
  BY <1>2, <1>9, <1>11 DEF LayersOK
<1>13. Stale' = Stale
  BY <1>3 DEF Stale
<1>14. ASSUME NEW row \in Rows \ Hidden' PROVE Shown(lm', row, Stale)
  <2>1. ~Covers(lm', Mouse, row) /\ row \notin Hidden
    BY <1>2, <1>3, <1>9 DEF Hidden, NoCursor, Undrawn, Drawing, Covers
  <2>2. \A o : (Covers(lm', o, row) <=> Covers(k, o, row)) /\ Pixel(lm', o) = Pixel(k, o)
    BY <1>2, <1>4, <1>7, <1>9 DEF Covers, WindowArea, Pixel
  <2>3. SameOrder(k.stack, lm'.stack, Mouse)
    BY <1>2, <1>4, <1>7, <1>9, <1>11
  <2>4. \A p : Shows(k, row, p, Stale) => Shows(lm', row, p, Stale)
    BY <2>1, <2>2, <2>3, OthersShow
  <2>5. Shown(k, row, Stale)
    BY <1>7, <2>1 DEF AllShown
  <2> QED BY <1>9, <2>4, <2>5 DEF Shown
<1>15. AllShown(lm, Stale, Hidden)'
  BY <1>13, <1>14 DEF AllShown
<1>16. TypeInv'
  <2>1. position' \in Rows
    BY <1>3, PlacesAssumption DEF Rows
  <2> QED BY <1>3, <2>1, Zenon DEF IInv, TypeInv
<1>17. StackInv' /\ DragInv'
  BY <1>2, <1>3, <1>9, <1>10 DEF StackInv, DragInv
<1>18. LooksInv'
  BY <1>2, <1>3, <1>9 DEF LooksInv, InActivate
<1> QED BY <1>12, <1>15, <1>16, <1>17, <1>18 DEF IInv

\* Every step keeps the invariant.
LEMMA NextInv == IInv /\ [Next]_vars => IInv'
<1> SUFFICES ASSUME IInv, [Next]_vars PROVE IInv'
  OBVIOUS
<1>1. CASE InitializeMouse
  BY <1>1, InitializeMouseInv
<1>2. CASE \E d \in -MaxMove .. MaxMove, left_pressed \in BOOLEAN : MouseInterrupt(d, left_pressed)
  BY <1>2, MouseInterruptInv
<1>3. CASE BlinkText
  BY <1>3, BlinkTextInv
<1>4. CASE ProcessLayerMessage
  BY <1>4, ProcessLayerMessageInv
<1>5. CASE TerminalMove
  BY <1>5, TerminalMoveInv
<1>a. CASE TerminalPlace
  BY <1>a, TerminalPlaceInv
<1>b. CASE TerminalDeactivate
  BY <1>b, TerminalDeactivateInv
<1>c. CASE TerminalDraw
  BY <1>c, TerminalDrawInv
<1>d. CASE TerminalAssign
  BY <1>d, TerminalAssignInv
<1>e. CASE TerminalRaise
  BY <1>e, TerminalRaiseInv
<1>7. CASE TerminalBlink
  BY <1>7, TerminalBlinkInv
<1>8. CASE OpenWindow
  BY <1>8, OpenWindowInv
<1>9. CASE WinWrite
  BY <1>9, WinWriteInv
<1>10. CASE WinDraw
  BY <1>10, WinDrawInv
<1>11. CASE UNCHANGED vars
  <2>1. Hidden' = Hidden /\ Stale' = Stale
    BY <1>11, HiddenStays DEF vars, Stale
  <2> QED BY <1>11, <2>1 DEF vars, IInv, TypeInv, StackInv, LooksInv, DragInv
<1>12. CASE Astray
  BY <1>11, <1>12 DEF Astray
<1> QED BY <1>1, <1>2, <1>3, <1>4, <1>5, <1>7, <1>8, <1>9, <1>10, <1>11, <1>12,
           <1>a, <1>b, <1>c, <1>d, <1>e DEF Next

-----------------------------------------------------------------------------
(* What the layers promise.                                                *)

\* The invariant holds in every behaviour of the layers.
THEOREM InvariantHolds == Spec => []IInv
BY InitOK, NextInv, PTL DEF Spec

\* LayerManager::UpDown and ActiveLayer::Activate keep the mouse on top and
\* every layer on the stack once.
THEOREM MouseOnTopHolds == Spec => []MouseOnTop
<1>1. IInv => MouseOnTop
  BY DEF IInv, StackInv, LayersOK, StackOK, MouseOnTop, Last
<1> QED BY <1>1, InvariantHolds, PTL

\* ActiveLayer::Activate leaves one bright title bar, the active window's.
THEOREM OneLooksActiveHolds == Spec => []OneLooksActive
<1>1. IInv => OneLooksActive
  BY DEF IInv, LooksInv, OneLooksActive, InActivate
<1> QED BY <1>1, InvariantHolds, PTL

\* LayerManager's partial repaints leave the screen as the stack says.
THEOREM ScreenShowsStackHolds == Spec => []ScreenShowsStack
<1>1. IInv => ScreenShowsStack
  <2> SUFFICES ASSUME IInv, ~message /\ app # "writing", NEW row \in Rows,
                      ~(~moved /\ row - lm.pos[Mouse] \in CursorRows),
                      ~(pc \in Drawing /\ active # NoLayer /\ row \in WindowArea(lm, active))
               PROVE  lm.screen[row] = Painted(row)
    BY DEF ScreenShowsStack
  <2>1. Stale = {} /\ row \notin Hidden /\ LayersOK(lm)
    BY DEF Stale, Hidden, NoCursor, Undrawn, WindowRows, Covers, IInv
  <2>2. Shows(lm, row, lm.screen[row], {})
    BY <2>1 DEF IInv, AllShown, Shown
  <2>3. PICK i \in DOMAIN lm.stack : IsTop(lm, row, i) /\ lm.screen[row] = Pixel(lm, lm.stack[i])
    BY <2>2 DEF Shows
  <2> DEFINE above == {j \in DOMAIN lm.stack :
                         IF lm.stack[j] = Mouse THEN row - lm.pos[Mouse] \in CursorRows
                         ELSE row \in WindowArea(lm, lm.stack[j])}
  <2>4. \A j \in DOMAIN lm.stack : j \in above <=> Covers(lm, lm.stack[j], row)
    BY DEF Covers
  <2>5. Painted(row) = Pixel(lm, lm.stack[Max(above)])
    BY DEF Painted
  <2>6. above \subseteq DOMAIN lm.stack
    OBVIOUS
  <2> HIDE DEF above
  <2>7. DOMAIN lm.stack = 1 .. Len(lm.stack) /\ Len(lm.stack) \in Nat
    BY <2>1, StackFacts
  <2>8. i \in above /\ \A j \in above : i >= j
    <3>1. i \in above
      BY <2>3, <2>4 DEF IsTop
    <3>2. ASSUME NEW j \in above PROVE i >= j
      <4>1. j \in DOMAIN lm.stack /\ Covers(lm, lm.stack[j], row)
        BY <2>4, <2>6
      <4>2. ~(j > i)
        BY <2>3, <4>1 DEF IsTop
      <4> QED BY <2>7, <4>1, <4>2
    <3> QED BY <3>1, <3>2
  <2>9. Max(above) = i
    <3>1. Max(above) \in above /\ \A j \in above : Max(above) >= j
      BY <2>8 DEF Max
    <3> QED BY <2>6, <2>7, <2>8, <3>1
  <2> QED BY <2>3, <2>5, <2>9
<1> QED BY <1>1, InvariantHolds, PTL

\* Mouse::OnInterrupt moves the dragged window as far as the mouse, whatever
\* else the tasks paint in between.
THEOREM DragFollowsMouseHolds == Spec => DragFollowsMouse
<1> DEFINE Follows == drag_layer_id # NoLayer /\ drag_layer_id' = drag_layer_id =>
                        lm'.pos[drag_layer_id] - lm.pos[drag_layer_id] = position' - position
<1>1. IInv /\ [Next]_vars => [Follows]_vars
  <2> SUFFICES ASSUME IInv, Next, drag_layer_id # NoLayer, drag_layer_id' = drag_layer_id
               PROVE  lm'.pos[drag_layer_id] - lm.pos[drag_layer_id] = position' - position
    OBVIOUS
  <2>0. /\ LayersOK(lm) /\ lm.pos[drag_layer_id] \in Int /\ position \in Int
        /\ active \in Layer \cup {NoLayer} /\ active \in MayBeActive /\ DOMAIN lm = Fields
    BY HeightAssumption DEF IInv, TypeInv, LayersOK, Rows, Draggable, Layer, MayBeActive,
                            TextWindow, Terminal, AppWindow
  <2>1. CASE \E d \in -MaxMove .. MaxMove, left_pressed \in BOOLEAN : MouseInterrupt(d, left_pressed)
    BY <2>1, MouseSteps
  <2>2. CASE InitializeMouse
    BY <2>2 DEF InitializeMouse, IInv, StackInv
  <2>3. ASSUME lm'.pos = lm.pos, position' = position
        PROVE  lm'.pos[drag_layer_id] - lm.pos[drag_layer_id] = position' - position
    BY <2>0, <2>3
  <2>4. CASE BlinkText
    <3> DEFINE w == Write(lm, TextWindow)
    <3>1. SameLayers(lm, w)
      BY <2>0, PaintKeeps
    <3> HIDE DEF w
    <3>2. SameLayers(w, DrawWindow(w, TextWindow, {}))
      BY <3>1, PaintKeeps DEF SameLayers
    <3> QED BY <2>3, <2>4, <3>1, <3>2 DEF BlinkText, SameLayers, w
  <2>5. CASE ProcessLayerMessage
    <3>1. PICK stray \in StrayFor(lm, Terminal) : lm' = DrawWindow(lm, Terminal, stray)
      BY <2>5 DEF ProcessLayerMessage, DrawWindow
    <3>2. SameLayers(lm, lm')
      BY <2>0, <3>1, PaintKeeps
    <3> QED BY <2>3, <2>5, <3>2 DEF ProcessLayerMessage, SameLayers
  <2>6. CASE TerminalMove
    <3>1. PICK old \in Stray : lm' = Draw(lm, old)
      BY <2>6 DEF TerminalMove
    <3>2. SameLayers(lm, lm')
      BY <2>0, <3>1, PaintKeeps
    <3> QED BY <2>3, <2>6, <3>2 DEF TerminalMove, SameLayers
  <2>7. CASE TerminalPlace
    <3>1. PICK stray \in StrayFor(lm, Terminal) : lm' = DrawWindow(lm, Terminal, stray)
      BY <2>7 DEF TerminalPlace
    <3>2. SameLayers(lm, lm')
      BY <2>0, <3>1, PaintKeeps
    <3> QED BY <2>3, <2>7, <3>2 DEF TerminalPlace, SameLayers
  <2>8. CASE TerminalDraw
    <3>1. PICK stray \in StrayFor(lm, active) : lm' = DrawWindow(lm, active, stray)
      BY <2>8 DEF TerminalDraw
    <3>2. SameLayers(lm, lm')
      BY <2>0, <3>1, PaintKeeps
    <3> QED BY <2>3, <2>8, <3>2 DEF TerminalDraw, SameLayers
  <2>a. CASE TerminalDeactivate
    BY <2>0, <2>3, <2>a, TitleChanged DEF TerminalDeactivate
  <2>b. CASE TerminalAssign
    <3>1. Terminal \in Layer
      BY DEF Terminal, Layer
    <3> QED BY <2>0, <2>3, <2>b, <3>1, TitleChanged DEF TerminalAssign
  <2>c. CASE TerminalRaise
    <3>1. lm'.pos = lm.pos
      BY <2>0, <2>c DEF TerminalRaise, Raised, Fields
    <3> QED BY <2>3, <2>c, <3>1 DEF TerminalRaise
  <2>d. CASE Astray
    BY <2>3, <2>d DEF Astray, vars
  <2>9. CASE OpenWindow
    <3>1. PICK stray \in StrayFor(lm, active) : lm' = Activate(lm, active, AppWindow, stray)
      BY <2>9 DEF OpenWindow
    <3>2. Ready(lm, Stale, Hidden) /\ AppWindow \in MayBeActive
      BY <2>9 DEF IInv, StackInv, OpenWindow, Ready, MayBeActive, Draggable
    <3>3. lm'.pos = lm.pos
      <4> DEFINE m == Activate(lm, active, AppWindow, stray)
      <4>1. active \in MayBeActive
        BY <2>0
      <4>2. /\ m.pos = lm.pos
            /\ m.looks_active = IF active = AppWindow THEN lm.looks_active
                                ELSE (lm.looks_active \ {active}) \cup ({AppWindow} \ {NoLayer})
        BY <3>2, <4>1, ActivateKeeps
      <4>3. lm' = m
        BY <3>1
      <4> HIDE DEF m
      <4> QED BY <4>2, <4>3
    <3> QED BY <2>3, <2>9, <3>3 DEF OpenWindow
  <2>10. CASE TerminalBlink
    <3>1. SameLayers(lm, Write(lm, Terminal))
      BY <2>0, PaintKeeps
    <3> QED BY <2>3, <2>10, <3>1 DEF TerminalBlink, SameLayers
  <2>11. CASE WinWrite
    <3>1. SameLayers(lm, Write(lm, AppWindow))
      BY <2>0, PaintKeeps
    <3> QED BY <2>3, <2>11, <3>1 DEF WinWrite, SameLayers
  <2>12. CASE WinDraw
    <3>1. SameLayers(lm, DrawWindow(lm, AppWindow, {}))
      BY <2>0, PaintKeeps
    <3> QED BY <2>3, <2>12, <3>1 DEF WinDraw, SameLayers
  <2> QED BY <2>1, <2>2, <2>4, <2>5, <2>6, <2>7, <2>8, <2>9, <2>10, <2>11, <2>12,
             <2>a, <2>b, <2>c, <2>d DEF Next
<1>2. Spec => [][Follows]_vars
  BY <1>1, InvariantHolds, PTL DEF Spec
<1> QED BY <1>2 DEF DragFollowsMouse
=============================================================================
