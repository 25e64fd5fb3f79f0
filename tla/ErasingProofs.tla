--------------------------- MODULE ErasingProofs ----------------------------
(***************************************************************************)
(* What Without returns, for every sequence and every set.  The library's  *)
(* induction theorems take a predicate as an operator; here a predicate is *)
(* the set of the numbers that satisfy it, and induction follows from the  *)
(* fact that < is well-founded on the naturals.                            *)
(***************************************************************************)
EXTENDS Erasing, TLAPS, SequenceTheorems, WellFoundedInduction

(* A set of naturals has a least element.                                  *)
LEMMA LeastNatural ==
  ASSUME NEW T \in SUBSET Nat, T # {}
  PROVE  \E n \in T : \A m \in T : n <= m
<1> DEFINE less == {ss \in Nat \X Nat : ss[1] < ss[2]}
<1>1. IsWellFoundedOn(less, Nat)
  <2>1. less = OpToRel(<, Nat)
    BY Zenon DEF OpToRel
  <2> QED  BY <2>1, NatLessThanWellFounded
<1>2. PICK x \in T : \A y \in T : ~(<<y, x>> \in less)
  <2> HIDE DEF less
  <2> QED  BY <1>1, WFMin
<1>3. ASSUME NEW y \in T PROVE x <= y
  <2>1. x \in Nat /\ y \in Nat /\ <<y, x>> \notin less
    BY <1>2
  <2>2. <<y, x>>[1] = y /\ <<y, x>>[2] = x /\ <<y, x>> \in Nat \X Nat
    BY <2>1
  <2>3. ~(y < x)
    BY <2>1, <2>2
  <2> QED  BY <2>1, <2>3
<1> QED  BY <1>3

(* Induction over 0 .. n.                                                  *)
LEMMA UpTo ==
  ASSUME NEW n \in Nat, NEW T, 0 \in T, \A i \in 0 .. n - 1 : i \in T => i + 1 \in T
  PROVE  \A i \in 0 .. n : i \in T
<1> SUFFICES ASSUME ~\A i \in 0 .. n : i \in T PROVE FALSE
  OBVIOUS
<1> DEFINE out == {i \in 0 .. n : i \notin T}
<1>1. out \in SUBSET Nat /\ out # {}
  OBVIOUS
<1>2. PICK k \in out : \A m \in out : k <= m
  <2> HIDE DEF out
  <2> QED  BY <1>1, LeastNatural
<1>3. k \in 1 .. n
  OBVIOUS
<1>4. k - 1 \in T
  BY <1>2, <1>3
<1> QED  BY <1>3, <1>4

-----------------------------------------------------------------------------
(* The equation of the function Without is defined with.                   *)
Kept(s, S, f) ==
  [i \in 0 .. Len(s) |->
     IF i = 0 THEN << >>
     ELSE IF s[i] \in S THEN f[i - 1] ELSE Append(f[i - 1], s[i])]

(* It has a solution.                                                      *)
LEMMA KeptExists ==
  ASSUME NEW T, NEW s \in Seq(T), NEW S
  PROVE  \E f : f = Kept(s, S, f)
<1> DEFINE Good(n) ==
      {f \in [0 .. n -> Seq(T)] :
         /\ f[0] = << >>
         /\ \A i \in 1 .. n : f[i] = IF s[i] \in S THEN f[i - 1] ELSE Append(f[i - 1], s[i])}
           done == {n \in 0 .. Len(s) : Good(n) # {}}
<1>1. Len(s) \in Nat /\ \A i \in 1 .. Len(s) : s[i] \in T
  OBVIOUS
<1>2. 0 \in done
  <2> DEFINE e == [i \in 0 .. 0 |-> << >>]
  <2>1. << >> \in Seq(T)
    OBVIOUS
  <2>2. e \in [0 .. 0 -> Seq(T)] /\ e[0] = << >>
    BY <2>1
  <2> HIDE DEF e
  <2>3. e \in Good(0)
    BY <2>2
  <2> HIDE DEF Good
  <2> QED  BY <1>1, <2>3
<1>3. ASSUME NEW n \in 0 .. Len(s) - 1, n \in done PROVE n + 1 \in done
  <2>1. PICK f \in Good(n) : TRUE
    BY <1>3
  <2> DEFINE next == IF s[n + 1] \in S THEN f[n] ELSE Append(f[n], s[n + 1])
             g == [i \in 0 .. n + 1 |-> IF i = n + 1 THEN next ELSE f[i]]
  <2>2. f[n] \in Seq(T) /\ s[n + 1] \in T
    BY <1>1, <1>3, <2>1
  <2>3. next \in Seq(T)
    BY <2>2
  <2> HIDE DEF next
  <2>4. g \in [0 .. n + 1 -> Seq(T)]
    BY <2>1, <2>3
  <2>5. g[0] = << >> /\ g[n + 1] = next /\ \A i \in 0 .. n : g[i] = f[i]
    BY <1>3, <2>1
  <2> HIDE DEF g
  <2>6. g[n + 1] = IF s[n + 1] \in S THEN g[n] ELSE Append(g[n], s[n + 1])
    BY <1>3, <2>5 DEF next
  <2>7. ASSUME NEW i \in 1 .. n
        PROVE  g[i] = IF s[i] \in S THEN g[i - 1] ELSE Append(g[i - 1], s[i])
    <3>1. i - 1 \in 0 .. n /\ i \in 0 .. n
      BY <1>3
    <3>2. f[i] = IF s[i] \in S THEN f[i - 1] ELSE Append(f[i - 1], s[i])
      BY <2>1
    <3> QED  BY <2>5, <3>1, <3>2
  <2>8. \A i \in 1 .. n + 1 : i \in 1 .. n \/ i = n + 1
    BY <1>3
  <2>9. \A i \in 1 .. n + 1 : g[i] = IF s[i] \in S THEN g[i - 1] ELSE Append(g[i - 1], s[i])
    <3> TAKE i \in 1 .. n + 1
    <3>1. CASE i \in 1 .. n
      BY <2>7, <3>1
    <3>2. CASE i = n + 1
      <4>1. i - 1 = n
        BY <1>3, <3>2
      <4> QED  BY <2>6, <3>2, <4>1
    <3> QED  BY <2>8, <3>1, <3>2
  <2>10. g \in Good(n + 1)
    BY <2>4, <2>5, <2>9
  <2> HIDE DEF Good
  <2> QED  BY <1>1, <1>3, <2>10
<1>4. Len(s) \in done
  <2> HIDE DEF done
  <2>1. \A i \in 0 .. Len(s) - 1 : i \in done => i + 1 \in done
    BY <1>3
  <2>2. \A i \in 0 .. Len(s) : i \in done
    BY <1>1, <1>2, <2>1, UpTo, Zenon
  <2> QED  BY <1>1, <2>2
<1>5. PICK f \in Good(Len(s)) : TRUE
  BY <1>4
<1>6. \A i \in 0 .. Len(s) : i = 0 \/ i \in 1 .. Len(s)
  BY <1>1
<1>7. f = Kept(s, S, f)
  BY <1>5, <1>6 DEF Kept
<1> QED  BY <1>7

(* What is kept is a subsequence: pos maps each position of the result to  *)
(* the one its element had, in order, and leaves out nothing outside S.    *)
LEMMA WithoutPositions ==
  ASSUME NEW T, NEW s \in Seq(T), NEW S
  PROVE  /\ Without(s, S) \in Seq(T)
         /\ \E pos \in [1 .. Len(Without(s, S)) -> 1 .. Len(s)] :
              /\ \A j \in 1 .. Len(Without(s, S)) : Without(s, S)[j] = s[pos[j]]
              /\ \A j, k \in 1 .. Len(Without(s, S)) : j < k => pos[j] < pos[k]
              /\ \A i \in 1 .. Len(s) :
                   s[i] \notin S <=> \E j \in 1 .. Len(Without(s, S)) : pos[j] = i
<1> DEFINE kept == CHOOSE f : f = Kept(s, S, f)
<1>1. Without(s, S) = kept[Len(s)]
  BY DEF Without, Kept
<1>2. kept = Kept(s, S, kept)
  BY KeptExists
<1> HIDE DEF kept
<1>3. Len(s) \in Nat /\ \A i \in 1 .. Len(s) : s[i] \in T
  OBVIOUS
<1>4. /\ kept[0] = << >>
      /\ \A i \in 1 .. Len(s) :
           kept[i] = IF s[i] \in S THEN kept[i - 1] ELSE Append(kept[i - 1], s[i])
  <2> DEFINE E(i) == IF i = 0 THEN << >>
                     ELSE IF s[i] \in S THEN kept[i - 1] ELSE Append(kept[i - 1], s[i])
  <2>1. \A i \in 0 .. Len(s) : kept[i] = E(i)
    <3>1. \A i \in 0 .. Len(s) : Kept(s, S, kept)[i] = E(i)
      BY DEF Kept
    <3> HIDE DEF E
    <3> QED  BY <1>2, <3>1
  <2> QED  BY <1>3, <2>1
<1> DEFINE Pos(i, w) ==
      {pos \in [1 .. Len(w) -> 1 .. i] :
         /\ \A j \in 1 .. Len(w) : w[j] = s[pos[j]]
         /\ \A j, k \in 1 .. Len(w) : j < k => pos[j] < pos[k]
         /\ \A m \in 1 .. i : s[m] \notin S <=> \E j \in 1 .. Len(w) : pos[j] = m}
           good == {i \in 0 .. Len(s) : kept[i] \in Seq(T) /\ Pos(i, kept[i]) # {}}
<1>5. 0 \in good
  <2>1. kept[0] \in Seq(T) /\ Len(kept[0]) = 0
    BY <1>4
  <2> DEFINE none == [j \in 1 .. 0 |-> 0]
  <2>2. none \in [1 .. 0 -> 1 .. 0]
    OBVIOUS
  <2> HIDE DEF none
  <2>3. none \in Pos(0, kept[0])
    BY <2>1, <2>2
  <2> HIDE DEF Pos
  <2> QED  BY <1>3, <2>1, <2>3
<1>6. ASSUME NEW n \in 0 .. Len(s) - 1, n \in good PROVE n + 1 \in good
  <2> DEFINE w == kept[n]
             v == kept[n + 1]
  <2>1. PICK pos \in Pos(n, w) : TRUE
    BY <1>6
  <2>2. w \in Seq(T) /\ s[n + 1] \in T /\ Len(w) \in Nat
    BY <1>3, <1>6
  <2>3. v = IF s[n + 1] \in S THEN w ELSE Append(w, s[n + 1])
    BY <1>3, <1>4, <1>6
  <2>4. v \in Seq(T)
    BY <2>2, <2>3
  <2> HIDE DEF w, v
  <2>5. CASE s[n + 1] \in S
    <3>1. /\ pos \in [1 .. Len(w) -> 1 .. n]
          /\ \A j \in 1 .. Len(w) : w[j] = s[pos[j]]
          /\ \A j, k \in 1 .. Len(w) : j < k => pos[j] < pos[k]
          /\ \A m \in 1 .. n : s[m] \notin S <=> \E j \in 1 .. Len(w) : pos[j] = m
      BY <2>1
    <3>2. pos \in [1 .. Len(w) -> 1 .. n + 1]
      BY <1>6, <3>1
    <3>3. \A m \in 1 .. n + 1 : s[m] \notin S <=> \E j \in 1 .. Len(w) : pos[j] = m
      <4> TAKE m \in 1 .. n + 1
      <4>1. CASE m = n + 1
        BY <1>6, <2>5, <3>1, <4>1
      <4>2. CASE m # n + 1
        <5>1. m \in 1 .. n
          BY <1>6, <4>2
        <5> QED  BY <3>1, <5>1
      <4> QED  BY <4>1, <4>2
    <3>4. pos \in Pos(n + 1, w)
      BY <3>1, <3>2, <3>3
    <3> HIDE DEF Pos
    <3> QED  BY <1>3, <1>6, <2>2, <2>3, <2>4, <2>5, <3>4 DEF w, v
  <2>6. CASE s[n + 1] \notin S
    <3> DEFINE q == [j \in 1 .. Len(w) + 1 |-> IF j = Len(w) + 1 THEN n + 1 ELSE pos[j]]
    <3>1. /\ Len(v) = Len(w) + 1 /\ v[Len(w) + 1] = s[n + 1]
          /\ \A j \in 1 .. Len(w) : v[j] = w[j]
      BY <2>2, <2>3, <2>6
    <3>2. /\ pos \in [1 .. Len(w) -> 1 .. n]
          /\ \A j \in 1 .. Len(w) : w[j] = s[pos[j]]
          /\ \A j, k \in 1 .. Len(w) : j < k => pos[j] < pos[k]
          /\ \A m \in 1 .. n : s[m] \notin S <=> \E j \in 1 .. Len(w) : pos[j] = m
      BY <2>1
    <3>3. /\ q \in [1 .. Len(v) -> 1 .. n + 1]
          /\ q[Len(w) + 1] = n + 1 /\ \A j \in 1 .. Len(w) : q[j] = pos[j]
      BY <1>6, <2>2, <3>1, <3>2
    <3> HIDE DEF q
    <3>4. \A j \in 1 .. Len(v) : v[j] = s[q[j]]
      BY <2>2, <3>1, <3>2, <3>3
    <3>5. ASSUME NEW j \in 1 .. Len(v), NEW k \in 1 .. Len(v), j < k PROVE q[j] < q[k]
      <4>1. j \in 1 .. Len(w) /\ q[j] = pos[j] /\ pos[j] \in 1 .. n
        <5>1. j \in 1 .. Len(w)
          BY <2>2, <3>1, <3>5
        <5> QED  BY <3>2, <3>3, <5>1
      <4>2. CASE k = Len(w) + 1
        BY <1>6, <3>3, <4>1, <4>2
      <4>3. CASE k # Len(w) + 1
        <5>1. k \in 1 .. Len(w)
          BY <2>2, <3>1, <4>3
        <5> QED  BY <3>2, <3>3, <3>5, <4>1, <5>1
      <4> QED  BY <4>2, <4>3
    <3>6. \A m \in 1 .. n + 1 : s[m] \notin S <=> \E j \in 1 .. Len(v) : q[j] = m
      <4> TAKE m \in 1 .. n + 1
      <4>1. CASE m = n + 1
        BY <2>2, <2>6, <3>1, <3>3, <4>1
      <4>2. CASE m \in 1 .. n
        <5>1. s[m] \notin S => \E j \in 1 .. Len(v) : q[j] = m
          BY <2>2, <3>1, <3>2, <3>3, <4>2
        <5>2. ASSUME NEW j \in 1 .. Len(v), q[j] = m PROVE s[m] \notin S
          <6>1. j \in 1 .. Len(w)
            BY <1>6, <2>2, <3>1, <3>3, <4>2, <5>2
          <6> QED  BY <3>2, <3>3, <4>2, <5>2, <6>1
        <5> QED  BY <5>1, <5>2
      <4> QED  BY <1>6, <4>1, <4>2
    <3>7. q \in Pos(n + 1, v)
      BY <3>3, <3>4, <3>5, <3>6
    <3> HIDE DEF Pos
    <3> QED  BY <1>3, <1>6, <2>4, <3>7 DEF v
  <2> QED  BY <2>5, <2>6
<1>7. Len(s) \in good
  <2> HIDE DEF good
  <2>1. \A i \in 0 .. Len(s) - 1 : i \in good => i + 1 \in good
    BY <1>6
  <2>2. \A i \in 0 .. Len(s) : i \in good
    BY <1>3, <1>5, <2>1, UpTo, Zenon
  <2> QED  BY <1>3, <2>2
<1> QED  BY <1>1, <1>7

(* Without keeps exactly what is not in S, ...                             *)
LEMMA WithoutRange ==
  ASSUME NEW T, NEW s \in Seq(T), NEW S
  PROVE  /\ Without(s, S) \in Seq(T)
         /\ Range(Without(s, S)) = Range(s) \ S
<1> DEFINE w == Without(s, S)
<1>1. PICK pos \in [1 .. Len(w) -> 1 .. Len(s)] :
        /\ \A j \in 1 .. Len(w) : w[j] = s[pos[j]]
        /\ \A i \in 1 .. Len(s) : s[i] \notin S <=> \E j \in 1 .. Len(w) : pos[j] = i
  BY WithoutPositions
<1>2. w \in Seq(T)
  BY WithoutPositions
<1> HIDE DEF w
<1>3. DOMAIN w = 1 .. Len(w) /\ DOMAIN s = 1 .. Len(s)
  BY <1>2
<1>4. Range(w) = Range(s) \ S
  BY <1>1, <1>3 DEF Range
<1> QED  BY <1>2, <1>4 DEF w

(* ... and makes no copies.                                                *)
LEMMA WithoutInjective ==
  ASSUME NEW T, NEW s \in Seq(T), NEW S, \A i, j \in DOMAIN s : s[i] = s[j] => i = j
  PROVE  \A i, j \in DOMAIN Without(s, S) : Without(s, S)[i] = Without(s, S)[j] => i = j
<1> DEFINE w == Without(s, S)
<1>1. PICK pos \in [1 .. Len(w) -> 1 .. Len(s)] :
        /\ \A j \in 1 .. Len(w) : w[j] = s[pos[j]]
        /\ \A j, k \in 1 .. Len(w) : j < k => pos[j] < pos[k]
  BY WithoutPositions
<1>2. w \in Seq(T)
  BY WithoutPositions
<1> HIDE DEF w
<1>3. DOMAIN w = 1 .. Len(w) /\ DOMAIN s = 1 .. Len(s) /\ Len(w) \in Nat
  BY <1>2
<1>4. ASSUME NEW i \in 1 .. Len(w), NEW j \in 1 .. Len(w), w[i] = w[j] PROVE i = j
  <2>1. pos[i] = pos[j]
    BY <1>1, <1>3, <1>4
  <2> QED  BY <1>1, <1>3, <2>1
<1> QED  BY <1>3, <1>4 DEF w
=============================================================================
