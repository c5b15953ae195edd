--------------------------- MODULE SelectionProofs --------------------------
(***************************************************************************)
(* What Picked and LastOf compute, for every sequence and every set, and   *)
(* what it means for a stream of messages to follow a log.                 *)
(*                                                                         *)
(* The facts are proved by induction.  The induction theorems of the       *)
(* library have an operator as a parameter, which the provers cannot       *)
(* instantiate; WFMin, of which they are consequences, has none.  It gives *)
(* every set of numbers a least element, and with it the two principles of *)
(* induction below, which are about the set of the values that have the    *)
(* property in place of the property.                                      *)
(***************************************************************************)
EXTENDS Selections, Histories, WellFoundedInduction, TLAPS

-----------------------------------------------------------------------------
\* Sequences over a set are sequences over a larger one.
LEMMA SeqWidens == ASSUME NEW S, NEW T, S \subseteq T PROVE Seq(S) \subseteq Seq(T)
OBVIOUS

\* Applying a function to every element of a sequence gives a sequence.
LEMMA MapTyped ==
    ASSUME NEW S, NEW T, NEW s \in Seq(T), NEW f, DOMAIN f = DOMAIN s,
           f = [i \in DOMAIN s |-> f[i]], \A i \in DOMAIN s : f[i] \in S
    PROVE  f \in Seq(S)
<1>1. f \in [1 .. Len(s) -> S] /\ Len(s) \in Nat
  OBVIOUS
<1>. QED  BY <1>1

-----------------------------------------------------------------------------
(***************************************************************************)
(* Induction over numbers and over sequences.                              *)
(***************************************************************************)
\* A set of natural numbers that is not empty has a least element.
LEMMA Least ==
    ASSUME NEW S \in SUBSET Nat, S # {}
    PROVE  \E m \in S : \A k \in S : m <= k
<1>. DEFINE R == {ss \in Nat \X Nat : ss[1] < ss[2]}
<1>1. IsWellFoundedOn(R, Nat)
  BY NatLessThanWellFounded DEF OpToRel
<1>2. PICK x \in S : \A y \in S : ~(<<y, x>> \in R)
  BY <1>1, WFMin
<1>3. \A y \in S : ~(y < x)
  BY <1>2
<1>. QED  BY <1>3

\* A set that holds zero, and the successor of what it holds up to a bound, holds all
\* numbers up to the bound.
LEMMA UpTo ==
    ASSUME NEW n \in Nat, NEW Good, 0 \in Good,
           \A i \in 0 .. n - 1 : i \in Good => i + 1 \in Good
    PROVE  0 .. n \subseteq Good
<1>. DEFINE Bad == {i \in 0 .. n : i \notin Good}
<1>1. SUFFICES ASSUME Bad # {}
               PROVE  FALSE
  OBVIOUS
<1>2. PICK m \in Bad : \A k \in Bad : m <= k
  <2>1. Bad \in SUBSET Nat
    OBVIOUS
  <2>. HIDE DEF Bad
  <2>. QED  BY <1>1, <2>1, Least
<1>3. m - 1 \in 0 .. n - 1 /\ m - 1 \notin Bad
  BY <1>2
<1>. QED  BY <1>2, <1>3

\* A set of sequences that holds the empty one, and with a sequence its extensions by one
\* element, holds all of them.
LEMMA ByAppending ==
    ASSUME NEW D, NEW Good, << >> \in Good,
           \A s \in Seq(D) : \A x \in D : s \in Good => Append(s, x) \in Good
    PROVE  Seq(D) \subseteq Good
<1>. SUFFICES ASSUME NEW s \in Seq(D)
              PROVE  s \in Good
  OBVIOUS
<1>. DEFINE first(i) == SubSeq(s, 1, i)
            G == {i \in 0 .. Len(s) : first(i) \in Good}
<1>0. Len(s) \in Nat
  OBVIOUS
<1>1. 0 \in G
  <2>1. first(0) = << >>
    OBVIOUS
  <2>. HIDE DEF first
  <2>. QED  BY <1>0, <2>1
<1>2. ASSUME NEW i \in 0 .. Len(s) - 1, i \in G
      PROVE  i + 1 \in G
  <2>1. first(i) \in Seq(D) /\ s[i + 1] \in D
    OBVIOUS
  <2>2. first(i + 1) = Append(first(i), s[i + 1])
    OBVIOUS
  <2>3. i + 1 \in 0 .. Len(s)
    OBVIOUS
  <2>. HIDE DEF first
  <2>4. Append(first(i), s[i + 1]) \in Good
    BY <1>2, <2>1
  <2>. QED  BY <2>2, <2>3, <2>4
<1>3. first(Len(s)) = s
  OBVIOUS
<1>. HIDE DEF G, first
<1>4. 0 .. Len(s) \subseteq G
  BY <1>0, <1>1, <1>2, UpTo
<1>. QED  BY <1>0, <1>3, <1>4 DEF G

-----------------------------------------------------------------------------
(***************************************************************************)
(* The recursion of Picked.                                                *)
(***************************************************************************)
\* f lists what is picked from every beginning of s up to its first n elements.
Picks(f, s, S, n) ==
    f = [i \in 0 .. n |-> IF i = 0 THEN << >>
                          ELSE IF s[i] \in S THEN Append(f[i - 1], s[i]) ELSE f[i - 1]]

\* There is such a function,
LEMMA PicksExist ==
    ASSUME NEW s, NEW S, NEW n \in Nat
    PROVE  \E f : Picks(f, s, S, n)
<1>. DEFINE Good == {i \in Nat : \E f : Picks(f, s, S, i)}
<1>1. 0 \in Good
  <2>1. Picks([i \in 0 .. 0 |-> << >>], s, S, 0)
    BY DEF Picks
  <2>. QED  BY <2>1
<1>2. ASSUME NEW i \in 0 .. n - 1, i \in Good
      PROVE  i + 1 \in Good
  <2>1. PICK f : Picks(f, s, S, i)
    BY <1>2
  <2>. DEFINE g == [j \in 0 .. i + 1 |->
                      IF j <= i THEN f[j]
                      ELSE IF s[i + 1] \in S THEN Append(f[i], s[i + 1]) ELSE f[i]]
  <2>2. \A j \in 0 .. i : f[j] = IF j = 0 THEN << >>
                                 ELSE IF s[j] \in S THEN Append(f[j - 1], s[j]) ELSE f[j - 1]
    BY <2>1 DEF Picks
  <2>3. \A j \in 0 .. i + 1 :
           g[j] = IF j = 0 THEN << >>
                  ELSE IF s[j] \in S THEN Append(g[j - 1], s[j]) ELSE g[j - 1]
    <3>. SUFFICES ASSUME NEW j \in 0 .. i + 1
                  PROVE  g[j] = IF j = 0 THEN << >>
                                ELSE IF s[j] \in S THEN Append(g[j - 1], s[j]) ELSE g[j - 1]
      OBVIOUS
    <3>1. CASE j <= i
      <4>1. g[j] = f[j] /\ (j # 0 => g[j - 1] = f[j - 1])
        BY <3>1
      <4>2. j \in 0 .. i
        BY <3>1
      <4>. HIDE DEF g
      <4>. QED  BY <2>2, <4>1, <4>2
    <3>2. CASE j = i + 1
      BY <3>2
    <3>. QED  BY <3>1, <3>2
  <2>4. g = [j \in 0 .. i + 1 |-> IF j = 0 THEN << >>
               ELSE IF s[j] \in S THEN Append(g[j - 1], s[j]) ELSE g[j - 1]]
    <3>1. g = [j \in 0 .. i + 1 |-> g[j]]
      OBVIOUS
    <3>. HIDE DEF g
    <3>. QED  BY <2>3, <3>1
  <2>. HIDE DEF g
  <2>5. Picks(g, s, S, i + 1)
    BY <2>4 DEF Picks
  <2>6. i + 1 \in Nat
    OBVIOUS
  <2>. QED  BY <2>5, <2>6
<1>. HIDE DEF Good
<1>3. n \in Good
  BY <1>1, <1>2, UpTo
<1>. QED  BY <1>3 DEF Good

\* and it is the same for two sequences that begin alike.
LEMMA PicksAgree ==
    ASSUME NEW s, NEW t, NEW S, NEW n \in Nat, NEW m \in Nat, n <= m,
           \A i \in 1 .. n : s[i] = t[i],
           NEW f, Picks(f, s, S, n), NEW g, Picks(g, t, S, m)
    PROVE  f[n] = g[n]
<1>. DEFINE Good == {i \in 0 .. n : f[i] = g[i]}
<1>1. /\ \A i \in 0 .. n : f[i] = IF i = 0 THEN << >>
                           ELSE IF s[i] \in S THEN Append(f[i - 1], s[i]) ELSE f[i - 1]
      /\ \A i \in 0 .. m : g[i] = IF i = 0 THEN << >>
                           ELSE IF t[i] \in S THEN Append(g[i - 1], t[i]) ELSE g[i - 1]
  BY DEF Picks
<1>2. 0 \in Good
  BY <1>1
<1>3. ASSUME NEW i \in 0 .. n - 1, i \in Good
      PROVE  i + 1 \in Good
  <2>1. i + 1 \in 0 .. n /\ i + 1 \in 0 .. m /\ i + 1 \in 1 .. n /\ i + 1 # 0 /\ (i + 1) - 1 = i
    OBVIOUS
  <2>2. f[i] = g[i] /\ s[i + 1] = t[i + 1]
    BY <1>3, <2>1
  <2>3. /\ f[i + 1] = IF s[i + 1] \in S THEN Append(f[i], s[i + 1]) ELSE f[i]
        /\ g[i + 1] = IF t[i + 1] \in S THEN Append(g[i], t[i + 1]) ELSE g[i]
    BY <1>1, <2>1
  <2>. QED  BY <2>1, <2>2, <2>3
<1>. HIDE DEF Good
<1>4. n \in Good
  BY <1>2, <1>3, UpTo
<1>. QED  BY <1>4 DEF Good

\* Picked is the last value of such a function.
LEMMA PickedIsLast ==
    ASSUME NEW s, NEW S, Len(s) \in Nat
    PROVE  \E f : Picks(f, s, S, Len(s)) /\ Picked(s, S) = f[Len(s)]
<1>1. PICK g : Picks(g, s, S, Len(s))
  BY PicksExist
<1>. DEFINE f[i \in 0 .. Len(s)] ==
              IF i = 0 THEN << >>
              ELSE IF s[i] \in S THEN Append(f[i - 1], s[i]) ELSE f[i - 1]
<1>2. f = [i \in 0 .. Len(s) |-> IF i = 0 THEN << >>
             ELSE IF s[i] \in S THEN Append(f[i - 1], s[i]) ELSE f[i - 1]]
  BY <1>1 DEF Picks
<1>3. Picked(s, S) = f[Len(s)]
  BY DEF Picked
<1>. HIDE DEF f
<1>. QED  BY <1>2, <1>3 DEF Picks

\* Nothing is picked from the empty sequence, and of one more element that element if it
\* is in the set.
LEMMA PickedRecursion ==
    /\ \A S : Picked(<< >>, S) = << >>
    /\ \A D, S : \A s \in Seq(D), x \in D :
          Picked(Append(s, x), S) = IF x \in S THEN Append(Picked(s, S), x) ELSE Picked(s, S)
<1>1. ASSUME NEW S
      PROVE  Picked(<< >>, S) = << >>
  <2>1. Len(<< >>) = 0
    OBVIOUS
  <2>2. PICK f : Picks(f, << >>, S, 0) /\ Picked(<< >>, S) = f[0]
    BY <2>1, PickedIsLast
  <2>. QED  BY <2>2 DEF Picks
<1>2. ASSUME NEW D, NEW S, NEW s \in Seq(D), NEW x \in D
      PROVE  Picked(Append(s, x), S) = IF x \in S THEN Append(Picked(s, S), x) ELSE Picked(s, S)
  <2>. DEFINE t == Append(s, x)
              n == Len(s)
  <2>1. n \in Nat /\ Len(t) = n + 1 /\ t[n + 1] = x /\ \A i \in 1 .. n : s[i] = t[i]
    OBVIOUS
  <2>. HIDE DEF t, n
  <2>2. PICK f : Picks(f, s, S, n) /\ Picked(s, S) = f[n]
    BY <2>1, PickedIsLast DEF n
  <2>3. PICK g : Picks(g, t, S, n + 1) /\ Picked(t, S) = g[n + 1]
    BY <2>1, PickedIsLast
  <2>4. f[n] = g[n]
    <3>1. n + 1 \in Nat /\ n <= n + 1
      BY <2>1
    <3>. QED  BY <2>1, <2>2, <2>3, <3>1, PicksAgree
  <2>5. g[n + 1] = IF t[n + 1] \in S THEN Append(g[n], t[n + 1]) ELSE g[n]
    <3>1. n + 1 \in 0 .. n + 1 /\ n + 1 # 0 /\ (n + 1) - 1 = n
      BY <2>1
    <3>. QED  BY <2>3, <3>1 DEF Picks
  <2>. QED  BY <2>1, <2>2, <2>3, <2>4, <2>5 DEF t
<1>. QED  BY <1>1, <1>2

-----------------------------------------------------------------------------
(***************************************************************************)
(* What is picked.                                                         *)
(***************************************************************************)
\* Elements of the set only.
LEMMA PickedTyped ==
    ASSUME NEW D, NEW S
    PROVE  \A s \in Seq(D) : Picked(s, S) \in Seq(D \cap S) /\ Len(Picked(s, S)) <= Len(s)
<1>. DEFINE Good == {s \in Seq(D) : /\ Picked(s, S) \in Seq(D \cap S)
                                    /\ Len(Picked(s, S)) <= Len(s)}
<1>1. << >> \in Good
  <2>1. << >> \in Seq(D) /\ << >> \in Seq(D \cap S) /\ Len(<< >>) <= Len(<< >>)
    OBVIOUS
  <2>. QED  BY <2>1, PickedRecursion
<1>2. ASSUME NEW s \in Seq(D), NEW x \in D, s \in Good
      PROVE  Append(s, x) \in Good
  <2>1. Picked(Append(s, x), S) = IF x \in S THEN Append(Picked(s, S), x) ELSE Picked(s, S)
    BY PickedRecursion
  <2>2. Picked(s, S) \in Seq(D \cap S) /\ Len(Picked(s, S)) <= Len(s)
    BY <1>2
  <2>3. Append(s, x) \in Seq(D) /\ Len(Append(s, x)) = Len(s) + 1 /\ Len(s) \in Nat
    OBVIOUS
  <2>4. CASE x \in S
    BY <2>1, <2>2, <2>3, <2>4
  <2>5. CASE x \notin S
    BY <2>1, <2>2, <2>3, <2>5
  <2>. QED  BY <2>4, <2>5
<1>. HIDE DEF Good
<1>. QED  BY <1>1, <1>2, ByAppending DEF Good

\* Of two sequences one after the other, what is picked from each.
LEMMA PickedConcat ==
    ASSUME NEW D, NEW S, NEW s \in Seq(D)
    PROVE  \A t \in Seq(D) : Picked(s \o t, S) = Picked(s, S) \o Picked(t, S)
<1>. DEFINE Good == {t \in Seq(D) : Picked(s \o t, S) = Picked(s, S) \o Picked(t, S)}
<1>0. \A t \in Seq(D) : Picked(t, S) \in Seq(D \cap S)
  BY PickedTyped
<1>1. << >> \in Good
  <2>1. << >> \in Seq(D) /\ s \o << >> = s
    OBVIOUS
  <2>2. Picked(s, S) \o << >> = Picked(s, S)
    BY <1>0
  <2>. QED  BY <2>1, <2>2, PickedRecursion
<1>2. ASSUME NEW t \in Seq(D), NEW x \in D, t \in Good
      PROVE  Append(t, x) \in Good
  <2>1. Append(t, x) \in Seq(D) /\ s \o t \in Seq(D) /\ s \o Append(t, x) = Append(s \o t, x)
    OBVIOUS
  <2>2. Picked(s \o t, S) = Picked(s, S) \o Picked(t, S)
    BY <1>2
  <2>3. Picked(Append(t, x), S) = IF x \in S THEN Append(Picked(t, S), x) ELSE Picked(t, S)
    BY PickedRecursion
  <2>4. Picked(Append(s \o t, x), S)
           = IF x \in S THEN Append(Picked(s \o t, S), x) ELSE Picked(s \o t, S)
    <3>. DEFINE u == s \o t
    <3>1. u \in Seq(D)
      BY <2>1
    <3>. HIDE DEF u
    <3>2. Picked(Append(u, x), S) = IF x \in S THEN Append(Picked(u, S), x) ELSE Picked(u, S)
      BY <3>1, PickedRecursion
    <3>. QED  BY <3>2 DEF u
  <2>5. Append(Picked(s, S) \o Picked(t, S), x) = Picked(s, S) \o Append(Picked(t, S), x)
    <3>1. \A u \in Seq(D \cap S) : u \in Seq(D)
      OBVIOUS
    <3>2. PICK p \in Seq(D) : p = Picked(s, S)
      BY <1>0, <3>1
    <3>3. PICK q \in Seq(D) : q = Picked(t, S)
      BY <1>0, <3>1
    <3>4. (p \o q) \o <<x>> = p \o (q \o <<x>>)
      OBVIOUS
    <3>5. Append(q, x) = q \o <<x>>
      OBVIOUS
    <3>6. PICK w : w \in Seq(D) /\ w = p \o q
      <4>1. p \o q \in Seq(D)
        OBVIOUS
      <4>. QED  BY <4>1, Zenon
    <3>7. Append(w, x) = w \o <<x>>
      BY <3>6
    <3>. QED  BY <3>2, <3>3, <3>4, <3>5, <3>6, <3>7
  <2>6. Picked(s \o Append(t, x), S) = Picked(s, S) \o Picked(Append(t, x), S)
    BY <2>1, <2>2, <2>3, <2>4, <2>5
  <2>. QED  BY <2>1, <2>6
<1>. HIDE DEF Good
<1>. QED  BY <1>1, <1>2, ByAppending DEF Good

\* Two sets that agree on the elements of a sequence pick the same.
LEMMA PickedAgree ==
    ASSUME NEW D, NEW S, NEW T
    PROVE  \A s \in Seq(D) : (\A i \in DOMAIN s : s[i] \in S <=> s[i] \in T)
                                => Picked(s, S) = Picked(s, T)
<1>. DEFINE Good == {s \in Seq(D) : (\A i \in DOMAIN s : s[i] \in S <=> s[i] \in T)
                                       => Picked(s, S) = Picked(s, T)}
<1>1. << >> \in Good
  <2>1. << >> \in Seq(D)
    OBVIOUS
  <2>. QED  BY <2>1, PickedRecursion
<1>2. ASSUME NEW s \in Seq(D), NEW x \in D, s \in Good
      PROVE  Append(s, x) \in Good
  <2>. DEFINE t == Append(s, x)
  <2>1. t \in Seq(D)
    OBVIOUS
  <2>2. SUFFICES ASSUME \A i \in DOMAIN t : t[i] \in S <=> t[i] \in T
                 PROVE  Picked(t, S) = Picked(t, T)
    BY <2>1
  <2>3. \A i \in DOMAIN s : i \in DOMAIN t /\ t[i] = s[i]
    OBVIOUS
  <2>4. Len(s) + 1 \in DOMAIN t /\ t[Len(s) + 1] = x
    OBVIOUS
  <2>. HIDE DEF t
  <2>5. (x \in S <=> x \in T) /\ Picked(s, S) = Picked(s, T)
    BY <1>2, <2>2, <2>3, <2>4
  <2>. QED  BY <2>5, PickedRecursion DEF t
<1>. HIDE DEF Good
<1>. QED  BY <1>1, <1>2, ByAppending DEF Good

\* Everything is picked when the set has every element, nothing when it has none.
LEMMA PickedAllOrNone ==
    ASSUME NEW D, NEW S, NEW s \in Seq(D)
    PROVE  /\ (\A i \in DOMAIN s : s[i] \in S) => Picked(s, S) = s
           /\ (\A i \in DOMAIN s : s[i] \notin S) => Picked(s, S) = << >>
<1>. DEFINE Good == {t \in Seq(D) : Picked(t, D) = t /\ Picked(t, {}) = << >>}
<1>1. << >> \in Good
  <2>1. << >> \in Seq(D)
    OBVIOUS
  <2>. QED  BY <2>1, PickedRecursion
<1>2. ASSUME NEW t \in Seq(D), NEW x \in D, t \in Good
      PROVE  Append(t, x) \in Good
  <2>1. Append(t, x) \in Seq(D)
    OBVIOUS
  <2>2. Picked(t, D) = t /\ Picked(t, {}) = << >>
    BY <1>2
  <2>3. /\ Picked(Append(t, x), D) = IF x \in D THEN Append(Picked(t, D), x) ELSE Picked(t, D)
        /\ Picked(Append(t, x), {}) = IF x \in {} THEN Append(Picked(t, {}), x) ELSE Picked(t, {})
    BY PickedRecursion
  <2>4. Picked(Append(t, x), D) = Append(t, x) /\ Picked(Append(t, x), {}) = << >>
    BY <2>2, <2>3
  <2>. QED  BY <2>1, <2>4
<1>. HIDE DEF Good
<1>3. s \in Good
  BY <1>1, <1>2, ByAppending
<1>4. \A i \in DOMAIN s : s[i] \in D
  OBVIOUS
<1>5. Picked(s, D) = s /\ Picked(s, {}) = << >>
  BY <1>3 DEF Good
<1>6. ASSUME \A i \in DOMAIN s : s[i] \in S
      PROVE  Picked(s, S) = Picked(s, D)
  BY <1>4, <1>6, PickedAgree
<1>7. ASSUME \A i \in DOMAIN s : s[i] \notin S
      PROVE  Picked(s, S) = Picked(s, {})
  BY <1>7, PickedAgree
<1>. QED  BY <1>5, <1>6, <1>7

\* Picking twice is picking what is in both sets.
LEMMA PickedTwice ==
    ASSUME NEW D, NEW S, NEW T
    PROVE  \A s \in Seq(D) : Picked(Picked(s, S), T) = Picked(s, S \cap T)
<1>. DEFINE Good == {s \in Seq(D) : Picked(Picked(s, S), T) = Picked(s, S \cap T)}
<1>1. << >> \in Good
  <2>1. << >> \in Seq(D)
    OBVIOUS
  <2>. QED  BY <2>1, PickedRecursion
<1>2. ASSUME NEW s \in Seq(D), NEW x \in D, s \in Good
      PROVE  Append(s, x) \in Good
  <2>1. Append(s, x) \in Seq(D) /\ Picked(Picked(s, S), T) = Picked(s, S \cap T)
    BY <1>2
  <2>2. /\ Picked(Append(s, x), S) = IF x \in S THEN Append(Picked(s, S), x) ELSE Picked(s, S)
        /\ Picked(Append(s, x), S \cap T)
              = IF x \in S \cap T THEN Append(Picked(s, S \cap T), x) ELSE Picked(s, S \cap T)
    BY PickedRecursion
  <2>3. Picked(s, S) \in Seq(D)
    <3>1. Picked(s, S) \in Seq(D \cap S) /\ D \cap S \subseteq D
      BY PickedTyped
    <3>. QED  BY <3>1
  <2>4. Picked(Append(Picked(s, S), x), T)
           = IF x \in T THEN Append(Picked(Picked(s, S), T), x) ELSE Picked(Picked(s, S), T)
    BY <2>3, PickedRecursion
  <2>5. Picked(Picked(Append(s, x), S), T) = Picked(Append(s, x), S \cap T)
    <3>1. CASE x \in S /\ x \in T
      BY <2>1, <2>2, <2>4, <3>1
    <3>2. CASE x \notin S
      BY <2>1, <2>2, <3>2
    <3>3. CASE x \in S /\ x \notin T
      BY <2>1, <2>2, <2>4, <3>3
    <3>. QED  BY <3>1, <3>2, <3>3
  <2>. QED  BY <2>1, <2>5
<1>. HIDE DEF Good
<1>. QED  BY <1>1, <1>2, ByAppending DEF Good

\* What is picked stands in the order of the sequence: each element picked has a place
\* there, and a later one a later place.
LEMMA PickedInOrder ==
    ASSUME NEW D, NEW S
    PROVE  \A s \in Seq(D) : \E h \in [DOMAIN Picked(s, S) -> DOMAIN s] :
              /\ \A i \in DOMAIN Picked(s, S) : Picked(s, S)[i] = s[h[i]]
              /\ \A i, j \in DOMAIN Picked(s, S) : i < j => h[i] < h[j]
<1>. DEFINE Places(s, h) == /\ \A i \in DOMAIN Picked(s, S) : Picked(s, S)[i] = s[h[i]]
                            /\ \A i, j \in DOMAIN Picked(s, S) : i < j => h[i] < h[j]
            Good == {s \in Seq(D) : \E h \in [DOMAIN Picked(s, S) -> DOMAIN s] : Places(s, h)}
<1>1. << >> \in Good
  <2>1. << >> \in Seq(D) /\ DOMAIN << >> = {}
    OBVIOUS
  <2>2. [i \in {} |-> i] \in [DOMAIN << >> -> DOMAIN << >>]
    BY <2>1
  <2>3. Picked(<< >>, S) = << >>
    BY PickedRecursion
  <2>4. Places(<< >>, [i \in {} |-> i])
    BY <2>1, <2>3
  <2>. QED  BY <2>1, <2>2, <2>3, <2>4
<1>2. ASSUME NEW s \in Seq(D), NEW x \in D, s \in Good
      PROVE  Append(s, x) \in Good
  <2>. DEFINE t == Append(s, x)
              p == Picked(s, S)
              n == Len(s)
              k == Len(p)
  <2>1. /\ t \in Seq(D) /\ n \in Nat /\ DOMAIN s = 1 .. n /\ DOMAIN t = 1 .. n + 1
        /\ t[n + 1] = x /\ \A i \in 1 .. n : t[i] = s[i]
    OBVIOUS
  <2>2. p \in Seq(D \cap S) /\ Picked(t, S) = IF x \in S THEN Append(p, x) ELSE p
    BY PickedTyped, PickedRecursion
  <2>3. PICK h \in [DOMAIN p -> DOMAIN s] : Places(s, h)
    BY <1>2
  <2>4. k \in Nat /\ DOMAIN p = 1 .. k
    BY <2>2
  <2>5. /\ \A i \in 1 .. k : h[i] \in 1 .. n /\ p[i] = s[h[i]]
        /\ \A i, j \in 1 .. k : i < j => h[i] < h[j]
    BY <2>1, <2>3, <2>4
  <2>6. CASE x \notin S
    <3>1. Picked(t, S) = p
      BY <2>2, <2>6
    <3>2. h \in [DOMAIN p -> DOMAIN t]
      BY <2>1, <2>3
    <3>3. \A i \in 1 .. k : p[i] = t[h[i]]
      BY <2>1, <2>5
    <3>. HIDE DEF t, p, n, k
    <3>4. Places(t, h)
      BY <2>4, <2>5, <3>1, <3>3
    <3>5. h \in [DOMAIN Picked(t, S) -> DOMAIN t]
      BY <3>1, <3>2
    <3>6. t \in Good
      BY <2>1, <3>4, <3>5
    <3>. QED  BY <3>6 DEF t
  <2>7. CASE x \in S
    <3>. DEFINE g == [i \in 1 .. k + 1 |-> IF i = k + 1 THEN n + 1 ELSE h[i]]
    <3>1. Picked(t, S) = Append(p, x)
      BY <2>2, <2>7
    <3>2. /\ DOMAIN Append(p, x) = 1 .. k + 1 /\ Append(p, x)[k + 1] = x
          /\ \A i \in 1 .. k : Append(p, x)[i] = p[i]
      BY <2>2
    <3>. HIDE DEF t, p, n, k
    <3>3. g \in [1 .. k + 1 -> 1 .. n + 1]
      <4>1. \A i \in 1 .. k + 1 : i # k + 1 => i \in 1 .. k
        BY <2>4
      <4>2. \A i \in 1 .. k : h[i] \in 1 .. n + 1
        BY <2>1, <2>5
      <4>. QED  BY <2>1, <2>4, <4>1, <4>2
    <3>4. \A i \in 1 .. k + 1 : Append(p, x)[i] = t[g[i]]
      <4>. SUFFICES ASSUME NEW i \in 1 .. k + 1
                    PROVE  Append(p, x)[i] = t[g[i]]
        OBVIOUS
      <4>1. CASE i = k + 1
        BY <2>1, <3>2, <4>1
      <4>2. CASE i \in 1 .. k
        <5>1. g[i] = h[i]
          BY <2>4, <4>2
        <5>. QED  BY <2>1, <2>5, <3>2, <4>2, <5>1
      <4>. QED  BY <2>4, <4>1, <4>2
    <3>5. \A i, j \in 1 .. k + 1 : i < j => g[i] < g[j]
      <4>. SUFFICES ASSUME NEW i \in 1 .. k + 1, NEW j \in 1 .. k + 1, i < j
                    PROVE  g[i] < g[j]
        OBVIOUS
      <4>1. i \in 1 .. k /\ g[i] = h[i] /\ h[i] \in 1 .. n
        <5>1. i \in 1 .. k
          BY <2>4
        <5>. QED  BY <2>4, <2>5, <5>1
      <4>2. CASE j = k + 1
        BY <2>1, <4>1, <4>2
      <4>3. CASE j \in 1 .. k
        <5>1. g[j] = h[j]
          BY <2>4, <4>3
        <5>. QED  BY <2>5, <4>1, <4>3, <5>1
      <4>. QED  BY <2>4, <4>2, <4>3
    <3>. HIDE DEF g
    <3>6. Places(t, g)
      BY <3>1, <3>2, <3>4, <3>5
    <3>7. g \in [DOMAIN Picked(t, S) -> DOMAIN t]
      BY <2>1, <3>1, <3>2, <3>3
    <3>8. t \in Good
      BY <2>1, <3>6, <3>7
    <3>. QED  BY <3>8 DEF t
  <2>. QED  BY <2>6, <2>7
<1>. HIDE DEF Good
<1>3. Seq(D) \subseteq Good
  BY <1>1, <1>2, ByAppending
<1>. QED  BY <1>3 DEF Good

\* No element of the set is left out.
LEMMA PickedHolds ==
    ASSUME NEW D, NEW S
    PROVE  \A s \in Seq(D) : \A i \in DOMAIN s : s[i] \in S =>
              \E j \in DOMAIN Picked(s, S) : Picked(s, S)[j] = s[i]
<1>. DEFINE Good == {s \in Seq(D) : \A i \in DOMAIN s : s[i] \in S =>
                        \E j \in DOMAIN Picked(s, S) : Picked(s, S)[j] = s[i]}
<1>1. << >> \in Good
  <2>1. << >> \in Seq(D) /\ DOMAIN << >> = {}
    OBVIOUS
  <2>. QED  BY <2>1
<1>2. ASSUME NEW s \in Seq(D), NEW x \in D, s \in Good
      PROVE  Append(s, x) \in Good
  <2>. DEFINE t == Append(s, x)
              p == Picked(s, S)
  <2>1. /\ t \in Seq(D) /\ DOMAIN t = DOMAIN s \cup {Len(s) + 1}
        /\ t[Len(s) + 1] = x /\ \A i \in DOMAIN s : t[i] = s[i]
    OBVIOUS
  <2>2. p \in Seq(D \cap S) /\ Picked(t, S) = IF x \in S THEN Append(p, x) ELSE p
    BY PickedTyped, PickedRecursion
  <2>3. /\ DOMAIN Append(p, x) = DOMAIN p \cup {Len(p) + 1} /\ Append(p, x)[Len(p) + 1] = x
        /\ \A j \in DOMAIN p : Append(p, x)[j] = p[j]
    BY <2>2
  <2>4. \A i \in DOMAIN s : s[i] \in S => \E j \in DOMAIN p : p[j] = s[i]
    BY <1>2
  <2>. HIDE DEF t, p
  <2>5. \A i \in DOMAIN t : t[i] \in S => \E j \in DOMAIN Picked(t, S) : Picked(t, S)[j] = t[i]
    <3>. SUFFICES ASSUME NEW i \in DOMAIN t, t[i] \in S
                  PROVE  \E j \in DOMAIN Picked(t, S) : Picked(t, S)[j] = t[i]
      OBVIOUS
    <3>1. CASE i \in DOMAIN s
      <4>1. PICK j \in DOMAIN p : p[j] = t[i]
        BY <2>1, <2>4, <3>1
      <4>2. j \in DOMAIN Picked(t, S) /\ Picked(t, S)[j] = p[j]
        BY <2>2, <2>3
      <4>. QED  BY <4>1, <4>2
    <3>2. CASE i = Len(s) + 1
      BY <2>1, <2>2, <2>3, <3>2
    <3>. QED  BY <2>1, <3>1, <3>2
  <2>6. t \in Good
    BY <2>1, <2>5
  <2>. QED  BY <2>6 DEF t
<1>. HIDE DEF Good
<1>3. Seq(D) \subseteq Good
  BY <1>1, <1>2, ByAppending
<1>. QED  BY <1>3 DEF Good

\* Unless an element is left out, what is picked is the sequence.
LEMMA PickedWhole ==
    ASSUME NEW D, NEW S
    PROVE  \A s \in Seq(D) : Len(Picked(s, S)) = Len(s) => Picked(s, S) = s
<1>. DEFINE Good == {s \in Seq(D) : Len(Picked(s, S)) = Len(s) => Picked(s, S) = s}
<1>1. << >> \in Good
  <2>1. << >> \in Seq(D)
    OBVIOUS
  <2>. QED  BY <2>1, PickedRecursion
<1>2. ASSUME NEW s \in Seq(D), NEW x \in D, s \in Good
      PROVE  Append(s, x) \in Good
  <2>1. Picked(Append(s, x), S) = IF x \in S THEN Append(Picked(s, S), x) ELSE Picked(s, S)
    BY PickedRecursion
  <2>2. Picked(s, S) \in Seq(D \cap S) /\ Len(Picked(s, S)) <= Len(s)
    BY PickedTyped
  <2>3. Append(s, x) \in Seq(D) /\ Len(Append(s, x)) = Len(s) + 1 /\ Len(s) \in Nat
    OBVIOUS
  <2>4. Len(Picked(s, S)) \in Nat /\ Len(Append(Picked(s, S), x)) = Len(Picked(s, S)) + 1
    BY <2>2
  <2>5. Len(Picked(s, S)) = Len(s) => Picked(s, S) = s
    BY <1>2
  <2>6. Len(Picked(Append(s, x), S)) = Len(Append(s, x)) => Picked(Append(s, x), S) = Append(s, x)
    <3>1. CASE x \in S
      BY <2>1, <2>3, <2>4, <2>5, <3>1
    <3>2. CASE x \notin S
      BY <2>1, <2>2, <2>3, <2>4, <3>2
    <3>. QED  BY <3>1, <3>2
  <2>. QED  BY <2>3, <2>6
<1>. HIDE DEF Good
<1>. QED  BY <1>1, <1>2, ByAppending DEF Good

-----------------------------------------------------------------------------
(***************************************************************************)
(* The last elements of a sequence.                                        *)
(***************************************************************************)
\* Recording an element keeps the type.
LEMMA RecordedTyped ==
    ASSUME NEW S, NEW s \in Seq(S), NEW e \in S, NEW n \in Nat
    PROVE  Recorded(s, e, n) \in Seq(S)
<1>. DEFINE t == Append(s, e)
            k == IF Len(t) > n THEN Len(t) - n ELSE 0
<1>1. t \in Seq(S) /\ Len(t) \in Nat
  OBVIOUS
<1>2. k \in Nat /\ k <= Len(t)
  BY <1>1
<1>3. Recorded(s, e, n) = [i \in 1 .. Len(t) - k |-> t[i + k]]
  BY DEF Recorded, LastOf
<1>. HIDE DEF t, k
<1>4. \A i \in 1 .. Len(t) - k : t[i + k] \in S
  BY <1>1, <1>2
<1>5. [i \in 1 .. Len(t) - k |-> t[i + k]] \in Seq(S)
  BY <1>1, <1>2, <1>4
<1>. QED  BY <1>3, <1>5

\* A sequence that holds nothing twice.
Distinct(s) == \A i, j \in DOMAIN s : s[i] = s[j] => i = j

\* The end of a sequence, place by place.
LEMMA LastOfPlaces ==
    ASSUME NEW S, NEW s \in Seq(S), NEW k \in 0 .. Len(s)
    PROVE  /\ LastOf(s, k) \in Seq(S) /\ Len(LastOf(s, k)) = k
           /\ \A i \in 1 .. k : LastOf(s, k)[i] = s[i + (Len(s) - k)]
<1>1. k \in Nat /\ Len(s) \in Nat /\ k <= Len(s)
  OBVIOUS
<1>. DEFINE d == Len(s) - k
<1>2. LastOf(s, k) = [i \in 1 .. k |-> s[i + d]]
  <2>1. (IF Len(s) > k THEN Len(s) - k ELSE 0) = d /\ Len(s) - d = k
    BY <1>1
  <2>. HIDE DEF d
  <2>. QED  BY <2>1 DEF LastOf
<1>3. \A i \in 1 .. k : s[i + d] \in S
  BY <1>1
<1>. QED  BY <1>1, <1>2, <1>3

\* The ends of a sequence without its head, and of one with another element.
LEMMA LastOfTail ==
    ASSUME NEW S, NEW s \in Seq(S), s # << >>, NEW k \in 0 .. Len(s) - 1
    PROVE  LastOf(Tail(s), k) = LastOf(s, k)
<1>1. /\ Tail(s) \in Seq(S) /\ Len(Tail(s)) = Len(s) - 1 /\ Len(s) \in Nat
      /\ \A i \in 1 .. Len(s) - 1 : Tail(s)[i] = s[i + 1]
  OBVIOUS
<1>2. k \in 0 .. Len(s) /\ k \in 0 .. Len(Tail(s)) /\ k \in Nat
  BY <1>1
<1>3. /\ LastOf(s, k) \in Seq(S) /\ Len(LastOf(s, k)) = k
      /\ \A i \in 1 .. k : LastOf(s, k)[i] = s[i + (Len(s) - k)]
  BY <1>2, LastOfPlaces
<1>4. /\ LastOf(Tail(s), k) \in Seq(S) /\ Len(LastOf(Tail(s), k)) = k
      /\ \A i \in 1 .. k : LastOf(Tail(s), k)[i] = Tail(s)[i + (Len(Tail(s)) - k)]
  BY <1>1, <1>2, LastOfPlaces
<1>5. ASSUME NEW i \in 1 .. k
      PROVE  LastOf(Tail(s), k)[i] = LastOf(s, k)[i]
  <2>1. i + (Len(Tail(s)) - k) \in 1 .. Len(s) - 1
    BY <1>1, <1>2
  <2>2. i + (Len(Tail(s)) - k) + 1 = i + (Len(s) - k)
    BY <1>1, <1>2
  <2>. QED  BY <1>1, <1>3, <1>4, <2>1, <2>2
<1>. QED  BY <1>3, <1>4, <1>5

LEMMA LastOfAppend ==
    ASSUME NEW S, NEW s \in Seq(S), NEW x \in S, NEW k \in 0 .. Len(s)
    PROVE  LastOf(Append(s, x), k + 1) = Append(LastOf(s, k), x)
<1>. DEFINE t == Append(s, x)
<1>1. /\ t \in Seq(S) /\ Len(t) = Len(s) + 1 /\ Len(s) \in Nat /\ t[Len(s) + 1] = x
      /\ \A i \in 1 .. Len(s) : t[i] = s[i]
  OBVIOUS
<1>2. k \in Nat /\ k <= Len(s) /\ k + 1 \in 0 .. Len(t)
  BY <1>1
<1>3. /\ LastOf(s, k) \in Seq(S) /\ Len(LastOf(s, k)) = k
      /\ \A i \in 1 .. k : LastOf(s, k)[i] = s[i + (Len(s) - k)]
  BY LastOfPlaces
<1>. HIDE DEF t
<1>4. /\ LastOf(t, k + 1) \in Seq(S) /\ Len(LastOf(t, k + 1)) = k + 1
      /\ \A i \in 1 .. k + 1 : LastOf(t, k + 1)[i] = t[i + (Len(t) - (k + 1))]
  BY <1>1, <1>2, LastOfPlaces
<1>. DEFINE u == Append(LastOf(s, k), x)
<1>5. /\ u \in Seq(S) /\ Len(u) = k + 1 /\ u[k + 1] = x
      /\ \A i \in 1 .. k : u[i] = LastOf(s, k)[i]
  BY <1>2, <1>3
<1>. HIDE DEF u
<1>6. ASSUME NEW i \in 1 .. k + 1
      PROVE  LastOf(t, k + 1)[i] = u[i]
  <2>1. i + (Len(t) - (k + 1)) = i + (Len(s) - k)
    BY <1>1, <1>2
  <2>2. CASE i = k + 1
    <3>1. i + (Len(t) - (k + 1)) = Len(s) + 1
      BY <1>1, <1>2, <2>2
    <3>2. LastOf(t, k + 1)[i] = t[i + (Len(t) - (k + 1))]
      BY <1>4
    <3>. QED  BY <1>1, <1>5, <2>2, <3>1, <3>2
  <2>3. CASE i \in 1 .. k
    <3>1. i + (Len(s) - k) \in 1 .. Len(s)
      BY <1>1, <1>2, <2>3
    <3>2. LastOf(t, k + 1)[i] = t[i + (Len(s) - k)]
      BY <1>4, <2>1
    <3>3. u[i] = s[i + (Len(s) - k)]
      BY <1>3, <1>5, <2>3
    <3>. QED  BY <1>1, <3>1, <3>2, <3>3
  <2>. QED  BY <1>2, <2>2, <2>3
<1>7. LastOf(t, k + 1) = u
  BY <1>2, <1>4, <1>5, <1>6
<1>. QED  BY <1>7 DEF t, u

\* Nothing of a sequence, and all of it.
LEMMA LastOfBounds ==
    ASSUME NEW S, NEW s \in Seq(S)
    PROVE  LastOf(s, 0) = << >> /\ LastOf(s, Len(s)) = s
<1>1. Len(s) \in Nat /\ 0 \in 0 .. Len(s) /\ Len(s) \in 0 .. Len(s)
  OBVIOUS
<1>2. LastOf(s, 0) \in Seq(S) /\ Len(LastOf(s, 0)) = 0
  BY <1>1, LastOfPlaces
<1>3. /\ LastOf(s, Len(s)) \in Seq(S) /\ Len(LastOf(s, Len(s))) = Len(s)
      /\ \A i \in 1 .. Len(s) : LastOf(s, Len(s))[i] = s[i + (Len(s) - Len(s))]
  BY <1>1, LastOfPlaces
<1>4. \A i \in 1 .. Len(s) : LastOf(s, Len(s))[i] = s[i]
  BY <1>1, <1>3
<1>. QED  BY <1>2, <1>3, <1>4

\* A history that is not full grows; one that is full loses its first element.
LEMMA RecordedIs ==
    ASSUME NEW S, NEW s \in Seq(S), NEW x \in S, NEW n \in Nat, Len(s) <= n
    PROVE  /\ n = 0 => Recorded(s, x, n) = << >>
           /\ Len(s) < n => Recorded(s, x, n) = Append(s, x)
           /\ n > 0 /\ Len(s) = n => s # << >> /\ Recorded(s, x, n) = Append(Tail(s), x)
<1>. DEFINE t == Append(s, x)
<1>1. t \in Seq(S) /\ Len(t) = Len(s) + 1 /\ Len(s) \in Nat
  OBVIOUS
<1>2. Recorded(s, x, n) = LastOf(t, n)
  BY DEF Recorded
<1>. HIDE DEF t
<1>3. CASE n = 0
  BY <1>1, <1>2, <1>3, LastOfBounds
<1>4. CASE Len(s) < n
  <2>. DEFINE d == IF Len(t) > n THEN Len(t) - n ELSE 0
  <2>0. d = 0
    BY <1>1, <1>4
  <2>1. Len(t) - d = Len(t) /\ \A i \in 1 .. Len(t) : t[i + d] = t[i]
    <3>. HIDE DEF d
    <3>. QED  BY <1>1, <2>0
  <2>2. LastOf(t, n) = [i \in 1 .. Len(t) - d |-> t[i + d]]
    BY DEF LastOf
  <2>. HIDE DEF d
  <2>3. LastOf(t, n) = [i \in 1 .. Len(t) |-> t[i]]
    BY <2>1, <2>2
  <2>4. [i \in 1 .. Len(t) |-> t[i]] = t
    BY <1>1
  <2>. QED  BY <1>2, <1>4, <2>3, <2>4 DEF t
<1>5. CASE n > 0 /\ Len(s) = n
  <2>1. s # << >>
    BY <1>5
  <2>2. n - 1 \in 0 .. Len(s) - 1 /\ n - 1 \in 0 .. Len(s) /\ (n - 1) + 1 = n
    BY <1>5
  <2>3. LastOf(t, n) = Append(LastOf(s, n - 1), x)
    BY <2>2, LastOfAppend DEF t
  <2>4. LastOf(s, n - 1) = LastOf(Tail(s), n - 1)
    BY <2>1, <2>2, LastOfTail
  <2>5. Tail(s) \in Seq(S) /\ Len(Tail(s)) = n - 1
    BY <1>5, <2>1
  <2>6. LastOf(Tail(s), n - 1) = Tail(s)
    BY <2>5, LastOfBounds
  <2>. QED  BY <1>2, <1>5, <2>1, <2>3, <2>4, <2>6
<1>. QED  BY <1>1, <1>3, <1>4, <1>5

-----------------------------------------------------------------------------
(***************************************************************************)
(* A stream that follows a log to which elements are appended, and whose   *)
(* oldest elements are dropped: of the log it has the last elements, all of *)
(* them and in their order.                                                *)
(***************************************************************************)
\* What z has of h is the end of h: of its last elements, all are there and in order.
Follows(z, h) == \E k \in 0 .. Len(h) : Picked(z, Elements(h)) = LastOf(h, k)

\* What is picked depends on what of the set occurs.
LEMMA FollowsNothing ==
    ASSUME NEW S, NEW z \in Seq(S), NEW h \in Seq(S),
           \A i \in DOMAIN z : z[i] \notin Elements(h)
    PROVE  Follows(z, h)
<1>1. Picked(z, Elements(h)) = << >>
  BY PickedAllOrNone
<1>2. LastOf(h, 0) = << >> /\ 0 \in 0 .. Len(h)
  BY LastOfBounds
<1>. QED  BY <1>1, <1>2 DEF Follows

\* Messages inserted into a stream that are none of those picked do not matter.
LEMMA FollowsInserted ==
    ASSUME NEW S, NEW z \in Seq(S), NEW t \in Seq(S), NEW u \in Seq(S), NEW h \in Seq(S),
           \A i \in DOMAIN t : t[i] \notin Elements(h),
           Follows(z \o u, h)
    PROVE  Follows((z \o t) \o u, h)
<1>. DEFINE E == Elements(h)
<1>1. z \o t \in Seq(S)
  OBVIOUS
<1>2. Picked(t, E) = << >>
  BY PickedAllOrNone
<1>3. Picked(z, E) \in Seq(S \cap E)
  BY PickedTyped
<1>4. Picked(z, E) \o << >> = Picked(z, E)
  BY <1>3
<1>5. Picked(z \o t, E) = Picked(z, E)
  <2>1. Picked(z \o t, E) = Picked(z, E) \o Picked(t, E)
    BY PickedConcat
  <2>. QED  BY <1>2, <1>4, <2>1
<1>6. Picked((z \o t) \o u, E) = Picked(z \o t, E) \o Picked(u, E)
  <2>1. PICK w \in Seq(S) : w = z \o t
    BY <1>1
  <2>2. Picked(w \o u, E) = Picked(w, E) \o Picked(u, E)
    BY PickedConcat
  <2>. QED  BY <2>1, <2>2
<1>7. Picked(z \o u, E) = Picked(z, E) \o Picked(u, E)
  BY PickedConcat
<1>8. Picked((z \o t) \o u, E) = Picked(z \o u, E)
  BY <1>5, <1>6, <1>7
<1>. QED  BY <1>8 DEF Follows

\* When an element is added to both, the stream still follows;
LEMMA FollowsAppended ==
    ASSUME NEW S, NEW z \in Seq(S), NEW h \in Seq(S), NEW x \in S,
           \A i \in DOMAIN z : z[i] # x, Follows(z, h)
    PROVE  Follows(Append(z, x), Append(h, x))
<1>1. PICK k \in 0 .. Len(h) : Picked(z, Elements(h)) = LastOf(h, k)
  BY DEF Follows
<1>2. Elements(Append(h, x)) = Elements(h) \cup {x}
  <2>1. /\ DOMAIN Append(h, x) = 1 .. Len(h) + 1 /\ DOMAIN h = 1 .. Len(h) /\ Len(h) \in Nat
        /\ Append(h, x)[Len(h) + 1] = x /\ \A i \in 1 .. Len(h) : Append(h, x)[i] = h[i]
    OBVIOUS
  <2>2. 1 .. Len(h) + 1 = (1 .. Len(h)) \cup {Len(h) + 1}
    BY <2>1
  <2>. QED  BY <2>1, <2>2 DEF Elements
<1>. DEFINE E == Elements(Append(h, x))
<1>3. Picked(z, E) = Picked(z, Elements(h))
  <2>1. \A i \in DOMAIN z : z[i] \in E <=> z[i] \in Elements(h)
    BY <1>2
  <2>. HIDE DEF E
  <2>. QED  BY <2>1, PickedAgree
<1>4. Picked(Append(z, x), E) = Append(Picked(z, E), x)
  <2>1. x \in E
    BY <1>2
  <2>. HIDE DEF E
  <2>. QED  BY <2>1, PickedRecursion
<1>5. LastOf(Append(h, x), k + 1) = Append(LastOf(h, k), x)
  BY LastOfAppend
<1>6. k + 1 \in 0 .. Len(Append(h, x))
  <2>1. Len(Append(h, x)) = Len(h) + 1 /\ Len(h) \in Nat
    OBVIOUS
  <2>. QED  BY <2>1
<1>7. Picked(Append(z, x), E) = LastOf(Append(h, x), k + 1)
  BY <1>1, <1>3, <1>4, <1>5
<1>. QED  BY <1>6, <1>7 DEF Follows

\* and when the oldest element is forgotten.
LEMMA FollowsTail ==
    ASSUME NEW S, NEW z \in Seq(S), NEW h \in Seq(S), h # << >>, Distinct(h), Follows(z, h)
    PROVE  Follows(z, Tail(h))
<1>1. PICK k \in 0 .. Len(h) : Picked(z, Elements(h)) = LastOf(h, k)
  BY DEF Follows
<1>. DEFINE t == Tail(h)
            E == Elements(t)
<1>2. /\ t \in Seq(S) /\ Len(t) = Len(h) - 1 /\ Len(h) \in Nat /\ Len(h) > 0
      /\ DOMAIN t = 1 .. Len(h) - 1 /\ DOMAIN h = 1 .. Len(h)
      /\ \A i \in 1 .. Len(h) - 1 : t[i] = h[i + 1] /\ i + 1 \in 1 .. Len(h)
  OBVIOUS
<1>. HIDE DEF t
<1>3. E \subseteq Elements(h)
  BY <1>2 DEF Elements
<1>4. Picked(z, E) = Picked(LastOf(h, k), E)
  <2>1. Picked(Picked(z, Elements(h)), E) = Picked(z, Elements(h) \cap E)
    BY PickedTwice
  <2>2. Elements(h) \cap E = E
    BY <1>3
  <2>. QED  BY <1>1, <2>1, <2>2
<1>5. CASE k \in 0 .. Len(h) - 1
  <2>1. LastOf(h, k) = LastOf(t, k)
    BY <1>5, LastOfTail DEF t
  <2>2. k \in 0 .. Len(t)
    BY <1>2, <1>5
  <2>3. /\ LastOf(t, k) \in Seq(S) /\ Len(LastOf(t, k)) = k
        /\ \A i \in 1 .. k : LastOf(t, k)[i] = t[i + (Len(t) - k)]
    BY <1>2, <2>2, LastOfPlaces
  <2>4. \A i \in DOMAIN LastOf(t, k) : LastOf(t, k)[i] \in E
    <3>1. \A i \in 1 .. k : i + (Len(t) - k) \in DOMAIN t
      BY <1>2, <2>2
    <3>2. DOMAIN LastOf(t, k) = 1 .. k
      BY <2>3
    <3>. QED  BY <2>3, <3>1, <3>2 DEF Elements
  <2>5. Picked(LastOf(t, k), E) = LastOf(t, k)
    <3>. HIDE DEF E
    <3>. QED  BY <2>3, <2>4, PickedAllOrNone
  <2>. QED  BY <1>4, <2>1, <2>2, <2>5 DEF Follows, t
<1>6. CASE k = Len(h)
  <2>1. LastOf(h, k) = h
    BY <1>6, LastOfBounds
  <2>2. PICK f \in Seq(S) : f = <<h[1]>> /\ h = f \o t
    <3>1. h[1] \in S
      BY <1>2
    <3>2. <<h[1]>> \in Seq(S)
      BY <3>1
    <3>3. h = <<h[1]>> \o t
      <4>1. /\ Len(<<h[1]>> \o t) = Len(h) /\ <<h[1]>> \o t \in Seq(S)
            /\ \A i \in 1 .. Len(h) : (<<h[1]>> \o t)[i] = IF i = 1 THEN h[1] ELSE t[i - 1]
        BY <1>2, <3>2
      <4>2. \A i \in 1 .. Len(h) : i # 1 => i - 1 \in 1 .. Len(h) - 1 /\ (i - 1) + 1 = i
        BY <1>2
      <4>3. \A i \in 1 .. Len(h) : (<<h[1]>> \o t)[i] = h[i]
        <5>1. \A i \in 1 .. Len(h) : i # 1 => t[i - 1] = h[i]
          BY <1>2, <4>2
        <5>. QED  BY <4>1, <5>1
      <4>. DEFINE g == <<h[1]>> \o t
      <4>4. g \in Seq(S) /\ Len(g) = Len(h) /\ \A i \in 1 .. Len(h) : g[i] = h[i]
        BY <4>1, <4>3
      <4>. HIDE DEF g
      <4>5. g = h
        BY <4>4
      <4>. QED  BY <4>5 DEF g
    <3>. QED  BY <3>2, <3>3
  <2>3. Picked(f, E) = << >>
    <3>1. h[1] \notin E
      <4>1. \A i \in 1 .. Len(h) - 1 : h[i + 1] # h[1]
        <5>1. \A i \in 1 .. Len(h) - 1 : i + 1 # 1 /\ i + 1 \in DOMAIN h
          BY <1>2
        <5>2. 1 \in DOMAIN h
          BY <1>2
        <5>. QED  BY <5>1, <5>2 DEF Distinct
      <4>2. \A i \in DOMAIN t : t[i] # h[1]
        BY <1>2, <4>1
      <4>. QED  BY <4>2 DEF Elements
    <3>2. \A i \in DOMAIN f : f[i] \notin E
      BY <2>2, <3>1
    <3>. HIDE DEF E
    <3>. QED  BY <3>2, PickedAllOrNone
  <2>4. Picked(t, E) = t
    <3>1. \A i \in DOMAIN t : t[i] \in E
      BY DEF Elements
    <3>. HIDE DEF E
    <3>. QED  BY <1>2, <3>1, PickedAllOrNone
  <2>5. Picked(f \o t, E) = Picked(f, E) \o Picked(t, E)
    BY <1>2, PickedConcat
  <2>6. Picked(h, E) = t
    <3>1. << >> \o t = t
      BY <1>2
    <3>. QED  BY <2>2, <2>3, <2>4, <2>5, <3>1
  <2>7. Len(t) \in 0 .. Len(t) /\ LastOf(t, Len(t)) = t
    <3>1. Len(t) \in 0 .. Len(t)
      BY <1>2
    <3>. QED  BY <1>2, <3>1, LastOfBounds
  <2>. QED  BY <1>4, <2>1, <2>6, <2>7 DEF Follows, t
<1>. QED  BY <1>2, <1>5, <1>6

\* A line that is recorded and that waits to be echoed is what the stream follows next.
LEMMA FollowsRecorded ==
    ASSUME NEW S, NEW z \in Seq(S), NEW h \in Seq(S), NEW x \in S, NEW n \in Nat,
           Len(h) <= n, Distinct(h), x \notin Elements(h), \A i \in DOMAIN z : z[i] # x,
           Follows(z, h)
    PROVE  Follows(Append(z, x), Recorded(h, x, n))
<1>1. Append(z, x) \in Seq(S) /\ Len(h) \in Nat
  OBVIOUS
<1>2. CASE n = 0
  <2>1. Recorded(h, x, n) = << >>
    BY <1>2, RecordedIs
  <2>2. << >> \in Seq(S) /\ Elements(<< >>) = {}
    BY DEF Elements
  <2>. QED  BY <1>1, <2>1, <2>2, FollowsNothing
<1>3. CASE Len(h) < n
  <2>1. Recorded(h, x, n) = Append(h, x)
    BY <1>3, RecordedIs
  <2>2. Follows(Append(z, x), Append(h, x))
    BY FollowsAppended
  <2>. QED  BY <2>1, <2>2
<1>4. CASE n > 0 /\ Len(h) = n
  <2>1. h # << >> /\ Recorded(h, x, n) = Append(Tail(h), x)
    BY <1>4, RecordedIs
  <2>2. Tail(h) \in Seq(S) /\ Follows(z, Tail(h))
    BY <2>1, FollowsTail
  <2>. QED  BY <2>1, <2>2, FollowsAppended
<1>. QED  BY <1>1, <1>2, <1>3, <1>4

\* Recording a new element keeps a history without repetition and within its limit.
LEMMA RecordedDistinct ==
    ASSUME NEW S, NEW h \in Seq(S), NEW x \in S, NEW n \in Nat,
           Len(h) <= n, Distinct(h), x \notin Elements(h)
    PROVE  Distinct(Recorded(h, x, n)) /\ Len(Recorded(h, x, n)) <= n
<1>1. ASSUME NEW s \in Seq(S), Distinct(s), x \notin Elements(s)
      PROVE  Distinct(Append(s, x)) /\ Len(Append(s, x)) = Len(s) + 1
  <2>1. /\ DOMAIN Append(s, x) = 1 .. Len(s) + 1 /\ DOMAIN s = 1 .. Len(s) /\ Len(s) \in Nat
        /\ Append(s, x)[Len(s) + 1] = x /\ \A i \in 1 .. Len(s) : Append(s, x)[i] = s[i]
    OBVIOUS
  <2>2. \A i \in 1 .. Len(s) : s[i] # x
    BY <1>1, <2>1 DEF Elements
  <2>3. Distinct(Append(s, x))
    <3>. SUFFICES ASSUME NEW i \in 1 .. Len(s) + 1, NEW j \in 1 .. Len(s) + 1,
                         Append(s, x)[i] = Append(s, x)[j]
                  PROVE  i = j
      BY <2>1 DEF Distinct
    <3>1. CASE i \in 1 .. Len(s) /\ j \in 1 .. Len(s)
      BY <1>1, <2>1, <3>1 DEF Distinct
    <3>2. CASE i = Len(s) + 1 \/ j = Len(s) + 1
      BY <2>1, <2>2, <3>2
    <3>. QED  BY <2>1, <3>1, <3>2
  <2>. QED  BY <2>3
<1>2. Len(h) \in Nat
  OBVIOUS
<1>3. CASE n = 0
  <2>1. Recorded(h, x, n) = << >>
    BY <1>3, RecordedIs
  <2>. QED  BY <1>3, <2>1 DEF Distinct
<1>4. CASE Len(h) < n
  <2>1. Recorded(h, x, n) = Append(h, x)
    BY <1>4, RecordedIs
  <2>. QED  BY <1>1, <1>2, <1>4, <2>1
<1>5. CASE n > 0 /\ Len(h) = n
  <2>1. h # << >> /\ Recorded(h, x, n) = Append(Tail(h), x)
    BY <1>5, RecordedIs
  <2>2. /\ Tail(h) \in Seq(S) /\ Len(Tail(h)) = Len(h) - 1
        /\ \A i \in DOMAIN Tail(h) : Tail(h)[i] = h[i + 1] /\ i + 1 \in DOMAIN h
    BY <2>1
  <2>3. Distinct(Tail(h)) /\ x \notin Elements(Tail(h))
    <3>1. DOMAIN Tail(h) \subseteq Nat
      BY <2>2
    <3>. QED  BY <2>2, <3>1 DEF Distinct, Elements
  <2>4. /\ Distinct(Append(Tail(h), x))
        /\ Len(Append(Tail(h), x)) = Len(Tail(h)) + 1
    BY <1>1, <2>2, <2>3
  <2>. QED  BY <1>2, <1>5, <2>1, <2>2, <2>4
<1>. QED  BY <1>2, <1>3, <1>4, <1>5

-----------------------------------------------------------------------------
(***************************************************************************)
(* What a member of a room and what others hear: z is what they were shown, *)
(* w what waits to be shown to the members, h the log.                     *)
(***************************************************************************)
\* Nothing of what waits or is logged is shown.
Absent(z, w, h) == \A j \in DOMAIN z : z[j] \notin Elements(w) \cup Elements(h)

\* What a client with n memberships in a room was shown: nothing of what waits or is
\* logged, or, with what waits, the end of what is logged.
Hears(n, z, w, h) == IF n = 0 THEN Absent(z, w, h) ELSE Follows(z \o w, h)

LEMMA FollowsRegrouped ==
    ASSUME NEW S, NEW s \in Seq(S), NEW t \in Seq(S), NEW x \in S
    PROVE  \A v, h : v = s \o t /\ Follows(Append(v, x), h) => Follows(s \o Append(t, x), h)
<1>1. Append(s \o t, x) = s \o Append(t, x)
  OBVIOUS
<1>. QED  BY <1>1, Zenon

LEMMA InFirstOrSecond ==
    ASSUME NEW l \in Nat, NEW m \in Nat, NEW i \in 1 .. l + m
    PROVE  i \in 1 .. l \/ (~(i <= l) /\ i - l \in 1 .. m)
OBVIOUS

LEMMA AppendIsConcat ==
    ASSUME NEW S, NEW s \in Seq(S), NEW x \in S
    PROVE  Append(s, x) = s \o <<x>> /\ <<x>> \in Seq(S) /\ s \o <<x>> \in Seq(S)
OBVIOUS

\* Messages that are no echoes of the room make no difference.
LEMMA HearsInserted ==
    ASSUME NEW S, NEW z \in Seq(S), NEW t \in Seq(S), NEW u \in Seq(S),
           NEW w \in Seq(S), NEW h \in Seq(S), NEW n,
           Absent(t, w, h), Hears(n, z \o u, w, h)
    PROVE  Hears(n, (z \o t) \o u, w, h)
<1>1. CASE n = 0
  <2>1. /\ DOMAIN ((z \o t) \o u) = 1 .. Len(z) + Len(t) + Len(u)
        /\ DOMAIN (z \o u) = 1 .. Len(z) + Len(u)
        /\ Len(z) \in Nat /\ Len(t) \in Nat /\ Len(u) \in Nat
        /\ DOMAIN t = 1 .. Len(t)
    OBVIOUS
  <2>2. ASSUME NEW j \in 1 .. Len(z) + Len(t) + Len(u)
        PROVE  ((z \o t) \o u)[j] \notin Elements(w) \cup Elements(h)
    <3>1. CASE j <= Len(z)
      <4>1. ((z \o t) \o u)[j] = (z \o u)[j] /\ j \in DOMAIN (z \o u)
        BY <2>1, <3>1
      <4>. QED  BY <1>1, <4>1 DEF Hears, Absent
    <3>2. CASE Len(z) < j /\ j <= Len(z) + Len(t)
      <4>1. ((z \o t) \o u)[j] = t[j - Len(z)] /\ j - Len(z) \in DOMAIN t
        BY <2>1, <3>2
      <4>. QED  BY <4>1 DEF Absent
    <3>3. CASE Len(z) + Len(t) < j
      <4>1. ((z \o t) \o u)[j] = (z \o u)[j - Len(t)] /\ j - Len(t) \in DOMAIN (z \o u)
        BY <2>1, <3>3
      <4>. QED  BY <1>1, <4>1 DEF Hears, Absent
    <3>. QED  BY <2>1, <3>1, <3>2, <3>3
  <2>. QED  BY <1>1, <2>1, <2>2 DEF Hears, Absent
<1>2. CASE n # 0
  <2>1. u \o w \in Seq(S)
    OBVIOUS
  <2>2. (z \o u) \o w = z \o (u \o w)
    OBVIOUS
  <2>3. ((z \o t) \o u) \o w = (z \o t) \o (u \o w)
    <3>1. z \o t \in Seq(S)
      OBVIOUS
    <3>2. PICK v \in Seq(S) : v = z \o t
      BY <3>1
    <3>3. (v \o u) \o w = v \o (u \o w)
      OBVIOUS
    <3>. QED  BY <3>2, <3>3
  <2>4. Follows(z \o (u \o w), h)
    BY <1>2, <2>2 DEF Hears
  <2>5. \A i \in DOMAIN t : t[i] \notin Elements(h)
    BY DEF Absent
  <2>6. Follows((z \o t) \o (u \o w), h)
    BY <2>1, <2>4, <2>5, FollowsInserted
  <2>. QED  BY <1>2, <2>3, <2>6 DEF Hears
<1>. QED  BY <1>1, <1>2

\* A client that joins hears, from then on, what waits.
LEMMA HearsJoined ==
    ASSUME NEW S, NEW z \in Seq(S), NEW w \in Seq(S), NEW h \in Seq(S),
           Follows(w, h), NEW n, n # 0, NEW m, Hears(m, z, w, h)
    PROVE  Hears(n, z, w, h)
<1>1. CASE m # 0
  BY <1>1 DEF Hears
<1>2. CASE m = 0
  <2>1. \A i \in DOMAIN z : z[i] \notin Elements(h)
    BY <1>2 DEF Hears, Absent
  <2>2. PICK e \in Seq(S) : e = << >>
    <3>1. << >> \in Seq(S)
      OBVIOUS
    <3>. QED  BY <3>1
  <2>3. e \o w = w /\ e \o z = z
    BY <2>2
  <2>4. Follows((e \o z) \o w, h)
    BY <2>1, <2>3, FollowsInserted
  <2>. QED  BY <2>3, <2>4 DEF Hears
<1>. QED  BY <1>1, <1>2

\* A new line waits and is logged at once.
LEMMA HearsRecorded ==
    ASSUME NEW S, NEW z \in Seq(S), NEW w \in Seq(S), NEW h \in Seq(S), NEW x \in S,
           NEW limit \in Nat, Len(h) <= limit, Distinct(h), x \notin Elements(h),
           \A i \in DOMAIN z : z[i] # x, \A i \in DOMAIN w : w[i] # x,
           NEW n, Hears(n, z, w, h)
    PROVE  Hears(n, z, Append(w, x), Recorded(h, x, limit))
<1>1. CASE n = 0
  <2>1. Elements(Append(w, x)) \subseteq Elements(w) \cup {x}
    <3>1. DOMAIN w = 1 .. Len(w) /\ DOMAIN Append(w, x) = 1 .. Len(w) + 1 /\ Len(w) \in Nat
      OBVIOUS
    <3>2. /\ Append(w, x)[Len(w) + 1] = x
          /\ \A i \in 1 .. Len(w) + 1 : i # Len(w) + 1 => i \in 1 .. Len(w)
          /\ \A i \in 1 .. Len(w) : Append(w, x)[i] = w[i]
      OBVIOUS
    <3>. QED  BY <3>1, <3>2 DEF Elements
  <2>2. Elements(Recorded(h, x, limit)) \subseteq Elements(h) \cup {x}
    <3>1. h \in Seq(Elements(h) \cup {x})
      <4>1. \A i \in 1 .. Len(h) : h[i] \in Elements(h) \cup {x}
        BY DEF Elements
      <4>. QED  BY <4>1
    <3>2. Recorded(h, x, limit) \in Seq(Elements(h) \cup {x})
      BY <3>1, RecordedTyped
    <3>3. \A s \in Seq(Elements(h) \cup {x}) : \A i \in DOMAIN s : s[i] \in Elements(h) \cup {x}
      OBVIOUS
    <3>4. \A i \in DOMAIN Recorded(h, x, limit) : Recorded(h, x, limit)[i] \in Elements(h) \cup {x}
      BY <3>2, <3>3
    <3>5. \A e \in Elements(Recorded(h, x, limit)) : e \in Elements(h) \cup {x}
      BY <3>4 DEF Elements
    <3>. QED  BY <3>5
  <2>. QED  BY <1>1, <2>1, <2>2 DEF Hears, Absent
<1>2. CASE n # 0
  <2>1. PICK v \in Seq(S) : v = z \o w
    <3>1. z \o w \in Seq(S)
      OBVIOUS
    <3>. QED  BY <3>1
  <2>2. \A i \in DOMAIN v : v[i] # x
    <3>1. /\ DOMAIN v = 1 .. Len(z) + Len(w) /\ DOMAIN z = 1 .. Len(z) /\ DOMAIN w = 1 .. Len(w)
          /\ Len(z) \in Nat /\ Len(w) \in Nat
          /\ \A i \in 1 .. Len(z) + Len(w) :
                v[i] = IF i <= Len(z) THEN z[i] ELSE w[i - Len(z)]
      BY <2>1
    <3>2. \A i \in 1 .. Len(z) + Len(w) :
             i \in 1 .. Len(z) \/ (~(i <= Len(z)) /\ i - Len(z) \in 1 .. Len(w))
      BY <3>1, InFirstOrSecond
    <3>3. \A i \in 1 .. Len(z) + Len(w) : v[i] # x
      <4>. SUFFICES ASSUME NEW i \in 1 .. Len(z) + Len(w)
                    PROVE  v[i] # x
        OBVIOUS
      <4>1. CASE i \in 1 .. Len(z)
        BY <3>1, <4>1
      <4>2. CASE ~(i <= Len(z)) /\ i - Len(z) \in 1 .. Len(w)
        BY <3>1, <4>2
      <4>. QED  BY <3>2, <4>1, <4>2
    <3>. QED  BY <3>1, <3>3
  <2>3. Follows(Append(v, x), Recorded(h, x, limit))
    BY <1>2, <2>1, <2>2, FollowsRecorded DEF Hears
  <2>4. Follows(z \o Append(w, x), Recorded(h, x, limit))
    BY <2>1, <2>3, FollowsRegrouped
  <2>. QED  BY <1>2, <2>4 DEF Hears
<1>. QED  BY <1>1, <1>2

\* What waited has been echoed to members, and to nobody else.
LEMMA HearsEchoed ==
    ASSUME NEW S, NEW z \in Seq(S), NEW w \in Seq(S), NEW h \in Seq(S), NEW n,
           Hears(n, z, w, h)
    PROVE  /\ n = 0 => Hears(n, z, << >>, h)
           /\ n # 0 => Hears(n, z \o w, << >>, h)
<1>1. Elements(<< >>) = {}
  BY DEF Elements
<1>2. (z \o w) \o << >> = z \o w
  <2>1. PICK v \in Seq(S) : v = z \o w
    <3>1. z \o w \in Seq(S)
      OBVIOUS
    <3>. QED  BY <3>1
  <2>2. v \o << >> = v
    OBVIOUS
  <2>. QED  BY <2>1, <2>2
<1>. QED  BY <1>1, <1>2 DEF Hears, Absent
=============================================================================
