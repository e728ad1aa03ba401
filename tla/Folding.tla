------------------------------- MODULE Folding --------------------------------
(***************************************************************************)
(* What a fold of a sequence from its left computes.  The loops of the     *)
(* codecs, of the tiles and of the reader are such folds, and an instance  *)
(* of this module says of one of them what it is along the sequence,       *)
(* element by element, and that what each step keeps holds where it ends.  *)
(***************************************************************************)
EXTENDS Integers

CONSTANTS
    Step(_, _, _),    \* a loop's step: of what is around it, its state and an element
    Kept(_, _, _, _)  \* what it keeps: what is around it, the elements, how many, the state

\* A set of naturals that is not empty has a least member: what the lemmas that
\* go along a loop rest on, and whoever takes an instance cites.
WellOrdered == \A S \in SUBSET Nat : S # {} => \E m \in S : \A j \in S : m <= j

Greatest(S) == CHOOSE x \in S : \A y \in S : x >= y

\* FoldLeft of the community modules, as it expands: the states are over all
\* sets of the elements' places.
Fold(c, base, s) ==
    LET iter[t \in SUBSET DOMAIN s] ==
            IF t = {} THEN base
            ELSE LET x == Greatest(t) IN Step(c, iter[t \ {x}], s[x])
    IN  iter[DOMAIN s]

\* The states over all sets of the first n places.
IsIter(c, base, s, n, f) ==
    f = [t \in SUBSET (1..n) |->
            IF t = {} THEN base ELSE Step(c, f[t \ {Greatest(t)}], s[Greatest(t)])]

Iter(c, base, s, n) == CHOOSE f : IsIter(c, base, s, n, f)

\* The state after the first n elements.
Reached(c, base, s, n) == Iter(c, base, s, n)[1..n]

-----------------------------------------------------------------------------

\* A set of places that is not empty has a greatest.
LEMMA GreatestPlace ==
    ASSUME WellOrdered, NEW n \in Nat, NEW t \in SUBSET (1..n), t # {}
    PROVE  Greatest(t) \in t /\ \A j \in t : j <= Greatest(t)
<1> DEFINE D == {d \in Nat : \E j \in t : d = n - j}
<1>1. D \in SUBSET Nat /\ D # {}
  <2>1. PICK j \in t : TRUE
    OBVIOUS
  <2>2. j \in 1..n
    OBVIOUS
  <2>3. n - j \in Nat
    BY <2>2
  <2> QED BY <2>1, <2>3
<1>a. PICK d \in D : \A e \in D : d <= e
  <2> HIDE DEF D
  <2> QED BY <1>1, WellOrdered DEF WellOrdered
<1>b. PICK j \in t : d = n - j
  OBVIOUS
<1>2. \A k \in t : k <= j
  <2>1. SUFFICES ASSUME NEW k \in t PROVE k <= j
    OBVIOUS
  <2>2. k \in 1..n /\ j \in 1..n
    OBVIOUS
  <2>3. n - k \in D
    BY <2>2
  <2>4. n - j <= n - k
    BY <1>a, <1>b, <2>3
  <2> QED BY <2>2, <2>4
<1>3. \E x \in t : \A y \in t : x >= y
  <2>1. \A y \in t : y \in Int /\ j \in Int
    OBVIOUS
  <2> QED BY <1>2, <2>1
<1>4. Greatest(t) \in t /\ \A y \in t : Greatest(t) >= y
  BY <1>3 DEF Greatest
<1>5. \A y \in t : y \in Int
  OBVIOUS
<1> QED BY <1>4, <1>5

\* A member that no other is above is the greatest.
LEMMA GreatestIs ==
    ASSUME WellOrdered,
           NEW n \in Nat, NEW t \in SUBSET (1..n), NEW m \in t, \A j \in t : j <= m
    PROVE  Greatest(t) = m
<1>1. Greatest(t) \in t /\ m <= Greatest(t) /\ Greatest(t) <= m
  BY GreatestPlace
<1>2. Greatest(t) \in 1..n /\ m \in 1..n
  BY <1>1
<1> QED BY <1>1, <1>2

\* The first places end with the last of them.
LEMMA GreatestOfFirst ==
    ASSUME WellOrdered, NEW k \in Nat \ {0}
    PROVE  Greatest(1..k) = k
<1>1. 1..k \in SUBSET (1..k) /\ k \in 1..k /\ k \in Nat /\ \A j \in 1..k : j <= k
  OBVIOUS
<1> QED BY <1>1, GreatestIs

\* The states over the sets of n + 1 places, from those over the sets of n.
LEMMA IterExtends ==
    ASSUME WellOrdered,
           NEW c, NEW base, NEW s, NEW n \in Nat, NEW g, IsIter(c, base, s, n, g)
    PROVE  \E f : IsIter(c, base, s, n + 1, f)
<1> DEFINE f == [t \in SUBSET (1..n + 1) |->
                    IF n + 1 \in t THEN Step(c, g[t \ {n + 1}], s[n + 1]) ELSE g[t]]
<1>1. SUFFICES ASSUME NEW t \in SUBSET (1..n + 1)
               PROVE  f[t] = IF t = {} THEN base
                             ELSE Step(c, f[t \ {Greatest(t)}], s[Greatest(t)])
  <2>1. f = [t \in SUBSET (1..n + 1) |->
                IF t = {} THEN base ELSE Step(c, f[t \ {Greatest(t)}], s[Greatest(t)])]
    BY <1>1
  <2> HIDE DEF f
  <2> QED BY <2>1 DEF IsIter
<1>2. CASE n + 1 \in t
  <2>1. Greatest(t) = n + 1
    BY <1>2, GreatestIs
  <2>2. t \ {n + 1} \in SUBSET (1..n + 1) /\ n + 1 \notin t \ {n + 1}
    OBVIOUS
  <2>3. f[t \ {n + 1}] = g[t \ {n + 1}]
    BY <2>2
  <2> QED BY <1>2, <2>1, <2>3
<1>3. CASE n + 1 \notin t
  <2>1. t \in SUBSET (1..n)
    BY <1>3
  <2>2. g[t] = IF t = {} THEN base ELSE Step(c, g[t \ {Greatest(t)}], s[Greatest(t)])
    BY <2>1 DEF IsIter
  <2>3. f[t] = g[t]
    BY <1>3
  <2>4. t \ {Greatest(t)} \in SUBSET (1..n + 1) /\ n + 1 \notin t \ {Greatest(t)}
    BY <1>3
  <2>5. f[t \ {Greatest(t)}] = g[t \ {Greatest(t)}]
    BY <2>4
  <2> QED BY <2>2, <2>3, <2>5
<1> QED BY <1>2, <1>3

\* They exist, by the least number of places for which they would not.
LEMMA IterExists ==
    ASSUME WellOrdered, NEW c, NEW base, NEW s, NEW n \in Nat
    PROVE  IsIter(c, base, s, n, Iter(c, base, s, n))
<1> DEFINE Bad == {m \in Nat : ~\E f : IsIter(c, base, s, m, f)}
<1>1. Bad = {}
  <2>1. SUFFICES ASSUME Bad # {} PROVE FALSE
    OBVIOUS
  <2>2. PICK m \in Bad : \A j \in Bad : m <= j
    <3>1. Bad \in SUBSET Nat
      OBVIOUS
    <3> HIDE DEF Bad
    <3> QED BY <2>1, <3>1, WellOrdered DEF WellOrdered
  <2>3. CASE m = 0
    <3>1. SUBSET (1..0) = {{}}
      OBVIOUS
    <3>2. IsIter(c, base, s, 0, [t \in SUBSET (1..0) |-> base])
      BY <3>1 DEF IsIter
    <3> QED BY <2>2, <2>3, <3>2
  <2>4. CASE m # 0
    <3>1. m - 1 \in Nat /\ m - 1 \notin Bad
      BY <2>2, <2>4
    <3>2. PICK g : IsIter(c, base, s, m - 1, g)
      BY <3>1
    <3>3. \E f : IsIter(c, base, s, (m - 1) + 1, f)
      BY <3>1, <3>2, IterExtends
    <3>4. (m - 1) + 1 = m
      BY <3>1
    <3> QED BY <2>2, <3>3, <3>4
  <2> QED BY <2>3, <2>4
<1>2. \E f : IsIter(c, base, s, n, f)
  BY <1>1
<1> QED BY <1>2 DEF Iter

\* Where two of them meet, they agree on the first places.
LEMMA IterAgree ==
    ASSUME WellOrdered,
           NEW c, NEW base, NEW s, NEW u, NEW n \in Nat, NEW m \in Nat, NEW f, NEW g,
           IsIter(c, base, s, n, f), IsIter(c, base, u, m, g),
           NEW k \in Nat, k <= n, k <= m, \A i \in 1..k : s[i] = u[i]
    PROVE  f[1..k] = g[1..k]
<1> DEFINE Bad == {j \in Nat : j <= k /\ f[1..j] # g[1..j]}
<1>1. SUFFICES ASSUME Bad # {} PROVE FALSE
  OBVIOUS
<1>a. Bad \in SUBSET Nat
  OBVIOUS
<1>2. PICK j \in Bad : \A i \in Bad : j <= i
  <2> HIDE DEF Bad
  <2> QED BY <1>1, <1>a, WellOrdered DEF WellOrdered
<1>3. 1..j \in SUBSET (1..n) /\ 1..j \in SUBSET (1..m)
  BY <1>2
<1>4. /\ f[1..j] = IF 1..j = {} THEN base
                   ELSE Step(c, f[(1..j) \ {Greatest(1..j)}], s[Greatest(1..j)])
      /\ g[1..j] = IF 1..j = {} THEN base
                   ELSE Step(c, g[(1..j) \ {Greatest(1..j)}], u[Greatest(1..j)])
  BY <1>3 DEF IsIter
<1>5. CASE j = 0
  BY <1>2, <1>4, <1>5
<1>6. CASE j # 0
  <2>0. j \in Nat \ {0}
    BY <1>2, <1>6
  <2>1. j \in 1..j /\ 1..j # {}
    BY <2>0
  <2>2. Greatest(1..j) = j
    BY <1>2, <1>6, GreatestOfFirst
  <2>3. (1..j) \ {j} = 1..j - 1 /\ j - 1 \in Nat /\ j - 1 \notin Bad /\ j \in 1..k
    BY <1>2, <1>6
  <2>4. f[1..j - 1] = g[1..j - 1] /\ s[j] = u[j]
    BY <2>3, <1>2
  <2> QED BY <1>2, <1>4, <2>1, <2>2, <2>3, <2>4
<1> QED BY <1>5, <1>6

-----------------------------------------------------------------------------
(* What is used of it. *)

\* A fold of a sequence is where its loop ends.
LEMMA FoldReaches ==
    ASSUME NEW c, NEW base, NEW s, NEW n \in Nat, DOMAIN s = 1..n
    PROVE  Fold(c, base, s) = Reached(c, base, s, n)
BY DEF Fold, Reached, Iter, IsIter

\* A loop begins with its base.
LEMMA ReachedFirst ==
    ASSUME WellOrdered, NEW c, NEW base, NEW s
    PROVE  Reached(c, base, s, 0) = base
<1>1. IsIter(c, base, s, 0, Iter(c, base, s, 0))
  BY IterExists
<1>2. 1..0 = {} /\ {} \in SUBSET (1..0)
  OBVIOUS
<1> QED BY <1>1, <1>2 DEF IsIter, Reached

\* Each element takes it one step further.
LEMMA ReachedNext ==
    ASSUME WellOrdered, NEW c, NEW base, NEW s, NEW k \in Nat \ {0}
    PROVE  Reached(c, base, s, k) = Step(c, Reached(c, base, s, k - 1), s[k])
<1> DEFINE f == Iter(c, base, s, k)
<1>1. k - 1 \in Nat /\ k \in Nat
  OBVIOUS
<1>2. IsIter(c, base, s, k, f) /\ IsIter(c, base, s, k - 1, Iter(c, base, s, k - 1))
  BY <1>1, IterExists
<1>3. f[1..k - 1] = Reached(c, base, s, k - 1)
  <2>1. k - 1 <= k /\ k - 1 <= k - 1 /\ \A i \in 1..k - 1 : s[i] = s[i]
    OBVIOUS
  <2> HIDE DEF f
  <2>2. f[1..k - 1] = Iter(c, base, s, k - 1)[1..k - 1]
    BY <1>1, <1>2, <2>1, IterAgree
  <2> QED BY <2>2 DEF Reached
<1>4. k \in 1..k /\ 1..k # {} /\ 1..k \in SUBSET (1..k)
  OBVIOUS
<1>5. Greatest(1..k) = k
  BY GreatestOfFirst
<1>6. (1..k) \ {k} = 1..k - 1
  OBVIOUS
<1>7. f[1..k] = Step(c, f[(1..k) \ {Greatest(1..k)}], s[Greatest(1..k)])
  BY <1>2, <1>4 DEF IsIter
<1> QED BY <1>3, <1>5, <1>6, <1>7 DEF Reached

\* What a loop has reached depends on the elements it has passed.
LEMMA ReachedAlike ==
    ASSUME WellOrdered,
           NEW c, NEW base, NEW s, NEW u, NEW k \in Nat, \A i \in 1..k : s[i] = u[i]
    PROVE  Reached(c, base, s, k) = Reached(c, base, u, k)
BY IterExists, IterAgree DEF Reached

\* What each step keeps holds all along the loop.
LEMMA ReachedKeeps ==
    ASSUME WellOrdered, NEW c, NEW base, NEW s, NEW n \in Nat,
           Kept(c, s, 0, base),
           \A k \in 1..n : \A a : Kept(c, s, k - 1, a) => Kept(c, s, k, Step(c, a, s[k]))
    PROVE  \A k \in 0..n : Kept(c, s, k, Reached(c, base, s, k))
<1> DEFINE Bad == {k \in 0..n : ~Kept(c, s, k, Reached(c, base, s, k))}
<1>1. SUFFICES ASSUME Bad # {} PROVE FALSE
  OBVIOUS
<1>a. Bad \in SUBSET Nat
  OBVIOUS
<1>2. PICK j \in Bad : \A i \in Bad : j <= i
  <2> HIDE DEF Bad
  <2> QED BY <1>1, <1>a, WellOrdered DEF WellOrdered
<1>3. CASE j = 0
  BY <1>2, <1>3, ReachedFirst
<1>4. CASE j # 0
  <2>1. j - 1 \in 0..n /\ j - 1 \notin Bad /\ j \in 1..n /\ j \in Nat \ {0}
    BY <1>2, <1>4
  <2>2. Kept(c, s, j, Step(c, Reached(c, base, s, j - 1), s[j]))
    BY <2>1
  <2> QED BY <1>2, <2>1, <2>2, ReachedNext
<1> QED BY <1>3, <1>4

\* And where it ends.
LEMMA FoldKeeps ==
    ASSUME WellOrdered, NEW c, NEW base, NEW s, NEW n \in Nat, DOMAIN s = 1..n,
           Kept(c, s, 0, base),
           \A k \in 1..n : \A a : Kept(c, s, k - 1, a) => Kept(c, s, k, Step(c, a, s[k]))
    PROVE  Kept(c, s, n, Fold(c, base, s))
<1>1. \A k \in 0..n : Kept(c, s, k, Reached(c, base, s, k))
  BY ReachedKeeps
<1> QED BY <1>1, FoldReaches

===============================================================================
