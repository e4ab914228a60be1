---------------------------- MODULE TotalsProofs ----------------------------
(***************************************************************************)
(* What a total does when one of its amounts changes.  The library's       *)
(* induction theorems take an operator as a parameter, which no installed  *)
(* prover can instantiate; induction over a set of numbers follows from    *)
(* the well-foundedness of < on the naturals, which takes none.            *)
(***************************************************************************)
EXTENDS Totals, WellFoundedInduction, TLAPS

\* Every non-empty set of natural numbers has a least element.
LEMMA Least ==
  ASSUME NEW T \in SUBSET Nat, T # {}
  PROVE  \E m \in T : \A k \in T : m <= k
  <1>1. IsWellFoundedOn(OpToRel(<, Nat), Nat)
    BY NatLessThanWellFounded
  <1>2. PICK x \in T : \A y \in T : ~ (<<y, x>> \in OpToRel(<, Nat))
    BY <1>1, WFMin
  <1>3. \A y \in T : ~ (y < x)
    BY <1>2 DEF OpToRel
  <1> QED
    BY <1>3

\* Induction up to n, over the set of numbers for which something holds.
LEMMA Upwards ==
  ASSUME NEW n \in Nat, NEW Good,
         0 \in Good, \A k \in 1 .. n : k - 1 \in Good => k \in Good
  PROVE  \A k \in 0 .. n : k \in Good
  <1> DEFINE Bad == (0 .. n) \ Good
  <1>1. SUFFICES ASSUME Bad # {} PROVE FALSE
    OBVIOUS
  <1>2. Bad \in SUBSET Nat
    OBVIOUS
  <1> HIDE DEF Bad
  <1>3. PICK m \in Bad : \A k \in Bad : m <= k
    BY <1>1, <1>2, Least
  <1>4. m \in 1 .. n /\ m \notin Good
    BY <1>3 DEF Bad
  <1>5. m - 1 \notin Bad /\ m - 1 \in 0 .. n
    BY <1>3, <1>4
  <1> QED
    BY <1>4, <1>5 DEF Bad

\* The partial sums of amount up to n.
Sums(s, amount, n) == s = [k \in 0 .. n |-> IF k = 0 THEN 0 ELSE s[k - 1] + amount[k]]

\* Partial sums exist up to every n.
LEMMA SumsExist ==
  ASSUME NEW n \in Nat, NEW amount \in [1 .. n -> Int]
  PROVE  \E s \in [0 .. n -> Int] : Sums(s, amount, n)
  <1> DEFINE Good == {k \in 0 .. n : \E s \in [0 .. k -> Int] : Sums(s, amount, k)}
  <1>1. 0 \in Good
    <2> DEFINE s == [k \in 0 .. 0 |-> 0]
    <2>1. s \in [0 .. 0 -> Int] /\ Sums(s, amount, 0)
      BY DEF Sums
    <2> QED
      BY <2>1
  <1>2. ASSUME NEW k \in 1 .. n, k - 1 \in Good
        PROVE  k \in Good
    <2>1. PICK s \in [0 .. k - 1 -> Int] : Sums(s, amount, k - 1)
      BY <1>2
    <2> DEFINE t == [j \in 0 .. k |-> IF j < k THEN s[j] ELSE s[k - 1] + amount[k]]
    <2>2. t \in [0 .. k -> Int]
      OBVIOUS
    <2>3. \A j \in 0 .. k - 1 : s[j] = IF j = 0 THEN 0 ELSE s[j - 1] + amount[j]
      BY <2>1, Zenon DEF Sums
    <2>4. \A j \in 0 .. k : t[j] = IF j = 0 THEN 0 ELSE t[j - 1] + amount[j]
      BY <2>3
    <2> HIDE DEF t
    <2>5. Sums(t, amount, k)
      BY <2>2, <2>4 DEF Sums
    <2> QED
      BY <2>2, <2>5
  <1> HIDE DEF Good
  <1>3. \A k \in 0 .. n : k \in Good
    BY <1>1, <1>2, Upwards
  <1>4. n \in Good
    BY <1>3
  <1> QED
    BY <1>4 DEF Good

\* Partial sums are unique.
LEMMA SumsUnique ==
  ASSUME NEW n \in Nat, NEW amount, NEW s, NEW t, Sums(s, amount, n), Sums(t, amount, n)
  PROVE  s = t
  <1>1. \A k \in 0 .. n : s[k] = IF k = 0 THEN 0 ELSE s[k - 1] + amount[k]
    BY Zenon DEF Sums
  <1>2. \A k \in 0 .. n : t[k] = IF k = 0 THEN 0 ELSE t[k - 1] + amount[k]
    BY Zenon DEF Sums
  <1> DEFINE Good == {k \in 0 .. n : s[k] = t[k]}
  <1>3. 0 \in Good
    BY <1>1, <1>2
  <1>4. ASSUME NEW k \in 1 .. n, k - 1 \in Good
        PROVE  k \in Good
    <2>1. k \in 0 .. n /\ k # 0 /\ s[k - 1] = t[k - 1]
      BY <1>4
    <2> QED
      BY <1>1, <1>2, <2>1
  <1>5. \A k \in 0 .. n : k \in Good
    <2> HIDE DEF Good
    <2> QED BY <1>3, <1>4, Upwards
  <1>6. \A k \in 0 .. n : s[k] = t[k]
    BY <1>5
  <1>7. s = [k \in 0 .. n |-> s[k]] /\ t = [k \in 0 .. n |-> t[k]]
    BY DEF Sums
  <1> QED
    BY <1>6, <1>7

\* The total is the last of the partial sums.
LEMMA TotalIsSum ==
  ASSUME NEW n \in Nat, NEW amount \in [1 .. n -> Int]
  PROVE  \E s \in [0 .. n -> Int] :
           /\ s[0] = 0
           /\ \A k \in 1 .. n : s[k] = s[k - 1] + amount[k]
           /\ Total(amount, n) = s[n]
  <1>1. PICK s \in [0 .. n -> Int] : Sums(s, amount, n)
    BY SumsExist
  <1>2. \E t : Sums(t, amount, n) /\ Total(amount, n) = t[n]
    <2>1. \E t : Sums(t, amount, n)
      BY <1>1
    <2> QED
      BY <2>1, Zenon DEF Sums, Total
  <1>3. Total(amount, n) = s[n]
    BY <1>1, <1>2, SumsUnique
  <1>4. \A k \in 0 .. n : s[k] = IF k = 0 THEN 0 ELSE s[k - 1] + amount[k]
    BY <1>1, Zenon DEF Sums
  <1>5. s[0] = 0 /\ \A k \in 1 .. n : s[k] = s[k - 1] + amount[k]
    BY <1>4
  <1> QED
    BY <1>3, <1>5

\* A total of nothing is nothing.
LEMMA TotalZero ==
  ASSUME NEW n \in Nat, NEW amount \in [1 .. n -> Int], \A k \in 1 .. n : amount[k] = 0
  PROVE  Total(amount, n) = 0
  <1>1. PICK s \in [0 .. n -> Int] :
           /\ s[0] = 0
           /\ \A k \in 1 .. n : s[k] = s[k - 1] + amount[k]
           /\ Total(amount, n) = s[n]
    BY TotalIsSum
  <1> DEFINE Good == {k \in 0 .. n : s[k] = 0}
  <1>2. 0 \in Good
    BY <1>1
  <1>3. \A k \in 1 .. n : k - 1 \in Good => k \in Good
    BY <1>1
  <1>4. \A k \in 0 .. n : k \in Good
    <2> HIDE DEF Good
    <2> QED BY <1>2, <1>3, Upwards
  <1> QED
    BY <1>1, <1>4

\* A total of natural numbers is a natural number.
LEMMA TotalNat ==
  ASSUME NEW n \in Nat, NEW amount \in [1 .. n -> Nat]
  PROVE  Total(amount, n) \in Nat
  <1> amount \in [1 .. n -> Int]
    OBVIOUS
  <1>1. PICK s \in [0 .. n -> Int] :
           /\ s[0] = 0
           /\ \A k \in 1 .. n : s[k] = s[k - 1] + amount[k]
           /\ Total(amount, n) = s[n]
    BY TotalIsSum
  <1> DEFINE Good == {k \in 0 .. n : s[k] >= 0}
  <1>2. 0 \in Good
    BY <1>1
  <1>3. \A k \in 1 .. n : k - 1 \in Good => k \in Good
    BY <1>1
  <1>4. \A k \in 0 .. n : k \in Good
    <2> HIDE DEF Good
    <2> QED BY <1>2, <1>3, Upwards
  <1> QED
    BY <1>1, <1>4

\* When one amount changes, the total changes by as much.
LEMMA TotalChanges ==
  ASSUME NEW n \in Nat, NEW old \in [1 .. n -> Int], NEW new \in [1 .. n -> Int],
         NEW i \in 1 .. n, \A k \in 1 .. n : k # i => new[k] = old[k]
  PROVE  /\ Total(old, n) \in Int
         /\ Total(new, n) = Total(old, n) - old[i] + new[i]
  <1>1. PICK s \in [0 .. n -> Int] :
           /\ s[0] = 0
           /\ \A k \in 1 .. n : s[k] = s[k - 1] + old[k]
           /\ Total(old, n) = s[n]
    BY TotalIsSum
  <1>2. PICK t \in [0 .. n -> Int] :
           /\ t[0] = 0
           /\ \A k \in 1 .. n : t[k] = t[k - 1] + new[k]
           /\ Total(new, n) = t[n]
    BY TotalIsSum
  <1> DEFINE Good == {k \in 0 .. n : t[k] = s[k] + (IF k < i THEN 0 ELSE new[i] - old[i])}
  <1>3. 0 \in Good
    BY <1>1, <1>2
  <1>4. ASSUME NEW k \in 1 .. n, k - 1 \in Good
        PROVE  k \in Good
    <2>1. CASE k = i
      BY <1>1, <1>2, <1>4, <2>1
    <2>2. CASE k < i
      BY <1>1, <1>2, <1>4, <2>2
    <2>3. CASE k > i
      <3>1. t[k - 1] = s[k - 1] + (new[i] - old[i]) /\ new[k] = old[k]
        BY <1>4, <2>3
      <3>2. t[k] = t[k - 1] + new[k] /\ s[k] = s[k - 1] + old[k]
        BY <1>1, <1>2
      <3>3. s[k - 1] \in Int /\ old[k] \in Int /\ old[i] \in Int /\ new[i] \in Int
        OBVIOUS
      <3>4. t[k] = s[k] + (new[i] - old[i])
        BY <3>1, <3>2, <3>3
      <3> QED
        BY <2>3, <3>4
    <2> QED
      BY <2>1, <2>2, <2>3
  <1>5. \A k \in 0 .. n : k \in Good
    <2> HIDE DEF Good
    <2> QED BY <1>3, <1>4, Upwards
  <1> QED
    BY <1>1, <1>2, <1>5

\* Each of several natural numbers is at most their total.
LEMMA TotalCovers ==
  ASSUME NEW n \in Nat, NEW amount \in [1 .. n -> Nat], NEW i \in 1 .. n
  PROVE  amount[i] <= Total(amount, n)
  <1> DEFINE rest == [amount EXCEPT ![i] = 0]
  <1>1. rest \in [1 .. n -> Nat] /\ rest[i] = 0 /\ \A k \in 1 .. n : k # i => rest[k] = amount[k]
    OBVIOUS
  <1> HIDE DEF rest
  <1>2. Total(rest, n) \in Nat
    BY <1>1, TotalNat
  <1> amount \in [1 .. n -> Int] /\ rest \in [1 .. n -> Int]
    BY <1>1
  <1>3. Total(amount, n) \in Int /\ Total(rest, n) = Total(amount, n) - amount[i] + rest[i]
    BY <1>1, TotalChanges
  <1> QED
    BY <1>1, <1>2, <1>3

=============================================================================
