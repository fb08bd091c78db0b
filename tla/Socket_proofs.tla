---------------------------- MODULE Socket_proofs ----------------------------
(***************************************************************************)
(* For every width of the fields, capacity of the socket and set of        *)
(* messages that can be encoded: what one end decodes is what the other    *)
(* encoded, and the connection implements a channel of messages.           *)
(***************************************************************************)
EXTENDS Socket, TLAPS, WellFoundedInduction

(* Induction over the numbers up to n. *)
LEMMA UpTo ==
    ASSUME NEW n \in Nat, NEW S, 0 \in S, \A m \in 0..n : m \in S /\ m # n => m + 1 \in S
    PROVE  0..n \subseteq S
<1> DEFINE Bad == {m \in 0..n : m \notin S}
<1>1. SUFFICES ASSUME Bad # {} PROVE FALSE
  OBVIOUS
<1>2. PICK m \in Bad : \A k \in Bad : ~(k < m)
  <2>1. Bad \in SUBSET Nat
    OBVIOUS
  <2> HIDE DEF Bad
  <2>2. PICK x \in Bad : \A y \in Bad : <<y, x>> \notin OpToRel(<, Nat)
    BY <1>1, <2>1, WFMin, NatLessThanWellFounded
  <2> QED BY <2>1, <2>2 DEF OpToRel
<1>3. m \in 0..n /\ m # 0 /\ m \notin S
  OBVIOUS
<1>4. m - 1 \in 0..n /\ m - 1 # n /\ m - 1 \notin Bad
  BY <1>2, <1>3
<1>5. m - 1 \in S
  BY <1>4
<1>6. (m - 1) + 1 = m
  BY <1>3
<1> QED BY <1>3, <1>4, <1>5, <1>6
-----------------------------------------------------------------------------
(* Sequences.                                                              *)

LEMMA Joined ==
    ASSUME NEW S, NEW s \in Seq(S), NEW t \in Seq(S)
    PROVE  /\ s \o t \in Seq(S) /\ Len(s \o t) = Len(s) + Len(t)
           /\ \A i \in 1..Len(s) : (s \o t)[i] = s[i]
           /\ \A i \in 1..Len(t) : (s \o t)[Len(s) + i] = t[i]
OBVIOUS

LEMMA Parted ==
    ASSUME NEW S, NEW m \in Seq(S), NEW o \in Nat, NEW n \in Nat, o + n <= Len(m)
    PROVE  /\ Part(m, o, n) \in Seq(S) /\ Len(Part(m, o, n)) = n
           /\ \A i \in 1..n : Part(m, o, n)[i] = m[o + i]
BY DEF Part

LEMMA SameSequence ==
    ASSUME NEW S, NEW s \in Seq(S), NEW t \in Seq(S), Len(s) = Len(t),
           \A i \in 1..Len(s) : s[i] = t[i]
    PROVE  s = t
OBVIOUS

(* m holds s behind its first o elements. *)
At(m, o, s) == o + Len(s) <= Len(m) /\ \A i \in 1..Len(s) : m[o + i] = s[i]

LEMMA PartAt ==
    ASSUME NEW S, NEW m \in Seq(S), NEW s \in Seq(S), NEW o \in Nat, At(m, o, s)
    PROVE  Part(m, o, Len(s)) = s
<1>1. PICK n \in Nat : n = Len(s)
  OBVIOUS
<1>2. \A i \in 1..n : m[o + i] = s[i]
  BY <1>1 DEF At
<1>3. o + n <= Len(m)
  BY <1>1 DEF At
<1>4. /\ Part(m, o, n) \in Seq(S) /\ Len(Part(m, o, n)) = n
      /\ \A i \in 1..n : Part(m, o, n)[i] = m[o + i]
  BY <1>3, Parted
<1> QED BY <1>1, <1>2, <1>4, SameSequence

LEMMA AtAll ==
    ASSUME NEW S, NEW s \in Seq(S)
    PROVE  At(s, 0, s)
BY DEF At

LEMMA AtLeft ==
    ASSUME NEW S, NEW s \in Seq(S), NEW t \in Seq(S), NEW u \in Seq(S), NEW o \in Nat, At(s, o, u)
    PROVE  At(s \o t, o, u)
<1>1. PICK a \in Nat, b \in Nat, c \in Nat : a = Len(s) /\ b = Len(t) /\ c = Len(u)
  OBVIOUS
<1>2. o + c <= a /\ \A i \in 1..c : o + i \in 1..a /\ s[o + i] = u[i]
  BY <1>1 DEF At
<1>3. Len(s \o t) = a + b /\ \A i \in 1..a : (s \o t)[i] = s[i]
  BY <1>1, Joined
<1> QED BY <1>1, <1>2, <1>3 DEF At

LEMMA AtRight ==
    ASSUME NEW S, NEW s \in Seq(S), NEW t \in Seq(S), NEW u \in Seq(S), NEW o \in Nat, At(t, o, u)
    PROVE  At(s \o t, Len(s) + o, u)
<1>1. PICK a \in Nat, b \in Nat, c \in Nat : a = Len(s) /\ b = Len(t) /\ c = Len(u)
  OBVIOUS
<1>2. o + c <= b /\ \A i \in 1..c : o + i \in 1..b /\ t[o + i] = u[i]
  BY <1>1 DEF At
<1>3. Len(s \o t) = a + b /\ \A i \in 1..b : (s \o t)[a + i] = t[i]
  BY <1>1, Joined
<1>4. \A i \in 1..c : (s \o t)[(a + o) + i] = u[i]
  <2> TAKE i \in 1..c
  <2>1. (a + o) + i = a + (o + i)
    OBVIOUS
  <2> QED BY <1>2, <1>3, <2>1
<1> QED BY <1>1, <1>2, <1>3, <1>4 DEF At

LEMMA AtAt ==
    ASSUME NEW S, NEW m \in Seq(S), NEW s \in Seq(S), NEW u \in Seq(S),
           NEW o \in Nat, NEW k \in Nat, At(m, o, s), At(s, k, u)
    PROVE  At(m, o + k, u)
<1>1. PICK a \in Nat, b \in Nat, c \in Nat : a = Len(m) /\ b = Len(s) /\ c = Len(u)
  OBVIOUS
<1>2. /\ o + b <= a /\ \A i \in 1..b : m[o + i] = s[i]
      /\ k + c <= b /\ \A i \in 1..c : k + i \in 1..b /\ s[k + i] = u[i]
  BY <1>1 DEF At
<1>3. \A i \in 1..c : m[(o + k) + i] = u[i]
  <2> TAKE i \in 1..c
  <2>1. (o + k) + i = o + (k + i)
    OBVIOUS
  <2> QED BY <1>2, <2>1
<1> QED BY <1>1, <1>2, <1>3 DEF At
-----------------------------------------------------------------------------
(* Recursive functions on the numbers up to some number.                   *)

DefinedUpTo(h, n) == h = [i \in 0..n |-> h[i]]

(* g, with x for the next number. *)
Extend(g, m, x) == [i \in 0..m + 1 |-> IF i = m + 1 THEN x ELSE g[i]]

LEMMA Extended ==
    ASSUME NEW m \in Nat, NEW g, NEW x
    PROVE  LET h == Extend(g, m, x)
           IN  /\ DefinedUpTo(h, m + 1) /\ h[m + 1] = x
               /\ \A i \in 0..m : h[i] = g[i]
<1> DEFINE h == Extend(g, m, x)
<1>1. DefinedUpTo(h, m + 1) /\ h[m + 1] = x
  BY DEF DefinedUpTo, Extend
<1>2. \A i \in 0..m : i \in 0..m + 1 /\ i # m + 1
  OBVIOUS
<1>3. \A i \in 0..m : h[i] = g[i]
  BY <1>2 DEF Extend
<1> QED BY <1>1, <1>3

(* The places of a number up to m + 1: the last one, or an earlier one     *)
(* whose predecessor is earlier, too.                                      *)
LEMMA Places ==
    ASSUME NEW m \in Nat, NEW i \in 0..m + 1
    PROVE  \/ i = m + 1 /\ i # 0 /\ i - 1 = m
           \/ i \in 0..m /\ (i # 0 => i - 1 \in 0..m)
OBVIOUS

Quotients(g, n, m) == g = [i \in 0..m |-> IF i = 0 THEN n ELSE g[i - 1] \div 10]

LEMMA QuotientsExist ==
    ASSUME NEW n, NEW w \in Nat
    PROVE  \E g : Quotients(g, n, w)
<1> DEFINE S == {m \in 0..w : \E g : Quotients(g, n, m)}
<1>1. 0 \in S
  <2> DEFINE g == [i \in 0..0 |-> n]
  <2>1. Quotients(g, n, 0)
    BY DEF Quotients
  <2> QED BY <2>1
<1>2. ASSUME NEW m \in 0..w, m \in S, m # w PROVE m + 1 \in S
  <2>1. PICK g : Quotients(g, n, m)
    BY <1>2
  <2>0. m \in Nat /\ m \in 0..m
    OBVIOUS
  <2>x. PICK x : x = g[m] \div 10
    OBVIOUS
  <2>2. PICK h : /\ DefinedUpTo(h, m + 1) /\ h[m + 1] = x
                 /\ \A i \in 0..m : h[i] = g[i]
    <3>1. PICK h : h = Extend(g, m, x)
      OBVIOUS
    <3> QED BY <2>0, <3>1, Extended
  <2>3. \A i \in 0..m : g[i] = IF i = 0 THEN n ELSE g[i - 1] \div 10
    BY <2>1 DEF Quotients
  <2>4. ASSUME NEW i \in 0..m + 1 PROVE h[i] = IF i = 0 THEN n ELSE h[i - 1] \div 10
    <3>1. CASE i = m + 1 /\ i # 0 /\ i - 1 = m
      BY <2>0, <2>x, <2>2, <3>1
    <3>2. CASE i \in 0..m /\ (i # 0 => i - 1 \in 0..m)
      BY <2>2, <2>3, <3>2
    <3> QED BY <3>1, <3>2, Places
  <2>5. Quotients(h, n, m + 1)
    BY <2>2, <2>4 DEF Quotients, DefinedUpTo
  <2>6. m + 1 \in 0..w
    BY <1>2
  <2> QED BY <2>5, <2>6
<1> HIDE DEF S
<1>3. w \in S
  BY <1>1, <1>2, UpTo
<1> QED BY <1>3 DEF S

LEMMA TenTimes ==
    ASSUME NEW x \in Nat
    PROVE  x \div 10 \in Nat /\ x % 10 \in 0..9 /\ x = 10 * (x \div 10) + (x % 10)
OBVIOUS

LEMMA DigitsAre ==
    ASSUME NEW n \in Nat, NEW w \in Nat
    PROVE  \E q \in [0..w -> Nat] :
              /\ q[0] = n /\ \A i \in 1..w : q[i] = q[i - 1] \div 10
              /\ digits(n, w) = [i \in 1..w |-> Zero + (q[w - i] % 10)]
<1> DEFINE q == CHOOSE g : Quotients(g, n, w)
<1>1. Quotients(q, n, w)
  BY QuotientsExist
<1>2. digits(n, w) = [i \in 1..w |-> Zero + (q[w - i] % 10)]
  BY DEF digits, Quotients
<1> HIDE DEF q
<1>3. /\ q = [i \in 0..w |-> q[i]]
      /\ \A i \in 0..w : q[i] = IF i = 0 THEN n ELSE q[i - 1] \div 10
  BY <1>1 DEF Quotients
<1>4. q[0] = n /\ \A i \in 1..w : q[i] = q[i - 1] \div 10
  <2>1. 0 \in 0..w /\ \A i \in 1..w : i \in 0..w /\ i # 0
    OBVIOUS
  <2> QED BY <1>3, <2>1
<1>5. \A i \in 0..w : q[i] \in Nat
  <2> DEFINE S == {i \in 0..w : q[i] \in Nat}
  <2>1. 0 \in S
    BY <1>4
  <2>2. ASSUME NEW m \in 0..w, m \in S, m # w PROVE m + 1 \in S
    <3>1. m + 1 \in 1..w /\ (m + 1) - 1 = m
      BY <2>2
    <3>2. q[m + 1] = q[m] \div 10
      BY <1>4, <3>1
    <3> QED BY <2>2, <3>1, <3>2, TenTimes
  <2> HIDE DEF S
  <2>3. 0..w \subseteq S
    BY <2>1, <2>2, UpTo
  <2> QED BY <2>3 DEF S
<1>6. q \in [0..w -> Nat]
  BY <1>3, <1>5
<1> QED BY <1>2, <1>4, <1>6

Reading(g, bytes, m) ==
    g = [i \in 0..m |-> IF i = 0 THEN 0 ELSE 10 * g[i - 1] + (bytes[i] - Zero)]

LEMMA ReadingExists ==
    ASSUME NEW bytes, NEW n \in Nat
    PROVE  \E g : Reading(g, bytes, n)
<1> DEFINE S == {m \in 0..n : \E g : Reading(g, bytes, m)}
<1>1. 0 \in S
  <2> DEFINE g == [i \in 0..0 |-> 0]
  <2>1. Reading(g, bytes, 0)
    BY DEF Reading
  <2> QED BY <2>1
<1>2. ASSUME NEW m \in 0..n, m \in S, m # n PROVE m + 1 \in S
  <2>1. PICK g : Reading(g, bytes, m)
    BY <1>2
  <2>0. m \in Nat /\ m \in 0..m
    OBVIOUS
  <2>x. PICK x : x = 10 * g[m] + (bytes[m + 1] - Zero)
    OBVIOUS
  <2>2. PICK h : /\ DefinedUpTo(h, m + 1) /\ h[m + 1] = x
                 /\ \A i \in 0..m : h[i] = g[i]
    <3>1. PICK h : h = Extend(g, m, x)
      OBVIOUS
    <3> QED BY <2>0, <3>1, Extended
  <2>3. \A i \in 0..m : g[i] = IF i = 0 THEN 0 ELSE 10 * g[i - 1] + (bytes[i] - Zero)
    BY <2>1 DEF Reading
  <2>4. ASSUME NEW i \in 0..m + 1
        PROVE  h[i] = IF i = 0 THEN 0 ELSE 10 * h[i - 1] + (bytes[i] - Zero)
    <3>1. CASE i = m + 1 /\ i # 0 /\ i - 1 = m
      BY <2>0, <2>x, <2>2, <3>1
    <3>2. CASE i \in 0..m /\ (i # 0 => i - 1 \in 0..m)
      BY <2>2, <2>3, <3>2
    <3> QED BY <3>1, <3>2, Places
  <2>5. Reading(h, bytes, m + 1)
    BY <2>2, <2>4 DEF Reading, DefinedUpTo
  <2>6. m + 1 \in 0..n
    BY <1>2
  <2> QED BY <2>5, <2>6
<1> HIDE DEF S
<1>3. n \in S
  BY <1>1, <1>2, UpTo
<1> QED BY <1>3 DEF S

LEMMA ValueIs ==
    ASSUME NEW bytes \in Seq(Int), NEW n \in Nat, n = Len(bytes)
    PROVE  \E r \in [0..n -> Int] :
              /\ r[0] = 0 /\ \A i \in 1..n : r[i] = 10 * r[i - 1] + (bytes[i] - Zero)
              /\ value(bytes) = r[n]
<1> DEFINE r == CHOOSE g : Reading(g, bytes, n)
<1>1. Reading(r, bytes, n)
  BY ReadingExists
<1>2. value(bytes) = r[n]
  BY DEF value, Reading
<1> HIDE DEF r
<1>3. /\ r = [i \in 0..n |-> r[i]]
      /\ \A i \in 0..n : r[i] = IF i = 0 THEN 0 ELSE 10 * r[i - 1] + (bytes[i] - Zero)
  BY <1>1 DEF Reading
<1>4. r[0] = 0 /\ \A i \in 1..n : r[i] = 10 * r[i - 1] + (bytes[i] - Zero)
  BY <1>3
<1>5. \A i \in 0..n : r[i] \in Int
  <2> DEFINE S == {i \in 0..n : r[i] \in Int}
  <2>1. 0 \in S
    BY <1>4
  <2>2. ASSUME NEW m \in 0..n, m \in S, m # n PROVE m + 1 \in S
    <3>1. m + 1 \in 1..n /\ (m + 1) - 1 = m
      BY <2>2
    <3>2. r[m + 1] = 10 * r[m] + (bytes[m + 1] - Zero) /\ bytes[m + 1] \in Int /\ r[m] \in Int
      BY <1>4, <2>2, <3>1
    <3> QED BY <3>1, <3>2 DEF Zero
  <2> HIDE DEF S
  <2>3. 0..n \subseteq S
    BY <2>1, <2>2, UpTo
  <2> QED BY <2>3 DEF S
<1>6. r \in [0..n -> Int]
  BY <1>3, <1>5
<1> QED BY <1>2, <1>4, <1>6
-----------------------------------------------------------------------------
(* Numbers.                                                                *)

LEMMA DigitsFacts ==
    ASSUME NEW n \in Nat, NEW w \in Nat
    PROVE  /\ digits(n, w) \in Seq(Int) /\ Len(digits(n, w)) = w
           /\ \A i \in 1..w : digits(n, w)[i] \in 48..57
<1>1. PICK q \in [0..w -> Nat] :
          /\ q[0] = n /\ \A i \in 1..w : q[i] = q[i - 1] \div 10
          /\ digits(n, w) = [i \in 1..w |-> Zero + (q[w - i] % 10)]
  BY DigitsAre
<1>2. ASSUME NEW i \in 1..w PROVE Zero + (q[w - i] % 10) \in 48..57
  <2>1. q[w - i] \in Nat
    OBVIOUS
  <2>2. q[w - i] % 10 \in 0..9
    BY <2>1, TenTimes
  <2>3. PICK e \in 0..9 : e = q[w - i] % 10
    BY <2>2
  <2>4. Zero + e \in 48..57
    BY DEF Zero
  <2> QED BY <2>3, <2>4
<1> DEFINE e == [i \in 1..w |-> Zero + (q[w - i] % 10)]
<1>3. \A i \in 1..w : e[i] \in 48..57
  BY <1>2
<1>4. e = [i \in 1..w |-> e[i]]
  OBVIOUS
<1> HIDE DEF e
<1>5. e \in [1..w -> Int]
  BY <1>3, <1>4
<1>6. e \in Seq(Int) /\ Len(e) = w
  BY <1>5
<1>7. digits(n, w) = e
  BY <1>1 DEF e
<1> QED BY <1>3, <1>6, <1>7

(* The largest number of w digits is ten times the one of w - 1, and nine. *)
LEMMA LargestIs ==
    ASSUME NEW w \in Nat
    PROVE  \E z \in [0..w -> Int] :
              z[0] = 0 /\ z[w] = Largest(w) /\ \A i \in 1..w : z[i] = 10 * z[i - 1] + 9
<1> DEFINE nines == [i \in 1..w |-> Zero + 9]
<1>1. nines \in Seq(Int) /\ Len(nines) = w /\ \A i \in 1..w : nines[i] - Zero = 9
  BY DEF Zero
<1>2. value(nines) = Largest(w)
  BY DEF Largest
<1> HIDE DEF nines
<1>3. PICK z \in [0..w -> Int] :
          /\ z[0] = 0 /\ \A i \in 1..w : z[i] = 10 * z[i - 1] + (nines[i] - Zero)
          /\ value(nines) = z[w]
  BY <1>1, ValueIs
<1> QED BY <1>1, <1>2, <1>3

(* What is printed is read back. *)
LEMMA ReadBack ==
    ASSUME NEW n \in Nat, NEW w \in Nat, n <= Largest(w)
    PROVE  value(digits(n, w)) = n
<1>1. PICK q \in [0..w -> Nat] :
          /\ q[0] = n /\ \A i \in 1..w : q[i] = q[i - 1] \div 10
          /\ digits(n, w) = [i \in 1..w |-> Zero + (q[w - i] % 10)]
  BY DigitsAre
<1>2. PICK d \in Seq(Int) : d = digits(n, w) /\ Len(d) = w
  BY DigitsFacts
<1>3. \A i \in 1..w : d[i] = Zero + (q[w - i] % 10)
  BY <1>1, <1>2
<1>4. PICK r \in [0..w -> Int] :
          /\ r[0] = 0 /\ \A i \in 1..w : r[i] = 10 * r[i - 1] + (d[i] - Zero)
          /\ value(d) = r[w]
  BY <1>2, ValueIs
<1>5. PICK z \in [0..w -> Int] :
          z[0] = 0 /\ z[w] = Largest(w) /\ \A i \in 1..w : z[i] = 10 * z[i - 1] + 9
  BY LargestIs
<1>6. \A j \in 0..w : q[j] <= z[w - j]
  <2> DEFINE S == {j \in 0..w : q[j] <= z[w - j]}
  <2>1. 0 \in S
    <3>1. w - 0 = w /\ 0 \in 0..w
      OBVIOUS
    <3> QED BY <1>1, <1>5, <3>1
  <2>2. ASSUME NEW m \in 0..w, m \in S, m # w PROVE m + 1 \in S
    <3>1. /\ m + 1 \in 1..w /\ (m + 1) - 1 = m /\ w - m \in 1..w
          /\ (w - m) - 1 = w - (m + 1) /\ w - (m + 1) \in 0..w
          /\ m + 1 \in 0..w /\ w - m \in 0..w
      BY <2>2
    <3>a. \A i \in 0..w : q[i] \in Nat /\ z[i] \in Int
      OBVIOUS
    <3>b. q[m] \in Nat /\ q[m + 1] \in Nat /\ z[w - m] \in Int /\ z[w - (m + 1)] \in Int
      BY ONLY <3>1, <3>a, m \in 0..w
    <3>2. PICK a \in Nat, b \in Nat : a = q[m] /\ b = q[m + 1]
      BY ONLY <3>b
    <3>3. PICK x \in Int, y \in Int : x = z[w - m] /\ y = z[w - (m + 1)]
      BY ONLY <3>b
    <3>4. b = a \div 10
      BY <1>1, <3>1, <3>2
    <3>5. x = 10 * y + 9
      BY <1>5, <3>1, <3>3
    <3>6. a <= x
      BY <2>2, <3>2, <3>3
    <3>7. a % 10 \in 0..9 /\ a = 10 * b + (a % 10)
      BY <3>4, TenTimes
    <3>8. b <= y
      BY <3>5, <3>6, <3>7
    <3> QED BY <3>1, <3>2, <3>3, <3>8
  <2> HIDE DEF S
  <2>3. 0..w \subseteq S
    BY <2>1, <2>2, UpTo
  <2> QED BY <2>3 DEF S
<1>7. q[w] = 0
  <2>1. w \in 0..w /\ w - w = 0 /\ q[w] \in Nat
    OBVIOUS
  <2> QED BY <1>5, <1>6, <2>1
<1>8. \A i \in 0..w : r[i] = q[w - i]
  <2> DEFINE S == {i \in 0..w : r[i] = q[w - i]}
  <2>1. 0 \in S
    <3>1. w - 0 = w /\ 0 \in 0..w
      OBVIOUS
    <3> QED BY <1>4, <1>7, <3>1
  <2>2. ASSUME NEW m \in 0..w, m \in S, m # w PROVE m + 1 \in S
    <3>1. /\ m + 1 \in 1..w /\ (m + 1) - 1 = m /\ w - m \in 1..w
          /\ (w - m) - 1 = w - (m + 1) /\ w - (m + 1) \in 0..w
          /\ m + 1 \in 0..w /\ w - m \in 0..w
      BY <2>2
    <3>a. \A i \in 0..w : q[i] \in Nat
      OBVIOUS
    <3>b. q[w - m] \in Nat /\ q[w - (m + 1)] \in Nat
      BY ONLY <3>1, <3>a
    <3>2. PICK a \in Nat, b \in Nat : a = q[w - (m + 1)] /\ b = q[w - m]
      BY ONLY <3>b
    <3>3. b = a \div 10
      BY <1>1, <3>1, <3>2
    <3>4. r[m] = b
      BY <2>2, <3>2
    <3>5. d[m + 1] = Zero + (a % 10)
      BY <1>3, <3>1, <3>2
    <3>6. a % 10 \in 0..9 /\ a = 10 * b + (a % 10)
      BY <3>3, TenTimes
    <3>7. r[m + 1] = 10 * b + (d[m + 1] - Zero)
      BY <1>4, <3>1, <3>4
    <3>8. r[m + 1] = a
      <4>1. PICK e \in 0..9 : e = a % 10
        BY <3>6
      <4>2. d[m + 1] - Zero = e
        BY <3>5, <4>1 DEF Zero
      <4> QED BY <3>6, <3>7, <4>1, <4>2
    <3> QED BY <3>1, <3>2, <3>8
  <2> HIDE DEF S
  <2>3. 0..w \subseteq S
    BY <2>1, <2>2, UpTo
  <2> QED BY <2>3 DEF S
<1>9. w \in 0..w /\ w - w = 0
  OBVIOUS
<1> QED BY <1>1, <1>2, <1>4, <1>8, <1>9

LEMMA FieldFacts ==
    ASSUME NEW n \in Int
    PROVE  /\ field(n) \in Seq(Int) /\ Len(field(n)) = MAX_DIGITS
           /\ n >= 0 => field(n)[1] # Minus
           /\ n < 0 => field(n)[1] = Minus /\ Tail(field(n)) = digits(-n, MAX_DIGITS - 1)
<1>1. MAX_DIGITS \in Nat /\ MAX_DIGITS - 1 \in Nat /\ 1 \in 1..MAX_DIGITS
  BY CodecAssumption
<1>2. CASE n >= 0
  <2>1. n \in Nat /\ field(n) = digits(n, MAX_DIGITS)
    BY <1>2 DEF field
  <2>2. /\ digits(n, MAX_DIGITS) \in Seq(Int) /\ Len(digits(n, MAX_DIGITS)) = MAX_DIGITS
        /\ \A i \in 1..MAX_DIGITS : digits(n, MAX_DIGITS)[i] \in 48..57
    BY <1>1, <2>1, DigitsFacts
  <2> QED BY <1>1, <1>2, <2>1, <2>2 DEF Minus
<1>3. CASE n < 0
  <2>1. -n \in Nat /\ field(n) = <<Minus>> \o digits(-n, MAX_DIGITS - 1)
    BY <1>3 DEF field
  <2>2. PICK d \in Seq(Int) : d = digits(-n, MAX_DIGITS - 1) /\ Len(d) = MAX_DIGITS - 1
    BY <1>1, <2>1, DigitsFacts
  <2>3. <<Minus>> \in Seq(Int) /\ Len(<<Minus>>) = 1
    BY DEF Minus
  <2>4. /\ <<Minus>> \o d \in Seq(Int) /\ Len(<<Minus>> \o d) = MAX_DIGITS
        /\ (<<Minus>> \o d)[1] = Minus /\ Tail(<<Minus>> \o d) = d
    BY <1>1, <2>2, <2>3
  <2> QED BY <1>3, <2>1, <2>2, <2>4
<1> QED BY <1>2, <1>3

LEMMA NumberAt ==
    ASSUME NEW m \in Seq(Int), NEW o \in Nat, NEW n \in Numbers, At(m, o, field(n))
    PROVE  number(m, o) = n
<1>1. n \in Int /\ Fits(n)
  BY DEF Numbers
<1>2. PICK f \in Seq(Int) : f = field(n) /\ Len(f) = MAX_DIGITS
  BY <1>1, FieldFacts
<1>3. Part(m, o, MAX_DIGITS) = f
  BY <1>2, PartAt
<1>4. CASE n >= 0
  <2>1. f[1] # Minus /\ f = digits(n, MAX_DIGITS) /\ n <= Largest(MAX_DIGITS)
    BY <1>1, <1>2, <1>4, FieldFacts DEF field, Fits
  <2>2. value(f) = n
    BY <1>1, <1>4, <2>1, ReadBack, CodecAssumption
  <2> QED BY <1>3, <2>1, <2>2 DEF number
<1>5. CASE n < 0
  <2>1. /\ f[1] = Minus /\ Tail(f) = digits(-n, MAX_DIGITS - 1)
        /\ -n <= Largest(MAX_DIGITS - 1)
    BY <1>1, <1>2, <1>5, FieldFacts DEF Fits
  <2>2. PICK a \in Nat, w \in Nat : a = -n /\ w = MAX_DIGITS - 1
    BY <1>1, <1>5, CodecAssumption
  <2>3. value(Tail(f)) = a
    BY <2>1, <2>2, ReadBack
  <2> QED BY <1>1, <1>3, <2>1, <2>2, <2>3 DEF number
<1> QED BY <1>1, <1>4, <1>5

(* Nine is the least largest number there is: a field has a digit.         *)
LEMMA LargestBounds == Largest(MAX_DIGITS) \in Int /\ 9 <= Largest(MAX_DIGITS)
<1>1. PICK w \in Nat : w = MAX_DIGITS /\ 1 <= w
  BY CodecAssumption
<1>2. PICK z \in [0..w -> Int] :
          z[0] = 0 /\ z[w] = Largest(w) /\ \A i \in 1..w : z[i] = 10 * z[i - 1] + 9
  BY LargestIs
<1>3. \A i \in 0..w : z[i] \in Int
  OBVIOUS
<1> DEFINE S == {i \in 0..w : 0 <= z[i]}
<1>4. 0 \in S
  BY <1>2
<1>5. ASSUME NEW m \in 0..w, m \in S, m # w PROVE m + 1 \in S
  <2>1. m + 1 \in 1..w /\ (m + 1) - 1 = m /\ m + 1 \in 0..w
    BY <1>5
  <2>2. z[m + 1] = 10 * z[m] + 9 /\ z[m] \in Int /\ 0 <= z[m]
    BY <1>2, <1>3, <1>5, <2>1
  <2> QED BY <2>1, <2>2
<1> HIDE DEF S
<1>6. 0..w \subseteq S
  BY <1>4, <1>5, UpTo
<1>7. w \in 1..w /\ w - 1 \in 0..w /\ w \in 0..w
  BY <1>1
<1>8. z[w] = 10 * z[w - 1] + 9 /\ z[w - 1] \in Int /\ z[w] \in Int
  BY <1>2, <1>3, <1>7
<1>9. 0 <= z[w - 1]
  BY <1>6, <1>7 DEF S
<1> QED BY <1>1, <1>2, <1>8, <1>9

LEMMA SmallerFits ==
    ASSUME NEW k \in Nat, NEW n \in Nat, n <= k, Fits(k)
    PROVE  n \in Numbers
BY LargestBounds DEF Fits, Numbers

LEMMA CodeFits ==
    ASSUME NEW n \in 0..9
    PROVE  n \in Numbers
<1>1. n \in Nat /\ n <= 9 /\ n \in Int /\ n >= 0
  OBVIOUS
<1>2. Fits(n)
  BY <1>1, LargestBounds DEF Fits
<1> QED BY <1>1, <1>2 DEF Numbers
-----------------------------------------------------------------------------
(* The parts of a message. *)

LEMMA Widened ==
    ASSUME NEW S, NEW T, S \subseteq T, NEW s \in Seq(S)
    PROVE  s \in Seq(T) /\ Len(s) \in Nat
OBVIOUS

LEMMA TextIsBytes ==
    ASSUME NEW s \in Text
    PROVE  s \in Seq(Int) /\ Len(s) \in Nat
<1>1. s \in Seq(0..255)
  BY DEF Text
<1>2. PICK S : S = 0..255
  OBVIOUS
<1>3. S \subseteq Int /\ s \in Seq(S)
  BY <1>1, <1>2
<1> QED BY <1>3, Widened

LEMMA NulIsBytes == <<NUL>> \in Seq(Int) /\ Len(<<NUL>>) = 1
BY DEF NUL

LEMMA TwoParts ==
    ASSUME NEW a \in Seq(Int), NEW b \in Seq(Int)
    PROVE  LET m == a \o b
           IN  /\ m \in Seq(Int) /\ Len(m) = Len(a) + Len(b)
               /\ At(m, 0, a) /\ At(m, Len(a), b)
<1>1. a \o b \in Seq(Int) /\ Len(a \o b) = Len(a) + Len(b)
  BY Joined
<1>2. At(a, 0, a) /\ At(b, 0, b)
  BY AtAll
<1>3. At(a \o b, 0, a)
  BY <1>2, AtLeft
<1>4. At(a \o b, Len(a) + 0, b)
  BY <1>2, AtRight
<1>5. Len(a) + 0 = Len(a)
  OBVIOUS
<1> QED BY <1>1, <1>3, <1>4, <1>5

LEMMA ThreeParts ==
    ASSUME NEW a \in Seq(Int), NEW b \in Seq(Int), NEW c \in Seq(Int)
    PROVE  LET m == a \o b \o c
           IN  /\ m \in Seq(Int) /\ Len(m) = Len(a) + Len(b) + Len(c)
               /\ At(m, 0, a) /\ At(m, Len(a), b) /\ At(m, Len(a) + Len(b), c)
<1>1. PICK p \in Seq(Int) : /\ p = a \o b /\ Len(p) = Len(a) + Len(b)
                            /\ At(p, 0, a) /\ At(p, Len(a), b)
  BY TwoParts
<1>2. /\ p \o c \in Seq(Int) /\ Len(p \o c) = Len(p) + Len(c)
      /\ At(p \o c, Len(p), c)
  BY TwoParts
<1>3. Len(a) \in Nat
  OBVIOUS
<1>4. At(p \o c, 0, a) /\ At(p \o c, Len(a), b)
  BY <1>1, <1>3, AtLeft
<1> QED BY <1>1, <1>2, <1>4

LEMMA FourParts ==
    ASSUME NEW a \in Seq(Int), NEW b \in Seq(Int), NEW c \in Seq(Int), NEW d \in Seq(Int)
    PROVE  LET m == a \o b \o c \o d
           IN  /\ m \in Seq(Int) /\ Len(m) = Len(a) + Len(b) + Len(c) + Len(d)
               /\ At(m, 0, a) /\ At(m, Len(a), b) /\ At(m, Len(a) + Len(b), c)
               /\ At(m, Len(a) + Len(b) + Len(c), d)
<1>1. PICK p \in Seq(Int) : /\ p = a \o b \o c /\ Len(p) = Len(a) + Len(b) + Len(c)
                            /\ At(p, 0, a) /\ At(p, Len(a), b) /\ At(p, Len(a) + Len(b), c)
  BY ThreeParts
<1>2. /\ p \o d \in Seq(Int) /\ Len(p \o d) = Len(p) + Len(d)
      /\ At(p \o d, Len(p), d)
  BY TwoParts
<1>3. Len(a) \in Nat /\ Len(a) + Len(b) \in Nat
  OBVIOUS
<1>4. At(p \o d, 0, a) /\ At(p \o d, Len(a), b) /\ At(p \o d, Len(a) + Len(b), c)
  BY <1>1, <1>3, AtLeft
<1> QED BY <1>1, <1>2, <1>4

(* A name is read back, wherever the rest of the message ends.             *)
LEMMA NameFrom ==
    ASSUME NEW m \in Seq(Int), NEW s \in Text, Len(s) \in Numbers,
           At(m, 0, field(Len(s))), At(m, MAX_DIGITS, s)
    PROVE  number(m, 0) = Len(s) /\ s_from_string(m) = s
<1>1. s \in Seq(Int) /\ MAX_DIGITS \in Nat
  BY TextIsBytes, CodecAssumption
<1>2. PICK n \in Numbers : n = Len(s)
  OBVIOUS
<1>3. number(m, 0) = n
  BY <1>2, NumberAt
<1>4. Part(m, MAX_DIGITS, Len(s)) = s
  BY <1>1, PartAt
<1> QED BY <1>2, <1>3, <1>4 DEF s_from_string

LEMMA FileFacts ==
    ASSUME NEW s \in Text, NEW b \in Text
    PROVE  LET e == snb_to_string(s, b)
               M == MAX_DIGITS
           IN  /\ e \in Seq(Int) /\ Len(e) = snb_size(s, b)
               /\ At(e, 0, field(Len(s))) /\ At(e, M, s)
               /\ At(e, M + Len(s), field(Len(b))) /\ At(e, M + Len(s) + M + 1, b)
<1>1. PICK l \in Nat, k \in Nat, M \in Nat : l = Len(s) /\ k = Len(b) /\ M = MAX_DIGITS
  BY TextIsBytes, CodecAssumption
<1>2. PICK f \in Seq(Int), g \in Seq(Int) :
          f = field(l) /\ g = field(k) /\ Len(f) = M /\ Len(g) = M
  BY <1>1, FieldFacts
<1>3. s \in Seq(Int) /\ b \in Seq(Int)
  BY TextIsBytes
<1>4. PICK u \in Seq(Int) : u = <<NUL>> /\ Len(u) = 1
  BY NulIsBytes
<1>0. PICK p \in Seq(Int) :
          /\ p = f \o s \o g \o u /\ Len(p) = Len(f) + Len(s) + Len(g) + Len(u)
          /\ At(p, 0, f) /\ At(p, Len(f), s) /\ At(p, Len(f) + Len(s), g)
  <2>1. LET m == f \o s \o g \o u
        IN  /\ m \in Seq(Int) /\ Len(m) = Len(f) + Len(s) + Len(g) + Len(u)
            /\ At(m, 0, f) /\ At(m, Len(f), s) /\ At(m, Len(f) + Len(s), g)
            /\ At(m, Len(f) + Len(s) + Len(g), u)
    BY <1>3, FourParts
  <2> QED BY <2>1
<1>5. /\ p = f \o s \o g \o u /\ Len(p) = M + l + M + 1
      /\ At(p, 0, f) /\ At(p, M, s) /\ At(p, M + l, g)
  BY <1>0, <1>1, <1>2, <1>4
<1>6. /\ p \o b \in Seq(Int) /\ Len(p \o b) = Len(p) + Len(b)
      /\ At(p \o b, Len(p), b)
  BY <1>3, TwoParts
<1>7. M + l \in Nat
  OBVIOUS
<1>8. At(p \o b, 0, f) /\ At(p \o b, M, s) /\ At(p \o b, M + l, g)
  BY <1>2, <1>3, <1>5, <1>7, AtLeft
<1>9. p \o b = snb_to_string(s, b)
  BY <1>1, <1>2, <1>4, <1>5 DEF snb_to_string
<1>10. Len(p \o b) = snb_size(s, b)
  BY <1>1, <1>5, <1>6 DEF snb_size
<1> QED BY <1>1, <1>2, <1>5, <1>6, <1>8, <1>9, <1>10

(* A file of which the message begins with the encoding is read back.      *)
LEMMA FileFrom ==
    ASSUME NEW m \in Seq(Int), NEW s \in Text, NEW b \in Text, Len(s) \in Numbers,
           Len(b) \in Numbers, At(m, 0, snb_to_string(s, b))
    PROVE  snb_from_string(m) = <<s, b>>
<1>1. PICK l \in Nat, k \in Nat, M \in Nat : l = Len(s) /\ k = Len(b) /\ M = MAX_DIGITS
  BY TextIsBytes, CodecAssumption
<1>2. PICK e \in Seq(Int) :
          /\ e = snb_to_string(s, b)
          /\ At(e, 0, field(l)) /\ At(e, M, s) /\ At(e, M + l, field(k)) /\ At(e, M + l + M + 1, b)
  BY <1>1, FileFacts
<1>3. /\ field(l) \in Seq(Int) /\ field(k) \in Seq(Int) /\ s \in Seq(Int) /\ b \in Seq(Int)
      /\ M + l \in Nat /\ M + l + M + 1 \in Nat
  BY FieldFacts, TextIsBytes
<1>4. At(m, 0 + 0, field(l)) /\ At(m, 0 + M, s)
  BY <1>2, <1>3, AtAt
<1>5. At(m, 0 + (M + l), field(k)) /\ At(m, 0 + (M + l + M + 1), b)
  BY <1>2, <1>3, AtAt
<1>6. 0 + 0 = 0 /\ 0 + M = M /\ 0 + (M + l) = M + l /\ 0 + (M + l + M + 1) = M + l + M + 1
  OBVIOUS
<1>7. s_from_string(m) = s
  BY <1>1, <1>4, <1>6, NameFrom
<1>8. number(m, M + l) = k
  BY <1>1, <1>3, <1>5, <1>6, NumberAt
<1>9. Part(m, M + l + M + 1, k) = b
  BY <1>1, <1>3, <1>5, <1>6, PartAt
<1> QED BY <1>1, <1>7, <1>8, <1>9 DEF snb_from_string

LEMMA NumberBack ==
    ASSUME NEW n \in Numbers
    PROVE  /\ n_to_string(n) \in Seq(Int)
           /\ Len(n_to_string(n)) = MAX_DIGITS + 1
           /\ n_from_string(n_to_string(n)) = n
<1>1. PICK f \in Seq(Int), u \in Seq(Int) :
          f = field(n) /\ Len(f) = MAX_DIGITS /\ u = <<NUL>> /\ Len(u) = 1
  BY FieldFacts, NulIsBytes DEF Numbers
<1>2. f \o u \in Seq(Int) /\ At(f \o u, 0, f) /\ Len(f \o u) = Len(f) + Len(u)
  BY TwoParts
<1>3. number(f \o u, 0) = n
  BY <1>1, <1>2, NumberAt
<1> QED BY <1>1, <1>2, <1>3 DEF n_to_string, n_from_string

LEMMA NameBack ==
    ASSUME NEW s \in Text, Fits(Len(s_to_string(s)))
    PROVE  s_to_string(s) \in Seq(Int) /\ s_from_string(s_to_string(s)) = s
<1>1. PICK l \in Nat, M \in Nat : l = Len(s) /\ M = MAX_DIGITS
  BY TextIsBytes, CodecAssumption
<1>2. PICK f \in Seq(Int), u \in Seq(Int) : f = field(l) /\ Len(f) = M /\ u = <<NUL>> /\ Len(u) = 1
  <2>1. field(l) \in Seq(Int) /\ Len(field(l)) = M
    BY <1>1, FieldFacts
  <2> QED BY <2>1, NulIsBytes
<1>3. s \in Seq(Int)
  BY TextIsBytes
<1>4. PICK m \in Seq(Int) : /\ m = f \o s \o u /\ Len(m) = Len(f) + Len(s) + Len(u)
                            /\ At(m, 0, f) /\ At(m, Len(f), s)
  <2>1. LET m == f \o s \o u
        IN  /\ m \in Seq(Int) /\ Len(m) = Len(f) + Len(s) + Len(u)
            /\ At(m, 0, f) /\ At(m, Len(f), s) /\ At(m, Len(f) + Len(s), u)
    BY <1>3, ThreeParts
  <2> QED BY <2>1
<1>5. m = s_to_string(s) /\ Len(m) \in Nat /\ l <= Len(m)
  BY <1>1, <1>2, <1>4 DEF s_to_string
<1>6. l \in Numbers
  BY <1>5, SmallerFits
<1>7. s_from_string(m) = s
  BY <1>1, <1>2, <1>4, <1>6, NameFrom
<1> QED BY <1>5, <1>7

LEMMA NameNumberBack ==
    ASSUME NEW s \in Text, NEW n \in Numbers, Fits(Len(sn_to_string(s, n)))
    PROVE  sn_to_string(s, n) \in Seq(Int) /\ sn_from_string(sn_to_string(s, n)) = <<s, n>>
<1>1. PICK l \in Nat, M \in Nat : l = Len(s) /\ M = MAX_DIGITS
  BY TextIsBytes, CodecAssumption
<1>2. PICK f \in Seq(Int), g \in Seq(Int), u \in Seq(Int) :
          /\ f = field(l) /\ Len(f) = M /\ g = field(n) /\ Len(g) = M
          /\ u = <<NUL>> /\ Len(u) = 1
  <2>1. field(l) \in Seq(Int) /\ Len(field(l)) = M
    BY <1>1, FieldFacts
  <2>2. field(n) \in Seq(Int) /\ Len(field(n)) = M
    BY <1>1, FieldFacts DEF Numbers
  <2> QED BY <2>1, <2>2, NulIsBytes
<1>3. s \in Seq(Int)
  BY TextIsBytes
<1>4. PICK m \in Seq(Int) :
          /\ m = f \o s \o g \o u /\ Len(m) = Len(f) + Len(s) + Len(g) + Len(u)
          /\ At(m, 0, f) /\ At(m, Len(f), s) /\ At(m, Len(f) + Len(s), g)
  <2>1. LET m == f \o s \o g \o u
        IN  /\ m \in Seq(Int) /\ Len(m) = Len(f) + Len(s) + Len(g) + Len(u)
            /\ At(m, 0, f) /\ At(m, Len(f), s) /\ At(m, Len(f) + Len(s), g)
            /\ At(m, Len(f) + Len(s) + Len(g), u)
    BY <1>3, FourParts
  <2> QED BY <2>1
<1>5. m = sn_to_string(s, n) /\ Len(m) \in Nat /\ l <= Len(m)
  BY <1>1, <1>2, <1>4 DEF sn_to_string
<1>6. l \in Numbers
  BY <1>5, SmallerFits
<1>7. number(m, 0) = l /\ s_from_string(m) = s
  BY <1>1, <1>2, <1>4, <1>6, NameFrom
<1>8. M + l \in Nat /\ At(m, M + l, field(n))
  BY <1>1, <1>2, <1>4
<1>9. number(m, M + l) = n
  BY <1>8, NumberAt
<1> QED BY <1>1, <1>5, <1>7, <1>9 DEF sn_from_string

LEMMA NumberBytesBack ==
    ASSUME NEW n \in Numbers, NEW b \in Text, Fits(Len(nnb_to_string(n, b)))
    PROVE  nnb_to_string(n, b) \in Seq(Int) /\ nnb_from_string(nnb_to_string(n, b)) = <<n, b>>
<1>1. PICK l \in Nat, M \in Nat : l = Len(b) /\ M = MAX_DIGITS
  BY TextIsBytes, CodecAssumption
<1>2. PICK f \in Seq(Int), g \in Seq(Int), u \in Seq(Int) :
          /\ f = field(n) /\ Len(f) = M /\ g = field(l) /\ Len(g) = M
          /\ u = <<NUL>> /\ Len(u) = 1
  <2>1. field(l) \in Seq(Int) /\ Len(field(l)) = M
    BY <1>1, FieldFacts
  <2>2. field(n) \in Seq(Int) /\ Len(field(n)) = M
    BY <1>1, FieldFacts DEF Numbers
  <2> QED BY <2>1, <2>2, NulIsBytes
<1>3. b \in Seq(Int)
  BY TextIsBytes
<1>4. PICK m \in Seq(Int) :
          /\ m = f \o g \o u \o b /\ Len(m) = Len(f) + Len(g) + Len(u) + Len(b)
          /\ At(m, 0, f) /\ At(m, Len(f), g) /\ At(m, Len(f) + Len(g) + Len(u), b)
  <2>1. LET m == f \o g \o u \o b
        IN  /\ m \in Seq(Int) /\ Len(m) = Len(f) + Len(g) + Len(u) + Len(b)
            /\ At(m, 0, f) /\ At(m, Len(f), g) /\ At(m, Len(f) + Len(g), u)
            /\ At(m, Len(f) + Len(g) + Len(u), b)
    BY <1>3, FourParts
  <2> QED BY <2>1
<1>5. m = nnb_to_string(n, b) /\ Len(m) \in Nat /\ l <= Len(m)
  BY <1>1, <1>2, <1>4 DEF nnb_to_string
<1>6. l \in Numbers
  BY <1>5, SmallerFits
<1>7. number(m, 0) = n
  BY <1>2, <1>4, NumberAt
<1>8. number(m, M) = l
  BY <1>2, <1>4, <1>6, NumberAt
<1>9. 2 * M + 1 \in Nat /\ At(m, 2 * M + 1, b)
  <2>1. Len(f) + Len(g) + Len(u) = 2 * M + 1
    BY <1>2
  <2> QED BY <1>4, <2>1
<1>10. Part(m, 2 * M + 1, l) = b
  BY <1>1, <1>3, <1>9, PartAt
<1> QED BY <1>1, <1>5, <1>7, <1>8, <1>10 DEF nnb_from_string

LEMMA FileBack ==
    ASSUME NEW s \in Text, NEW b \in Text, Fits(Len(snb_to_string(s, b)))
    PROVE  snb_to_string(s, b) \in Seq(Int) /\ snb_from_string(snb_to_string(s, b)) = <<s, b>>
<1>1. PICK l \in Nat, k \in Nat : l = Len(s) /\ k = Len(b)
  BY TextIsBytes
<1>2. PICK e \in Seq(Int) : e = snb_to_string(s, b) /\ Len(e) = snb_size(s, b)
  BY FileFacts
<1>3. Len(e) \in Nat /\ l <= Len(e) /\ k <= Len(e)
  BY <1>1, <1>2, CodecAssumption DEF snb_size
<1>4. l \in Numbers /\ k \in Numbers
  BY <1>2, <1>3, SmallerFits
<1>5. At(e, 0, e)
  BY AtAll
<1> QED BY <1>1, <1>2, <1>4, <1>5, FileFrom
-----------------------------------------------------------------------------
(* Lists of files: what is written of one, and what is left of it while it *)
(* is read.                                                                *)

Writing(g, a, m) ==
    g = [i \in 0..m |-> IF i = 0 THEN field(Len(a))
                        ELSE g[i - 1] \o snb_to_string(a[i][1], a[i][2])]

Resting(g, a, m) ==
    g = [i \in 0..m |-> IF i = 0 THEN a ELSE next_file(g[i - 1], snb_from_string(g[i - 1]))]

LEMMA WritingExists ==
    ASSUME NEW a, NEW n \in Nat
    PROVE  \E g : Writing(g, a, n)
<1> DEFINE S == {m \in 0..n : \E g : Writing(g, a, m)}
<1>1. 0 \in S
  <2> DEFINE g == [i \in 0..0 |-> field(Len(a))]
  <2>1. Writing(g, a, 0)
    BY DEF Writing
  <2> QED BY <2>1
<1>2. ASSUME NEW m \in 0..n, m \in S, m # n PROVE m + 1 \in S
  <2>1. PICK g : Writing(g, a, m)
    BY <1>2
  <2>0. m \in Nat /\ m \in 0..m
    OBVIOUS
  <2>x. PICK x : x = g[m] \o snb_to_string(a[m + 1][1], a[m + 1][2])
    OBVIOUS
  <2>2. PICK h : /\ DefinedUpTo(h, m + 1) /\ h[m + 1] = x
                 /\ \A i \in 0..m : h[i] = g[i]
    <3>1. PICK h : h = Extend(g, m, x)
      OBVIOUS
    <3> QED BY <2>0, <3>1, Extended
  <2>3. \A i \in 0..m : g[i] = IF i = 0 THEN field(Len(a)) ELSE g[i - 1] \o snb_to_string(a[i][1], a[i][2])
    BY <2>1 DEF Writing
  <2>4. ASSUME NEW i \in 0..m + 1 PROVE h[i] = IF i = 0 THEN field(Len(a)) ELSE h[i - 1] \o snb_to_string(a[i][1], a[i][2])
    <3>1. CASE i = m + 1 /\ i # 0 /\ i - 1 = m
      BY <2>0, <2>x, <2>2, <3>1
    <3>2. CASE i \in 0..m /\ (i # 0 => i - 1 \in 0..m)
      BY <2>2, <2>3, <3>2
    <3> QED BY <3>1, <3>2, Places
  <2>5. Writing(h, a, m + 1)
    BY <2>2, <2>4 DEF Writing, DefinedUpTo
  <2>6. m + 1 \in 0..n
    BY <1>2
  <2> QED BY <2>5, <2>6
<1> HIDE DEF S
<1>3. n \in S
  BY <1>1, <1>2, UpTo
<1> QED BY <1>3 DEF S

LEMMA RestingExists ==
    ASSUME NEW a, NEW n \in Nat
    PROVE  \E g : Resting(g, a, n)
<1> DEFINE S == {m \in 0..n : \E g : Resting(g, a, m)}
<1>1. 0 \in S
  <2> DEFINE g == [i \in 0..0 |-> a]
  <2>1. Resting(g, a, 0)
    BY DEF Resting
  <2> QED BY <2>1
<1>2. ASSUME NEW m \in 0..n, m \in S, m # n PROVE m + 1 \in S
  <2>1. PICK g : Resting(g, a, m)
    BY <1>2
  <2>0. m \in Nat /\ m \in 0..m
    OBVIOUS
  <2>x. PICK x : x = next_file(g[m], snb_from_string(g[m]))
    OBVIOUS
  <2>2. PICK h : /\ DefinedUpTo(h, m + 1) /\ h[m + 1] = x
                 /\ \A i \in 0..m : h[i] = g[i]
    <3>1. PICK h : h = Extend(g, m, x)
      OBVIOUS
    <3> QED BY <2>0, <3>1, Extended
  <2>3. \A i \in 0..m : g[i] = IF i = 0 THEN a ELSE next_file(g[i - 1], snb_from_string(g[i - 1]))
    BY <2>1 DEF Resting
  <2>4. ASSUME NEW i \in 0..m + 1 PROVE h[i] = IF i = 0 THEN a ELSE next_file(h[i - 1], snb_from_string(h[i - 1]))
    <3>1. CASE i = m + 1 /\ i # 0 /\ i - 1 = m
      BY <2>0, <2>x, <2>2, <3>1
    <3>2. CASE i \in 0..m /\ (i # 0 => i - 1 \in 0..m)
      BY <2>2, <2>3, <3>2
    <3> QED BY <3>1, <3>2, Places
  <2>5. Resting(h, a, m + 1)
    BY <2>2, <2>4 DEF Resting, DefinedUpTo
  <2>6. m + 1 \in 0..n
    BY <1>2
  <2> QED BY <2>5, <2>6
<1> HIDE DEF S
<1>3. n \in S
  BY <1>1, <1>2, UpTo
<1> QED BY <1>3 DEF S

(* What is left of m behind its first o elements. *)
From(m, o) == SubSeq(m, o + 1, Len(m))

LEMMA FromFrom ==
    ASSUME NEW S, NEW m \in Seq(S), NEW o \in Nat, NEW k \in Nat, o + k <= Len(m)
    PROVE  From(From(m, o), k) = From(m, o + k)
<1>1. PICK n \in Nat : n = Len(m)
  OBVIOUS
<1>2. PICK a \in Nat : a = o + k
  OBVIOUS
<1>0. a <= n
  BY <1>1, <1>2
<1>3. PICK b \in Nat : b = n - a
  BY <1>0
<1>4. PICK c \in Nat : c = k + b
  OBVIOUS
<1>5. o + c = n /\ a + b = n /\ o + c <= Len(m) /\ a + b <= Len(m)
  BY <1>1, <1>2, <1>3, <1>4
<1>6. PICK r : r = Part(m, o, c)
  OBVIOUS
<1>7. r = From(m, o) /\ Part(m, a, b) = From(m, a)
  BY <1>1, <1>5, <1>6 DEF Part, From
<1>8. r \in Seq(S) /\ Len(r) = c /\ \A i \in 1..c : r[i] = m[o + i]
  BY <1>5, <1>6, Parted
<1>9. PICK t : t = Part(r, k, b)
  OBVIOUS
<1>10. k + b = Len(r) /\ k + b <= Len(r)
  BY <1>4, <1>8
<1>11. t = From(r, k)
  BY <1>9, <1>10 DEF Part, From
<1>12. t \in Seq(S) /\ Len(t) = b /\ \A i \in 1..b : t[i] = r[k + i]
  BY <1>8, <1>9, <1>10, Parted
<1>13. PICK u : u = Part(m, a, b)
  OBVIOUS
<1>14. u \in Seq(S) /\ Len(u) = b /\ \A i \in 1..b : u[i] = m[a + i]
  BY <1>5, <1>13, Parted
<1>15. ASSUME NEW i \in 1..b PROVE t[i] = u[i]
  <2>1. k + i \in 1..c /\ o + (k + i) = a + i
    BY <1>2, <1>4
  <2> QED BY <1>8, <1>12, <1>14, <2>1
<1>16. t = u
  BY <1>12, <1>14, <1>15, SameSequence
<1> QED BY <1>2, <1>7, <1>11, <1>13, <1>16

LEMMA AtFrom ==
    ASSUME NEW S, NEW m \in Seq(S), NEW o \in Nat, NEW u \in Seq(S), At(m, o, u)
    PROVE  From(m, o) \in Seq(S) /\ At(From(m, o), 0, u)
<1>1. PICK c \in Nat, n \in Nat : c = Len(u) /\ n = Len(m)
  OBVIOUS
<1>2. o + c <= n /\ \A i \in 1..c : m[o + i] = u[i]
  BY <1>1 DEF At
<1>3. PICK k \in Nat : k = n - o
  BY <1>2
<1>4. PICK r : r = Part(m, o, k)
  OBVIOUS
<1>5. o + k = Len(m) /\ o + k <= Len(m)
  BY <1>1, <1>3
<1>6. r = From(m, o)
  BY <1>4, <1>5 DEF Part, From
<1>7. r \in Seq(S) /\ Len(r) = k /\ \A i \in 1..k : r[i] = m[o + i]
  BY <1>4, <1>5, Parted
<1>8. \A i \in 1..c : i \in 1..k /\ 0 + i = i
  BY <1>2, <1>3
<1>9. 0 + c <= k /\ \A i \in 1..c : r[0 + i] = u[i]
  BY <1>2, <1>3, <1>7, <1>8
<1> QED BY <1>1, <1>6, <1>7, <1>9 DEF At

(* A list of files is read back: every file was written whole, behind the  *)
(* ones before it, and what is left after i files is the message behind    *)
(* the first i.                                                            *)
LEMMA ListBack ==
    ASSUME NEW q \in Seq(Text \X Text), Fits(Len(nq_to_string(q)))
    PROVE  nq_to_string(q) \in Seq(Int) /\ nq_from_string(nq_to_string(q)) = q
<1>1. PICK n \in Nat, M \in Nat : n = Len(q) /\ M = MAX_DIGITS
  BY CodecAssumption
<1> DEFINE w == CHOOSE g : Writing(g, q, n)
<1>2. Writing(w, q, n)
  BY WritingExists
<1>3. nq_to_string(q) = w[n]
  BY <1>1 DEF nq_to_string, Writing
<1> HIDE DEF w
<1>4. \A i \in 0..n : w[i] = IF i = 0 THEN field(Len(q))
                           ELSE w[i - 1] \o snb_to_string(q[i][1], q[i][2])
  BY <1>2 DEF Writing
<1> DEFINE e(i) == snb_to_string(q[i][1], q[i][2])
<1>5. \A i \in 1..n : q[i] \in Text \X Text
  BY <1>1
<1>6. \A i \in 1..n : q[i][1] \in Text /\ q[i][2] \in Text /\ q[i] = <<q[i][1], q[i][2]>>
  BY <1>5
<1>7. \A i \in 1..n : e(i) \in Seq(Int) /\ Len(e(i)) = snb_size(q[i][1], q[i][2])
  BY <1>6, FileFacts
<1>8. \A i \in 1..n : Len(e(i)) \in Nat /\ Len(e(i)) >= 1
                       /\ Len(q[i][1]) <= Len(e(i)) /\ Len(q[i][2]) <= Len(e(i))
  <2> TAKE i \in 1..n
  <2>1. PICK l \in Nat, k \in Nat : l = Len(q[i][1]) /\ k = Len(q[i][2])
    BY <1>6, TextIsBytes
  <2>2. Len(e(i)) = 2 * M + l + 1 + k
    BY <1>1, <1>7, <2>1 DEF snb_size
  <2>3. PICK z \in Nat : z = 2 * M + l + 1 + k
    OBVIOUS
  <2>4. z >= 1 /\ l <= z /\ k <= z
    BY <2>3
  <2>5. Len(e(i)) = z
    BY <2>2, <2>3
  <2> QED BY <2>1, <2>4, <2>5
<1> HIDE DEF e
<1>9. w[0] = field(n) /\ \A i \in 1..n : w[i] = w[i - 1] \o e(i)
  <2>1. 0 \in 0..n /\ \A i \in 1..n : i \in 0..n /\ i # 0
    OBVIOUS
  <2> QED BY <1>1, <1>4, <2>1 DEF e
<1>10. ASSUME NEW m \in 0..n, w[m] \in Seq(Int), m # n
       PROVE  /\ m + 1 \in 1..n /\ w[m + 1] \in Seq(Int) /\ Len(w[m + 1]) = Len(w[m]) + Len(e(m + 1))
              /\ At(w[m + 1], 0, w[m]) /\ At(w[m + 1], Len(w[m]), e(m + 1))
  <2>1. m + 1 \in 1..n /\ (m + 1) - 1 = m
    BY <1>10
  <2>2. w[m + 1] = w[m] \o e(m + 1) /\ e(m + 1) \in Seq(Int)
    BY <1>7, <1>9, <2>1
  <2>3. PICK a \in Seq(Int), b \in Seq(Int) : a = w[m] /\ b = e(m + 1)
    BY <1>10, <2>2
  <2>4. /\ a \o b \in Seq(Int) /\ Len(a \o b) = Len(a) + Len(b)
        /\ At(a \o b, 0, a) /\ At(a \o b, Len(a), b)
    BY TwoParts
  <2> QED BY <2>1, <2>2, <2>3, <2>4
<1>11. \A m \in 0..n : w[m] \in Seq(Int) /\ m + M <= Len(w[m]) /\ \A i \in 0..m : w[i] \in Seq(Int) /\ At(w[m], 0, w[i])
  <2> DEFINE S == {m \in 0..n : /\ w[m] \in Seq(Int) /\ m + M <= Len(w[m])
                                /\ \A i \in 0..m : w[i] \in Seq(Int) /\ At(w[m], 0, w[i])}
  <2>1. 0 \in S
    <3>1. w[0] \in Seq(Int) /\ Len(w[0]) = M /\ 0 \in 0..n
      BY <1>1, <1>9, FieldFacts
    <3>2. At(w[0], 0, w[0])
      BY <3>1, AtAll
    <3>3. \A i \in 0..0 : i = 0
      OBVIOUS
    <3> QED BY <3>1, <3>2, <3>3
  <2>2. ASSUME NEW m \in 0..n, m \in S, m # n PROVE m + 1 \in S
    <3>0. /\ w[m] \in Seq(Int) /\ m + M <= Len(w[m])
          /\ \A i \in 0..m : w[i] \in Seq(Int) /\ At(w[m], 0, w[i])
      BY <2>2
    <3>1. /\ m + 1 \in 1..n /\ w[m + 1] \in Seq(Int) /\ Len(w[m + 1]) = Len(w[m]) + Len(e(m + 1))
          /\ At(w[m + 1], 0, w[m]) /\ At(w[m + 1], Len(w[m]), e(m + 1))
      BY <1>10, <2>2, <3>0
    <3>2. (m + 1) + M <= Len(w[m + 1])
      <4>1. Len(e(m + 1)) \in Nat /\ Len(e(m + 1)) >= 1 /\ Len(w[m]) \in Nat
        BY <1>8, <3>0, <3>1
      <4>2. PICK a \in Nat, b \in Nat : a = Len(w[m]) /\ b = Len(e(m + 1)) /\ b >= 1
        BY <4>1
      <4>3. m + M <= a /\ Len(w[m + 1]) = a + b
        BY <3>0, <3>1, <4>2
      <4>4. (m + 1) + M <= a + b
        <5>1. PICK x \in Nat : x = m
          OBVIOUS
        <5>2. x + M <= a /\ 1 <= b
          BY <4>2, <4>3, <5>1
        <5>3. (x + 1) + M <= a + b
          BY <5>2
        <5> QED BY <5>1, <5>3
      <4> QED BY <4>3, <4>4
    <3>3. ASSUME NEW i \in 0..m + 1 PROVE w[i] \in Seq(Int) /\ At(w[m + 1], 0, w[i])
      <4>1. CASE i = m + 1
        BY <3>1, <4>1, AtAll
      <4>2. CASE i \in 0..m
        <5>1. w[i] \in Seq(Int) /\ At(w[m], 0, w[i])
          BY <3>0, <4>2
        <5>2. At(w[m + 1], 0 + 0, w[i])
          BY <3>0, <3>1, <5>1, AtAt
        <5> QED BY <5>1, <5>2
      <4> QED BY <4>1, <4>2, Places
    <3>4. m + 1 \in 0..n /\ w[m + 1] \in Seq(Int)
      BY <3>1
    <3> QED BY <3>2, <3>3, <3>4
  <2> HIDE DEF S
  <2>3. 0..n \subseteq S
    BY <2>1, <2>2, UpTo
  <2> QED BY <2>3 DEF S
<1>12. PICK m \in Seq(Int) : m = w[n] /\ Len(m) \in Nat /\ n + M <= Len(m)
  BY <1>11
<1>13. ASSUME NEW i \in 0..n, i # n
       PROVE  /\ i + 1 \in 1..n /\ i + 1 \in 0..n
              /\ w[i] \in Seq(Int) /\ Len(w[i]) \in Nat /\ e(i + 1) \in Seq(Int)
              /\ At(m, Len(w[i]), e(i + 1)) /\ Len(w[i + 1]) = Len(w[i]) + Len(e(i + 1))
              /\ Len(w[i]) + Len(e(i + 1)) <= Len(m)
  <2>1. i + 1 \in 1..n /\ i + 1 \in 0..n /\ n \in 0..n
    BY <1>13
  <2>2. w[i] \in Seq(Int) /\ w[i + 1] \in Seq(Int) /\ e(i + 1) \in Seq(Int)
    BY <1>7, <1>11, <2>1
  <2>3. Len(w[i + 1]) = Len(w[i]) + Len(e(i + 1)) /\ At(w[i + 1], Len(w[i]), e(i + 1))
    BY <1>10, <1>13, <2>2
  <2>4. At(m, 0, w[i + 1])
    BY <1>11, <1>12, <2>1
  <2>5. PICK k \in Nat : k = Len(w[i])
    BY <2>2
  <2>6. At(m, 0 + k, e(i + 1))
    BY <2>2, <2>3, <2>4, <2>5, AtAt
  <2>7. 0 + k = k
    OBVIOUS
  <2>8. At(m, k, e(i + 1))
    BY <2>6, <2>7
  <2>9. k + Len(e(i + 1)) <= Len(m)
    BY <2>8 DEF At
  <2> QED BY <2>1, <2>2, <2>3, <2>5, <2>8, <2>9
<1>14. ASSUME NEW i \in 0..n, i # n
       PROVE  Len(q[i + 1][1]) \in Numbers /\ Len(q[i + 1][2]) \in Numbers
  <2>1. i + 1 \in 1..n /\ Len(w[i]) \in Nat /\ Len(w[i]) + Len(e(i + 1)) <= Len(m)
    BY <1>13, <1>14
  <2>2. PICK l \in Nat, k \in Nat : l = Len(q[i + 1][1]) /\ k = Len(q[i + 1][2])
    BY <1>6, <2>1, TextIsBytes
  <2>3. l <= Len(e(i + 1)) /\ k <= Len(e(i + 1)) /\ Len(e(i + 1)) \in Nat
    BY <1>8, <2>1, <2>2
  <2>a. PICK a \in Nat, b \in Nat, c \in Nat : a = Len(w[i]) /\ b = Len(e(i + 1)) /\ c = Len(m)
    BY <1>12, <2>1, <2>3
  <2>b. a + b <= c /\ l <= b /\ k <= b
    BY <2>1, <2>3, <2>a
  <2>c. l <= c /\ k <= c
    BY <2>b
  <2>4. l <= Len(m) /\ k <= Len(m)
    BY <2>a, <2>c
  <2> QED BY <1>3, <1>12, <2>2, <2>4, SmallerFits
<1>15. n \in Numbers
  <2>1. n <= Len(m)
    BY <1>12
  <2> QED BY <1>3, <1>12, <2>1, SmallerFits
<1>16. At(m, 0, field(n)) /\ Len(w[0]) = M
  <2>1. n \in 0..n /\ 0 \in 0..n
    OBVIOUS
  <2>2. At(w[n], 0, w[0])
    BY <1>11, <2>1
  <2>3. Len(field(n)) = M
    BY <1>1, FieldFacts
  <2> QED BY <1>9, <1>12, <2>2, <2>3
<1>17. number(m, 0) = n
  BY <1>15, <1>16, NumberAt
<1> DEFINE r == CHOOSE g : Resting(g, From(m, M), n)
<1>18. Resting(r, From(m, M), n)
  BY RestingExists
<1>19. files_from(From(m, M), n) = [i \in 1..n |-> snb_from_string(r[i - 1])]
  BY DEF files_from, Resting
<1> HIDE DEF r
<1>20. \A i \in 0..n : r[i] = IF i = 0 THEN From(m, M)
                              ELSE next_file(r[i - 1], snb_from_string(r[i - 1]))
  BY <1>18 DEF Resting
<1>21. ASSUME NEW i \in 0..n, i # n, r[i] = From(m, Len(w[i]))
       PROVE  snb_from_string(r[i]) = q[i + 1] /\ r[i + 1] = From(m, Len(w[i + 1]))
  <2>1. /\ i + 1 \in 1..n /\ i + 1 \in 0..n
        /\ w[i] \in Seq(Int) /\ Len(w[i]) \in Nat /\ e(i + 1) \in Seq(Int)
        /\ At(m, Len(w[i]), e(i + 1)) /\ Len(w[i + 1]) = Len(w[i]) + Len(e(i + 1))
        /\ Len(w[i]) + Len(e(i + 1)) <= Len(m)
    BY <1>13, <1>21
  <2>2. PICK o \in Nat, k \in Nat : o = Len(w[i]) /\ k = Len(e(i + 1)) /\ o + k <= Len(m)
    BY <1>8, <2>1
  <2>3. r[i] \in Seq(Int) /\ At(r[i], 0, e(i + 1))
    BY <1>21, <2>1, <2>2, AtFrom
  <2>4. PICK s \in Text, b \in Text : s = q[i + 1][1] /\ b = q[i + 1][2] /\ q[i + 1] = <<s, b>>
    BY <1>6, <2>1
  <2>5. Len(s) \in Numbers /\ Len(b) \in Numbers
    BY <1>14, <1>21, <2>4
  <2>6. e(i + 1) = snb_to_string(s, b)
    BY <2>4 DEF e
  <2>7. snb_from_string(r[i]) = <<s, b>>
    BY <2>3, <2>5, <2>6, FileFrom
  <2>8. r[i + 1] = next_file(r[i], <<s, b>>)
    <3>1. i + 1 # 0 /\ (i + 1) - 1 = i
      OBVIOUS
    <3> QED BY <1>20, <2>1, <2>7, <3>1
  <2>9. k = snb_size(s, b)
    BY <1>7, <2>1, <2>2, <2>4
  <2>10. r[i + 1] = From(r[i], k)
    BY <2>8, <2>9 DEF next_file, From
  <2>11. From(From(m, o), k) = From(m, o + k)
    BY <2>2, FromFrom
  <2> QED BY <1>21, <2>1, <2>2, <2>4, <2>7, <2>10, <2>11
<1>22. \A i \in 0..n : r[i] = From(m, Len(w[i]))
  <2> DEFINE S == {i \in 0..n : r[i] = From(m, Len(w[i]))}
  <2>1. 0 \in S
    BY <1>16, <1>20
  <2>2. ASSUME NEW i \in 0..n, i \in S, i # n PROVE i + 1 \in S
    BY <1>21, <2>2
  <2> HIDE DEF S
  <2>3. 0..n \subseteq S
    BY <2>1, <2>2, UpTo
  <2> QED BY <2>3 DEF S
<1>23. ASSUME NEW i \in 1..n PROVE snb_from_string(r[i - 1]) = q[i]
  <2>1. PICK j \in 0..n : j = i - 1 /\ j # n /\ j + 1 = i
    OBVIOUS
  <2> QED BY <1>21, <1>22, <2>1
<1>24. [i \in 1..n |-> snb_from_string(r[i - 1])] = [i \in 1..n |-> q[i]]
  BY <1>23
<1>25. q = [i \in 1..n |-> q[i]]
  BY <1>1
<1>26. nq_from_string(m) = files_from(From(m, M), n)
  BY <1>1, <1>17 DEF nq_from_string, From
<1> QED BY <1>3, <1>12, <1>19, <1>24, <1>25, <1>26
-----------------------------------------------------------------------------
(* What the other end decodes is what was encoded. *)

LEMMA OneOf ==
    ASSUME NEW S, NEW a \in One(S)
    PROVE  a[1] \in S /\ a = <<a[1]>>
BY DEF One

(* Every request is decoded to itself: names of digits, contents with     *)
(* zeros and negative numbers do not make its parts run into each other    *)
(* (gnl_socket_request_to_string and gnl_socket_request_from_string).      *)
THEOREM RequestsDecode ==
    ASSUME NEW m \in EncodableRequests, Fits(Len(request_to_string(m)))
    PROVE  /\ request_to_string(m) \in Seq(Int)
           /\ request_from_string(request_to_string(m), m.type) = m
<1>1. CASE m \in [type : {"OPEN"}, args : Text \X Numbers]
  <2>1. PICK s \in Text, n \in Numbers : m.type = "OPEN" /\ m.args = <<s, n>>
    BY <1>1
  <2>2. request_to_string(m) = sn_to_string(s, n)
    BY <2>1 DEF request_to_string
  <2>3. sn_to_string(s, n) \in Seq(Int) /\ sn_from_string(sn_to_string(s, n)) = <<s, n>>
    BY <2>2, NameNumberBack
  <2>4. m = [type |-> "OPEN", args |-> <<s, n>>]
    BY <1>1, <2>1
  <2> QED BY <2>1, <2>2, <2>3, <2>4 DEF request_from_string
<1>2. CASE m \in [type : {"WRITE"}, args : Numbers \X Text]
  <2>1. PICK n \in Numbers, s \in Text : m.type = "WRITE" /\ m.args = <<n, s>>
    BY <1>2
  <2>2. request_to_string(m) = nnb_to_string(n, s)
    BY <2>1 DEF request_to_string
  <2>3. nnb_to_string(n, s) \in Seq(Int) /\ nnb_from_string(nnb_to_string(n, s)) = <<n, s>>
    BY <2>2, NumberBytesBack
  <2>4. m = [type |-> "WRITE", args |-> <<n, s>>]
    BY <1>2, <2>1
  <2> QED BY <2>1, <2>2, <2>3, <2>4 DEF request_from_string
<1>3. CASE m \in [type : {"REMOVE"}, args : One(Text)]
  <2>1. m.type = "REMOVE" /\ m.args \in One(Text) /\ m = [type |-> m.type, args |-> m.args]
    BY <1>3
  <2>2. PICK s \in Text : m.args = <<s>> /\ m.args[1] = s
    BY <2>1, OneOf
  <2>3. request_to_string(m) = s_to_string(s)
    BY <2>1, <2>2 DEF request_to_string
  <2>4. s_to_string(s) \in Seq(Int) /\ s_from_string(s_to_string(s)) = s
    BY <2>3, NameBack
  <2> QED BY <2>1, <2>2, <2>3, <2>4 DEF request_from_string
<1>4. CASE m \in [type : {"READ", "READ_N", "LOCK", "UNLOCK", "CLOSE"}, args : One(Numbers)]
  <2>1. /\ m.type \notin {"OPEN", "WRITE", "REMOVE"} /\ m.args \in One(Numbers)
        /\ m = [type |-> m.type, args |-> m.args]
    BY <1>4
  <2>2. PICK n \in Numbers : m.args = <<n>> /\ m.args[1] = n
    BY <2>1, OneOf
  <2>3. request_to_string(m) = n_to_string(n)
    BY <2>1, <2>2 DEF request_to_string
  <2>4. n_to_string(n) \in Seq(Int) /\ n_from_string(n_to_string(n)) = n
    BY NumberBack
  <2> QED BY <2>1, <2>2, <2>3, <2>4 DEF request_from_string
<1> QED BY <1>1, <1>2, <1>3, <1>4 DEF EncodableRequests

(* Every response is decoded to itself, a list of any number of files and  *)
(* the answer without a message among them (gnl_socket_response_to_string  *)
(* and gnl_socket_response_from_string).                                   *)
THEOREM ResponsesDecode ==
    ASSUME NEW r \in EncodableResponses, Fits(Len(response_to_string(r)))
    PROVE  /\ response_to_string(r) \in Seq(Int)
           /\ response_from_string(response_to_string(r), r.type) = r
<1>1. CASE r \in [type : {"OK_FILE_LIST"}, args : One(Seq(Text \X Text))]
  <2>1. /\ r.type = "OK_FILE_LIST" /\ r.args \in One(Seq(Text \X Text))
        /\ r = [type |-> r.type, args |-> r.args]
    BY <1>1
  <2>2. PICK q \in Seq(Text \X Text) : r.args = <<q>> /\ r.args[1] = q
    BY <2>1, OneOf
  <2>3. response_to_string(r) = nq_to_string(q)
    BY <2>1, <2>2 DEF response_to_string
  <2>4. nq_to_string(q) \in Seq(Int) /\ nq_from_string(nq_to_string(q)) = q
    BY <2>3, ListBack
  <2> QED BY <2>1, <2>2, <2>3, <2>4 DEF response_from_string
<1>2. CASE r \in [type : {"OK_FILE"}, args : Text \X Text]
  <2>1. PICK s \in Text, b \in Text : r.type = "OK_FILE" /\ r.args = <<s, b>>
    BY <1>2
  <2>2. response_to_string(r) = snb_to_string(s, b)
    BY <2>1 DEF response_to_string
  <2>3. snb_to_string(s, b) \in Seq(Int) /\ snb_from_string(snb_to_string(s, b)) = <<s, b>>
    BY <2>2, FileBack
  <2>4. r = [type |-> "OK_FILE", args |-> <<s, b>>]
    BY <1>2, <2>1
  <2> QED BY <2>1, <2>2, <2>3, <2>4 DEF response_from_string
<1>3. CASE r \in [type : {"OK"}, args : {<<>>}]
  <2>1. r.type = "OK" /\ r = [type |-> "OK", args |-> <<>>]
    BY <1>3
  <2>2. response_to_string(r) = <<>>
    BY <2>1 DEF response_to_string
  <2>3. <<>> \in Seq(Int)
    OBVIOUS
  <2> QED BY <2>1, <2>2, <2>3 DEF response_from_string
<1>4. CASE r \in [type : {"OK_FD", "ERROR"}, args : One(Numbers)]
  <2>1. /\ r.type \notin {"OK_FILE_LIST", "OK_FILE", "OK"} /\ r.args \in One(Numbers)
        /\ r = [type |-> r.type, args |-> r.args]
    BY <1>4
  <2>2. PICK n \in Numbers : r.args = <<n>> /\ r.args[1] = n
    BY <2>1, OneOf
  <2>3. response_to_string(r) = n_to_string(n)
    BY <2>1, <2>2 DEF response_to_string
  <2>4. n_to_string(n) \in Seq(Int) /\ n_from_string(n_to_string(n)) = n
    BY NumberBack
  <2> QED BY <2>1, <2>2, <2>3, <2>4 DEF response_from_string
<1> QED BY <1>1, <1>2, <1>3, <1>4 DEF EncodableResponses
-----------------------------------------------------------------------------
(* Frames. *)

H == PROTOCOL_SIZE + 1

LEMMA HeaderSize == H \in Nat /\ 0 < H /\ PROTOCOL_SIZE \in Nat /\ MAX_DIGITS \in Nat
BY CodecAssumption DEF H, PROTOCOL_SIZE

(* F, sent to the end e, holds the message m: its header tells how much    *)
(* follows, and with that what follows decodes to m.                       *)
FrameOf(e, F, m) ==
    /\ F \in Seq(Int) /\ H <= Len(F) /\ head_len(Part(F, 0, H)) = Len(F) - H
    /\ Decoded(e, Part(F, 0, H), Part(F, H, Len(F) - H)) = m

LEMMA FrameFacts ==
    ASSUME NEW code \in 0..9, NEW m \in Seq(Int), Fits(Len(m))
    PROVE  LET F == frame(code, m)
           IN  /\ F \in Seq(Int) /\ H <= Len(F) /\ Len(F) - H = Len(m)
               /\ head_len(Part(F, 0, H)) = Len(m) /\ number(Part(F, 0, H), 0) = code
               /\ Part(F, H, Len(m)) = m
<1>1. PICK n \in Nat, M \in Nat : n = Len(m) /\ M = MAX_DIGITS
  BY CodecAssumption
<1>2. code \in Numbers /\ n \in Numbers
  <2>1. n <= n
    OBVIOUS
  <2> QED BY <1>1, <2>1, SmallerFits, CodeFits
<1>3. PICK f \in Seq(Int), g \in Seq(Int), u \in Seq(Int) :
          /\ f = field(code) /\ Len(f) = M /\ g = field(n) /\ Len(g) = M
          /\ u = <<NUL>> /\ Len(u) = 1
  <2>1. field(n) \in Seq(Int) /\ Len(field(n)) = M
    BY <1>1, FieldFacts
  <2>2. field(code) \in Seq(Int) /\ Len(field(code)) = M
    BY <1>1, FieldFacts
  <2> QED BY <2>1, <2>2, NulIsBytes
<1>4. LET h == f \o g \o u
      IN  /\ h \in Seq(Int) /\ Len(h) = Len(f) + Len(g) + Len(u)
          /\ At(h, 0, f) /\ At(h, Len(f), g) /\ At(h, Len(f) + Len(g), u)
  BY ThreeParts
<1>5. PICK h \in Seq(Int) : h = f \o g \o u /\ Len(h) = H /\ At(h, 0, f) /\ At(h, M, g)
  <2>1. Len(f) + Len(g) + Len(u) = H
    BY <1>1, <1>3 DEF H, PROTOCOL_SIZE
  <2> QED BY <1>3, <1>4, <2>1
<1>6. number(h, 0) = code /\ number(h, M) = n
  BY <1>2, <1>3, <1>5, NumberAt
<1>7. PICK F \in Seq(Int) : /\ F = h \o m /\ Len(F) = Len(h) + Len(m)
                            /\ At(F, 0, h) /\ At(F, Len(h), m)
  BY TwoParts
<1>8. F = frame(code, m)
  BY <1>1, <1>3, <1>5, <1>7 DEF frame
<1>9. H \in Nat
  BY HeaderSize
<1>10. Part(F, 0, H) = h /\ Part(F, H, Len(m)) = m
  BY <1>5, <1>7, <1>9, PartAt
<1>11. H <= Len(F) /\ Len(F) - H = Len(m)
  BY <1>1, <1>5, <1>7, <1>9
<1> QED BY <1>1, <1>6, <1>8, <1>10, <1>11 DEF head_len

RequestFrame(m)  == frame(type_code(RequestTypes, m.type), request_to_string(m))
ResponseFrame(r) == frame(type_code(ResponseTypes, r.type), response_to_string(r))

LEMMA RequestCode ==
    ASSUME NEW t \in {"OPEN", "READ", "READ_N", "WRITE", "LOCK", "UNLOCK", "CLOSE", "REMOVE"}
    PROVE  type_code(RequestTypes, t) \in 0..9 /\ RequestTypes[type_code(RequestTypes, t) + 1] = t
<1>1. DOMAIN RequestTypes = 1..8
  BY DEF RequestTypes
<1>2. \E i \in 1..8 : RequestTypes[i] = t
  BY DEF RequestTypes
<1>3. PICK i \in 1..8 : i = CHOOSE j \in 1..8 : RequestTypes[j] = t
  BY <1>2
<1>4. RequestTypes[i] = t
  BY <1>2, <1>3
<1>5. type_code(RequestTypes, t) = i - 1
  BY <1>1, <1>3 DEF type_code
<1>6. i - 1 \in 0..9 /\ (i - 1) + 1 = i
  OBVIOUS
<1> QED BY <1>4, <1>5, <1>6

LEMMA ResponseCode ==
    ASSUME NEW t \in {"OK_FILE_LIST", "OK_FILE", "OK_FD", "OK", "ERROR"}
    PROVE  type_code(ResponseTypes, t) \in 0..9 /\ ResponseTypes[type_code(ResponseTypes, t) + 1] = t
<1>1. DOMAIN ResponseTypes = 1..5
  BY DEF ResponseTypes
<1>2. \E i \in 1..5 : ResponseTypes[i] = t
  BY DEF ResponseTypes
<1>3. PICK i \in 1..5 : i = CHOOSE j \in 1..5 : ResponseTypes[j] = t
  BY <1>2
<1>4. ResponseTypes[i] = t
  BY <1>2, <1>3
<1>5. type_code(ResponseTypes, t) = i - 1
  BY <1>1, <1>3 DEF type_code
<1>6. i - 1 \in 0..9 /\ (i - 1) + 1 = i
  OBVIOUS
<1> QED BY <1>4, <1>5, <1>6

LEMMA RequestFrames ==
    ASSUME NEW m \in Requests
    PROVE  FrameOf("server", RequestFrame(m), m)
<1>1. m \in EncodableRequests /\ Fits(Len(request_to_string(m)))
  BY SocketAssumption
<1>2. m.type \in {"OPEN", "READ", "READ_N", "WRITE", "LOCK", "UNLOCK", "CLOSE", "REMOVE"}
  BY <1>1 DEF EncodableRequests
<1>3. PICK code \in 0..9 : code = type_code(RequestTypes, m.type) /\ RequestTypes[code + 1] = m.type
  BY <1>2, RequestCode
<1>4. PICK s \in Seq(Int) : s = request_to_string(m) /\ request_from_string(s, m.type) = m /\ Fits(Len(s))
  BY <1>1, RequestsDecode
<1>5. PICK F : F = frame(code, s)
  OBVIOUS
<1>6. /\ F \in Seq(Int) /\ H <= Len(F) /\ Len(F) - H = Len(s)
      /\ head_len(Part(F, 0, H)) = Len(s) /\ number(Part(F, 0, H), 0) = code
      /\ Part(F, H, Len(s)) = s
  BY <1>4, <1>5, FrameFacts
<1>7. head_type(RequestTypes, Part(F, 0, H)) = m.type
  BY <1>3, <1>6 DEF head_type
<1>8. Decoded("server", Part(F, 0, H), s) = m
  BY <1>4, <1>7 DEF Decoded
<1>9. F = RequestFrame(m)
  BY <1>3, <1>4, <1>5 DEF RequestFrame
<1> QED BY <1>6, <1>8, <1>9 DEF FrameOf

LEMMA ResponseFrames ==
    ASSUME NEW m \in Requests, NEW r \in Responses(m)
    PROVE  FrameOf("client", ResponseFrame(r), r)
<1>1. r \in EncodableResponses /\ Fits(Len(response_to_string(r)))
  BY SocketAssumption
<1>2. r.type \in {"OK_FILE_LIST", "OK_FILE", "OK_FD", "OK", "ERROR"}
  BY <1>1 DEF EncodableResponses
<1>3. PICK code \in 0..9 : code = type_code(ResponseTypes, r.type) /\ ResponseTypes[code + 1] = r.type
  BY <1>2, ResponseCode
<1>4. PICK s \in Seq(Int) : s = response_to_string(r) /\ response_from_string(s, r.type) = r /\ Fits(Len(s))
  BY <1>1, ResponsesDecode
<1>5. PICK F : F = frame(code, s)
  OBVIOUS
<1>6. /\ F \in Seq(Int) /\ H <= Len(F) /\ Len(F) - H = Len(s)
      /\ head_len(Part(F, 0, H)) = Len(s) /\ number(Part(F, 0, H), 0) = code
      /\ Part(F, H, Len(s)) = s
  BY <1>4, <1>5, FrameFacts
<1>7. head_type(ResponseTypes, Part(F, 0, H)) = r.type
  BY <1>3, <1>6 DEF head_type
<1>8. Decoded("client", Part(F, 0, H), s) = r
  <2>1. "client" # "server"
    OBVIOUS
  <2> QED BY <1>4, <1>7, <2>1 DEF Decoded
<1>9. F = ResponseFrame(r)
  BY <1>3, <1>4, <1>5 DEF ResponseFrame
<1> QED BY <1>6, <1>8, <1>9 DEF FrameOf
-----------------------------------------------------------------------------
(* The inductive invariant. *)

Answers == UNION {Responses(m) : m \in Requests}

Asked    == Len(sent["client"])
Heard    == Len(received["server"])
Answered == Len(sent["server"])
Returned == Len(received["client"])

Types ==
    /\ pc \in [Ends -> {"idle", "write", "head", "body", "call", "waiting", "abandoned", "closed"}]
    /\ in \in [Ends -> Seq(Int)] /\ inbox \in [Ends -> Seq(Int)]
    /\ out = [e \in Ends |-> out[e]] /\ head = [e \in Ends |-> head[e]]
    /\ reset \in [Ends -> BOOLEAN] /\ complaint \in BOOLEAN
    /\ sent = [e \in Ends |-> sent[e]] /\ received = [e \in Ends |-> received[e]]
    /\ sent["client"] \in Seq(Requests) /\ received["server"] \in Seq(Requests)
    /\ sent["server"] \in Seq(Answers) /\ received["client"] \in Seq(Answers)

(* Requests and answers alternate, as long as no call has failed. *)
Turns ==
    /\ Returned <= Answered /\ Answered <= Heard /\ Heard <= Asked
    /\ result = "ok" =>
          /\ Asked <= Returned + 1
          /\ pc["client"] = "idle" => Asked = Returned
          /\ pc["client"] \in {"write", "head", "body"} => Asked = Returned + 1
    /\ result # "ok" => Closed("server") /\ pc["client"] \in {"idle", "write", "closed"}
    /\ pc["server"] \in {"call", "waiting"} => Answered < Heard /\ Heard = Asked

(* How much of a frame the end e has taken from its socket. *)
Start(e)    == IF pc[e] = "body" THEN H ELSE 0
Consumed(e) == Start(e) + Len(in[e])

(* The end e is being sent F: what it has read and what is on its way are  *)
(* the next bytes of F, and the other end goes on behind them.             *)
Flow(e, F) ==
    /\ At(F, Start(e), in[e]) /\ At(F, Consumed(e), inbox[e]) /\ Consumed(e) < Len(F)
    /\ pc[e] = "body" => head[e] = Part(F, 0, H)
    /\ pc[e] = "head" => Len(in[e]) < H
    /\ pc[Other(e)] = "write" =>
          /\ out[Other(e)] = [frame |-> F, done |-> Consumed(e) + Len(inbox[e])]
          /\ Consumed(e) + Len(inbox[e]) < Len(F)
    /\ pc[Other(e)] \notin {"write", "closed"} => Consumed(e) + Len(inbox[e]) = Len(F)

Silent(e) == in[e] = <<>> /\ inbox[e] = <<>> /\ pc[e] # "body"

ServerReads ==
    IF Heard = Asked \/ Closed("server") THEN Silent("server")
    ELSE Flow("server", RequestFrame(sent["client"][Heard + 1]))

ClientReads ==
    IF Returned = Answered \/ Closed("client") THEN Silent("client")
    ELSE Flow("client", ResponseFrame(sent["server"][Returned + 1]))

Writers ==
    /\ \A e \in Ends : pc[e] \notin {"head", "body"} => in[e] = <<>>
    /\ pc["client"] = "write" /\ ~Closed("server") => Heard < Asked
    /\ pc["server"] = "write" /\ ~Closed("client") => Returned < Answered
    /\ pc["server"] = "write" => Returned < Asked

(* The server is in trouble only when the client left during an exchange.  *)
Troubles ==
    complaint \/ reset["server"] \/ pc["server"] = "abandoned" =>
        Closed("client") /\ Returned < Asked

SInv == Types /\ Turns /\ ServerReads /\ ClientReads /\ Writers /\ Troubles

LEMMA EndFacts ==
    /\ Ends = {"client", "server"} /\ "client" \in Ends /\ "server" \in Ends
    /\ Other("client") = "server" /\ Other("server") = "client" /\ "client" # "server"
BY DEF Ends, Other

LEMMA Changed ==
    ASSUME NEW f, f = [x \in Ends |-> f[x]], NEW e \in Ends, NEW v
    PROVE  LET g == [f EXCEPT ![e] = v]
           IN  g = [x \in Ends |-> g[x]] /\ g[e] = v /\ g[Other(e)] = f[Other(e)]
BY DEF Ends, Other

LEMMA Counts ==
    ASSUME Types
    PROVE  Asked \in Nat /\ Heard \in Nat /\ Answered \in Nat /\ Returned \in Nat
BY DEF Types, Asked, Heard, Answered, Returned

(* Nothing read and nothing on its way is the beginning of any frame.      *)
LEMMA FlowBegins ==
    ASSUME NEW F \in Seq(Int), 0 < Len(F)
    PROVE  At(F, 0, <<>>) /\ 0 + Len(<<>>) = 0 /\ Len(<<>>) = 0
BY DEF At

LEMMA FrameSize ==
    ASSUME NEW e, NEW F, NEW m, FrameOf(e, F, m)
    PROVE  F \in Seq(Int) /\ 0 < Len(F) /\ Len(F) \in Nat /\ H <= Len(F)
BY HeaderSize DEF FrameOf

LEMMA InitSInv == Init => SInv
<1> SUFFICES ASSUME Init PROVE SInv
  OBVIOUS
<1>0. <<>> \in Seq(Int) /\ <<>> \in Seq(Requests) /\ <<>> \in Seq(Answers) /\ Len(<<>>) = 0
  OBVIOUS
<1>1. pc["client"] = "idle" /\ pc["server"] = "idle"
  BY EndFacts DEF Init
<1>2. \A e \in Ends : in[e] = <<>> /\ inbox[e] = <<>> /\ sent[e] = <<>> /\ received[e] = <<>>
  BY DEF Init, Nothing
<1>3. Asked = 0 /\ Heard = 0 /\ Answered = 0 /\ Returned = 0
  BY <1>0, <1>2, EndFacts DEF Asked, Heard, Answered, Returned
<1>4. Types
  <2>1. /\ pc \in [Ends -> {"idle", "write", "head", "body", "call", "waiting", "abandoned", "closed"}]
        /\ reset \in [Ends -> BOOLEAN] /\ complaint \in BOOLEAN
    BY DEF Init
  <2>2. in \in [Ends -> Seq(Int)] /\ inbox \in [Ends -> Seq(Int)]
    BY <1>0 DEF Init, Nothing
  <2>3. /\ out = [e \in Ends |-> out[e]] /\ head = [e \in Ends |-> head[e]]
        /\ sent = [e \in Ends |-> sent[e]] /\ received = [e \in Ends |-> received[e]]
    BY DEF Init, Nothing
  <2> QED BY <1>0, <1>2, <2>1, <2>2, <2>3, EndFacts DEF Types
<1>5. Turns
  BY <1>1, <1>3 DEF Turns, Init
<1>6. ServerReads /\ ClientReads
  BY <1>1, <1>2, <1>3, EndFacts DEF ServerReads, ClientReads, Silent
<1>7. Writers
  BY <1>1, <1>2 DEF Writers
<1>8. Troubles
  <2>1. ~complaint /\ ~reset["server"]
    BY EndFacts DEF Init
  <2> QED BY <1>1, <2>1 DEF Troubles
<1> QED BY <1>4, <1>5, <1>6, <1>7, <1>8 DEF SInv

LEMMA AskSInv ==
    ASSUME SInv, NEW m \in Requests, Ask(m)
    PROVE  SInv'
<1> USE EndFacts
<1>1. Types /\ Turns /\ ServerReads /\ ClientReads /\ Writers /\ Troubles
  BY DEF SInv
<1>2. PICK F : F = RequestFrame(m)
  OBVIOUS
<1>3. /\ pc' = [pc EXCEPT !["client"] = "write"]
      /\ out' = [out EXCEPT !["client"] = [frame |-> F, done |-> 0]]
      /\ sent' = [sent EXCEPT !["client"] = Append(sent["client"], m)]
      /\ in' = in /\ head' = head /\ inbox' = inbox /\ reset' = reset /\ received' = received
      /\ complaint' = complaint /\ result' = result
  BY <1>2 DEF Ask, Writes, RequestFrame
<1>4. /\ pc'["client"] = "write" /\ pc'["server"] = pc["server"]
      /\ out'["client"] = [frame |-> F, done |-> 0]
      /\ sent'["client"] = Append(sent["client"], m) /\ sent'["server"] = sent["server"]
  BY <1>1, <1>3 DEF Types
<1>5. pc["client"] = "idle"
  BY DEF Ask
<1>6. F \in Seq(Int) /\ 0 < Len(F)
  BY <1>2, RequestFrames, FrameSize
<1>7. /\ Asked \in Nat /\ Heard \in Nat /\ Answered \in Nat /\ Returned \in Nat
      /\ Asked' = Asked + 1 /\ Heard' = Heard /\ Answered' = Answered /\ Returned' = Returned
  BY <1>1, <1>3, <1>4, Counts DEF Types, Asked, Heard, Answered, Returned
<1>8. Types'
  <2>1. /\ pc' \in [Ends -> {"idle", "write", "head", "body", "call", "waiting", "abandoned", "closed"}]
        /\ out' = [e \in Ends |-> out'[e]] /\ sent' = [e \in Ends |-> sent'[e]]
    BY <1>1, <1>3 DEF Types
  <2>2. Append(sent["client"], m) \in Seq(Requests)
    BY <1>1 DEF Types
  <2> QED BY <1>1, <1>3, <1>4, <2>1, <2>2 DEF Types
<1>9. Turns'
  BY <1>1, <1>3, <1>4, <1>5, <1>7 DEF Turns, Closed
<1>10. ClientReads'
  <2>1. CASE Returned = Answered
    BY <1>1, <1>3, <1>4, <1>5, <1>7, <2>1 DEF ClientReads, Silent
  <2>2. CASE Returned # Answered
    <3>1. Closed("server")
      BY <1>1, <1>5, <1>7, <2>2 DEF Turns
    <3>2. Flow("client", ResponseFrame(sent["server"][Returned + 1]))
      BY <1>1, <1>5, <2>2 DEF ClientReads, Closed
    <3>3. in["client"] = <<>>
      BY <1>1, <1>5 DEF Writers
    <3>4. Flow("client", ResponseFrame(sent["server"][Returned + 1]))'
      BY <1>3, <1>4, <1>5, <1>7, <3>1, <3>2, <3>3 DEF Flow, Start, Consumed, Closed
    <3> QED BY <1>4, <1>7, <2>2, <3>4 DEF ClientReads, Closed
  <2> QED BY <2>1, <2>2
<1>11. ServerReads'
  <2>1. CASE Closed("server")
    BY <1>1, <1>3, <1>4, <2>1 DEF ServerReads, Silent, Closed
  <2>2. CASE ~Closed("server")
    <3>1. result = "ok" /\ Heard = Asked
      BY <1>1, <1>5, <1>7, <2>2 DEF Turns
    <3>2. in["server"] = <<>> /\ inbox["server"] = <<>> /\ pc["server"] # "body"
      BY <1>1, <3>1 DEF ServerReads, Silent
    <3>3. sent'["client"][Heard' + 1] = m
      BY <1>1, <1>4, <1>7, <3>1 DEF Types, Asked
    <3>4. Flow("server", F)'
      BY <1>3, <1>4, <1>6, <3>2, FlowBegins, HeaderSize DEF Flow, Start, Consumed
    <3>5. Heard' # Asked' /\ ~Closed("server")'
      BY <1>4, <1>7, <2>2, <3>1 DEF Closed
    <3> QED BY <1>2, <3>3, <3>4, <3>5 DEF ServerReads
  <2> QED BY <2>1, <2>2
<1>12. Writers'
  <2>1. \A e \in Ends : pc'[e] \notin {"head", "body"} => in'[e] = <<>>
    BY <1>1, <1>3, <1>4, <1>5 DEF Writers
  <2>2. pc["server"] = "write" /\ ~Closed("client") => Returned < Answered
    BY <1>1 DEF Writers
  <2>3. ~Closed("server") => Heard < Asked + 1
    BY <1>1, <1>7 DEF Turns
  <2>4. pc["server"] = "write" => Returned < Asked + 1
    BY <1>1, <1>7 DEF Turns
  <2> QED BY <1>4, <1>5, <1>7, <2>1, <2>2, <2>3, <2>4 DEF Writers, Closed
<1>13. Troubles'
  BY <1>1, <1>3, <1>4, <1>5, <1>7 DEF Troubles, Closed
<1> QED BY <1>8, <1>9, <1>10, <1>11, <1>12, <1>13 DEF SInv

LEMMA StutterSInv ==
    ASSUME SInv, UNCHANGED vars
    PROVE  SInv'
<1>1. /\ pc' = pc /\ out' = out /\ in' = in /\ head' = head /\ inbox' = inbox /\ reset' = reset
      /\ sent' = sent /\ received' = received /\ complaint' = complaint /\ result' = result
  BY DEF vars
<1>2. Types /\ Turns /\ ServerReads /\ ClientReads /\ Writers /\ Troubles
  BY DEF SInv
<1>3. Types'
  BY <1>1, <1>2 DEF Types
<1>4. /\ Asked' = Asked /\ Heard' = Heard /\ Answered' = Answered /\ Returned' = Returned
      /\ \A e : Closed(e)' <=> Closed(e)
  BY <1>1 DEF Asked, Heard, Answered, Returned, Closed
<1>5. Turns'
  BY <1>1, <1>2, <1>4 DEF Turns
<1>6. ServerReads'
  BY <1>1, <1>2, <1>4 DEF ServerReads, Silent, Flow, Start, Consumed
<1>7. ClientReads'
  BY <1>1, <1>2, <1>4 DEF ClientReads, Silent, Flow, Start, Consumed
<1>8. Writers' /\ Troubles'
  BY <1>1, <1>2, <1>4 DEF Writers, Troubles
<1> QED BY <1>3, <1>5, <1>6, <1>7, <1>8 DEF SInv

LEMMA StopsSInv ==
    ASSUME SInv, NEW e \in Ends, Stops(e), UNCHANGED <<sent, received, complaint, result>>
    PROVE  SInv'
<1> USE EndFacts
<1>1. Types /\ Turns /\ ServerReads /\ ClientReads /\ Writers /\ Troubles
  BY DEF SInv
<1>2. /\ sent' = sent /\ received' = received /\ complaint' = complaint /\ result' = result
      /\ pc' = [pc EXCEPT ![e] = "closed"]
      /\ out' = [out EXCEPT ![e] = NULL] /\ in' = [in EXCEPT ![e] = <<>>]
      /\ head' = [head EXCEPT ![e] = NULL] /\ inbox' = [inbox EXCEPT ![e] = <<>>]
      /\ reset' = [reset EXCEPT ![Other(e)] = inbox[e] # <<>>]
  BY DEF Stops
<1>3. PICK o \in Ends : o = Other(e) /\ o # e
  OBVIOUS
<1>4. /\ pc'[e] = "closed" /\ in'[e] = <<>> /\ inbox'[e] = <<>>
      /\ pc'[o] = pc[o] /\ in'[o] = in[o] /\ inbox'[o] = inbox[o] /\ head'[o] = head[o]
      /\ reset'[e] = reset[e]
  BY <1>1, <1>2, <1>3 DEF Types
<1>r. reset'[o] = (inbox[e] # <<>>)
  BY <1>1, <1>2, <1>3 DEF Types
<1>5. /\ Asked \in Nat /\ Heard \in Nat /\ Answered \in Nat /\ Returned \in Nat
      /\ Asked' = Asked /\ Heard' = Heard /\ Answered' = Answered /\ Returned' = Returned
  BY <1>1, <1>2, Counts DEF Types, Asked, Heard, Answered, Returned
<1>6. Types'
  <2>0. <<>> \in Seq(Int) /\ (inbox[e] # <<>>) \in BOOLEAN
    OBVIOUS
  <2>1. /\ pc' \in [Ends -> {"idle", "write", "head", "body", "call", "waiting", "abandoned", "closed"}]
        /\ out' = [x \in Ends |-> out'[x]] /\ head' = [x \in Ends |-> head'[x]]
    BY <1>1, <1>2 DEF Types
  <2>2. in' \in [Ends -> Seq(Int)] /\ inbox' \in [Ends -> Seq(Int)]
    BY <1>1, <1>2, <2>0 DEF Types
  <2>3. reset' \in [Ends -> BOOLEAN]
    BY <1>1, <1>2, <2>0 DEF Types
  <2> QED BY <1>1, <1>2, <2>1, <2>2, <2>3 DEF Types
<1>7. Turns'
  BY <1>1, <1>2, <1>3, <1>4, <1>5 DEF Turns, Closed
<1>8. Silent(e)' /\ Closed(e)' /\ (Closed(o)' <=> Closed(o))
  BY <1>4 DEF Silent, Closed
<1>9. ASSUME NEW F, Flow(o, F) PROVE Flow(o, F)'
  <2>1. Other(o) = e
    BY <1>3
  <2> QED BY <1>4, <1>9, <2>1 DEF Flow, Start, Consumed
<1>10. Silent(o) => Silent(o)'
  BY <1>4 DEF Silent
<1>11. ServerReads'
  <2>1. CASE e = "server"
    BY <1>8, <2>1 DEF ServerReads
  <2>2. CASE o = "server"
    BY <1>1, <1>2, <1>5, <1>8, <1>9, <1>10, <2>2 DEF ServerReads
  <2> QED BY <1>3, <2>1, <2>2
<1>12. ClientReads'
  <2>1. CASE e = "client"
    BY <1>8, <2>1 DEF ClientReads
  <2>2. CASE o = "client"
    BY <1>1, <1>2, <1>5, <1>8, <1>9, <1>10, <2>2 DEF ClientReads
  <2> QED BY <1>3, <2>1, <2>2
<1>13. Writers'
  BY <1>1, <1>3, <1>4, <1>5 DEF Writers, Closed
<1>14. Troubles'
  <2>1. CASE e = "client"
    <3>1. inbox["client"] # <<>> => Returned < Asked
      <4>1. inbox["client"] # <<>> => Returned # Answered
        BY <1>1 DEF ClientReads, Silent
      <4> QED BY <1>1, <1>5, <4>1 DEF Turns
    <3>2. /\ reset'["server"] => inbox["client"] # <<>>
          /\ pc'["server"] = pc["server"] /\ Closed("client")' /\ complaint' = complaint
      BY <1>2, <1>3, <1>4, <1>r, <1>8, <2>1
    <3>3. complaint \/ pc["server"] = "abandoned" => Returned < Asked
      BY <1>1 DEF Troubles
    <3> QED BY <1>5, <3>1, <3>2, <3>3 DEF Troubles
  <2>2. CASE e = "server"
    BY <1>1, <1>2, <1>3, <1>4, <1>5, <1>8, <2>2 DEF Troubles, Closed
  <2> QED BY <2>1, <2>2
<1> QED BY <1>6, <1>7, <1>11, <1>12, <1>13, <1>14 DEF SInv

LEMMA DispatchSInv ==
    ASSUME SInv, Dispatch
    PROVE  SInv'
<1> USE EndFacts
<1>1. Types /\ Turns /\ ServerReads /\ ClientReads /\ Writers /\ Troubles
  BY DEF SInv
<1>2. /\ pc["server"] = "idle" /\ pc' = [pc EXCEPT !["server"] = "head"]
      /\ out' = out /\ in' = in /\ head' = head /\ inbox' = inbox /\ reset' = reset
      /\ sent' = sent /\ received' = received /\ complaint' = complaint /\ result' = result
  BY DEF Dispatch
<1>3. pc'["server"] = "head" /\ pc'["client"] = pc["client"]
  BY <1>1, <1>2 DEF Types
<1>4. /\ Asked' = Asked /\ Heard' = Heard /\ Answered' = Answered /\ Returned' = Returned
      /\ \A e \in Ends : Closed(e)' <=> Closed(e)
  BY <1>2, <1>3 DEF Asked, Heard, Answered, Returned, Closed
<1>5. Types'
  <2>1. pc' \in [Ends -> {"idle", "write", "head", "body", "call", "waiting", "abandoned", "closed"}]
    BY <1>1, <1>2 DEF Types
  <2> QED BY <1>1, <1>2, <2>1 DEF Types
<1>6. Turns'
  BY <1>1, <1>2, <1>3, <1>4 DEF Turns
<1>7. in["server"] = <<>>
  BY <1>1, <1>2 DEF Writers
<1>8. ASSUME NEW F, Flow("server", F) PROVE Flow("server", F)'
  BY <1>2, <1>3, <1>7, <1>8, HeaderSize DEF Flow, Start, Consumed
<1>9. ASSUME NEW F, Flow("client", F) PROVE Flow("client", F)'
  BY <1>2, <1>3, <1>9 DEF Flow, Start, Consumed
<1>10. (Silent("server") => Silent("server")') /\ (Silent("client") => Silent("client")')
  BY <1>2, <1>3 DEF Silent
<1>11. ServerReads'
  BY <1>1, <1>2, <1>4, <1>8, <1>10 DEF ServerReads
<1>12. ClientReads'
  BY <1>1, <1>2, <1>4, <1>9, <1>10 DEF ClientReads
<1>13. Writers'
  BY <1>1, <1>2, <1>3, <1>4, <1>7 DEF Writers
<1>14. Troubles'
  BY <1>1, <1>2, <1>3, <1>4 DEF Troubles
<1> QED BY <1>5, <1>6, <1>11, <1>12, <1>13, <1>14 DEF SInv

(* The request goes into the waiting list and comes back from it. *)
LEMMA WaitingSInv ==
    ASSUME SInv, Subscribe \/ Broadcast
    PROVE  SInv'
<1> USE EndFacts
<1>1. Types /\ Turns /\ ServerReads /\ ClientReads /\ Writers /\ Troubles
  BY DEF SInv
<1>2. PICK to \in {"call", "waiting"} :
          pc["server"] \in {"call", "waiting"} /\ pc' = [pc EXCEPT !["server"] = to]
  BY DEF Subscribe, Broadcast
<1>3. /\ out' = out /\ in' = in /\ head' = head /\ inbox' = inbox /\ reset' = reset
      /\ sent' = sent /\ received' = received /\ complaint' = complaint /\ result' = result
  BY DEF Subscribe, Broadcast
<1>4. pc'["server"] = to /\ pc'["client"] = pc["client"]
  BY <1>1, <1>2 DEF Types
<1>5. /\ Asked' = Asked /\ Heard' = Heard /\ Answered' = Answered /\ Returned' = Returned
      /\ \A e \in Ends : Closed(e)' <=> Closed(e)
  BY <1>2, <1>3, <1>4 DEF Asked, Heard, Answered, Returned, Closed
<1>6. Types'
  <2>1. pc' \in [Ends -> {"idle", "write", "head", "body", "call", "waiting", "abandoned", "closed"}]
    BY <1>1, <1>2 DEF Types
  <2> QED BY <1>1, <1>3, <2>1 DEF Types
<1>7. Turns'
  BY <1>1, <1>2, <1>3, <1>4, <1>5 DEF Turns
<1>8. ASSUME NEW e \in Ends, NEW F, Flow(e, F) PROVE Flow(e, F)'
  BY <1>2, <1>3, <1>4, <1>8 DEF Flow, Start, Consumed
<1>9. (Silent("server") => Silent("server")') /\ (Silent("client") => Silent("client")')
  BY <1>3, <1>4 DEF Silent
<1>10. ServerReads'
  BY <1>1, <1>3, <1>5, <1>8, <1>9 DEF ServerReads
<1>11. ClientReads'
  BY <1>1, <1>3, <1>5, <1>8, <1>9 DEF ClientReads
<1>12. Writers'
  BY <1>1, <1>2, <1>3, <1>4, <1>5 DEF Writers
<1>13. Troubles'
  BY <1>1, <1>3, <1>4, <1>5 DEF Troubles
<1> QED BY <1>6, <1>7, <1>10, <1>11, <1>12, <1>13 DEF SInv

(* The client is gone: whatever the server does with its answer does not   *)
(* reach anybody.                                                          *)
LEMMA ServerWriteFailsSInv ==
    ASSUME SInv, ServerWriteFails
    PROVE  SInv'
<1> USE EndFacts
<1>1. Types /\ Turns /\ ServerReads /\ ClientReads /\ Writers /\ Troubles
  BY DEF SInv
<1>2. /\ pc["server"] = "write" /\ Closed("client")
      /\ in' = in /\ head' = head /\ inbox' = inbox /\ reset' = reset
      /\ sent' = sent /\ received' = received /\ result' = result
  BY DEF ServerWriteFails
<1>3. PICK p \in {"idle", "write", "abandoned"} :
          pc' = [pc EXCEPT !["server"] = p] /\ \E v : out' = [out EXCEPT !["server"] = v]
  BY DEF ServerWriteFails, AfterWrite, Complain, Writes
<1>4. complaint' \in BOOLEAN
  BY <1>1 DEF ServerWriteFails, AfterWrite, Complain, Writes, Types
<1>5. /\ pc'["server"] = p /\ pc'["client"] = "closed" /\ out'["client"] = out["client"]
      /\ Closed("client")' /\ ~Closed("server") /\ ~Closed("server")'
  BY <1>1, <1>2, <1>3 DEF Types, Closed
<1>6. Asked' = Asked /\ Heard' = Heard /\ Answered' = Answered /\ Returned' = Returned
  BY <1>2 DEF Asked, Heard, Answered, Returned
<1>7. Types'
  <2>1. /\ pc' \in [Ends -> {"idle", "write", "head", "body", "call", "waiting", "abandoned", "closed"}]
        /\ out' = [x \in Ends |-> out'[x]]
    BY <1>1, <1>3 DEF Types
  <2> QED BY <1>1, <1>2, <1>4, <2>1 DEF Types
<1>8. Turns'
  BY <1>1, <1>2, <1>5, <1>6 DEF Turns, Closed
<1>9. in["server"] = <<>> /\ pc["client"] = "closed"
  BY <1>1, <1>2 DEF Writers, Closed
<1>10. ServerReads'
  <2>1. ASSUME NEW F, Flow("server", F) PROVE Flow("server", F)'
    BY <1>2, <1>5, <1>9, <2>1 DEF Flow, Start, Consumed
  <2>2. Silent("server") => Silent("server")'
    BY <1>2, <1>5 DEF Silent
  <2> QED BY <1>1, <1>2, <1>5, <1>6, <2>1, <2>2 DEF ServerReads
<1>11. ClientReads'
  BY <1>1, <1>2, <1>5 DEF ClientReads, Silent, Closed
<1>12. Writers'
  <2>1. in["client"] = <<>> /\ Returned < Asked
    BY <1>1, <1>2, <1>9 DEF Writers
  <2>2. \A x \in Ends : in'[x] = <<>>
    BY <1>2, <1>9, <2>1
  <2> QED BY <1>5, <1>6, <2>1, <2>2 DEF Writers, Closed
<1>13. Troubles'
  BY <1>1, <1>2, <1>5, <1>6 DEF Troubles, Writers
<1> QED BY <1>7, <1>8, <1>10, <1>11, <1>12, <1>13 DEF SInv

LEMMA AnswerSInv ==
    ASSUME SInv, NEW m \in Requests, NEW r \in Responses(m), Answer(r)
    PROVE  SInv'
<1> USE EndFacts
<1>1. Types /\ Turns /\ ServerReads /\ ClientReads /\ Writers /\ Troubles
  BY DEF SInv
<1>2. PICK F : F = ResponseFrame(r)
  OBVIOUS
<1>3. /\ pc' = [pc EXCEPT !["server"] = "write"]
      /\ out' = [out EXCEPT !["server"] = [frame |-> F, done |-> 0]]
      /\ sent' = [sent EXCEPT !["server"] = Append(sent["server"], r)]
      /\ in' = in /\ head' = head /\ inbox' = inbox /\ reset' = reset /\ received' = received
      /\ complaint' = complaint /\ result' = result
  BY <1>2 DEF Answer, Writes, ResponseFrame
<1>4. /\ pc'["server"] = "write" /\ pc'["client"] = pc["client"]
      /\ out'["server"] = [frame |-> F, done |-> 0]
      /\ sent'["server"] = Append(sent["server"], r) /\ sent'["client"] = sent["client"]
  BY <1>1, <1>3 DEF Types
<1>5. pc["server"] = "call"
  BY DEF Answer
<1>6. F \in Seq(Int) /\ 0 < Len(F)
  BY <1>2, ResponseFrames, FrameSize
<1>7. /\ Asked \in Nat /\ Heard \in Nat /\ Answered \in Nat /\ Returned \in Nat
      /\ Asked' = Asked /\ Heard' = Heard /\ Answered' = Answered + 1 /\ Returned' = Returned
  BY <1>1, <1>3, <1>4, Counts DEF Types, Asked, Heard, Answered, Returned
<1>8. result = "ok" /\ Heard = Asked /\ Answered = Returned /\ Asked = Returned + 1
  <2>1. result = "ok" /\ Answered < Heard /\ Heard = Asked /\ Asked <= Returned + 1
    BY <1>1, <1>5 DEF Turns, Closed
  <2>2. Returned <= Answered
    BY <1>1 DEF Turns
  <2> QED BY <1>7, <2>1, <2>2
<1>9. Types'
  <2>1. /\ pc' \in [Ends -> {"idle", "write", "head", "body", "call", "waiting", "abandoned", "closed"}]
        /\ out' = [x \in Ends |-> out'[x]] /\ sent' = [x \in Ends |-> sent'[x]]
    BY <1>1, <1>3 DEF Types
  <2>2. r \in Answers
    BY DEF Answers
  <2>3. Append(sent["server"], r) \in Seq(Answers)
    BY <1>1, <2>2 DEF Types
  <2> QED BY <1>1, <1>3, <1>4, <2>1, <2>3 DEF Types
<1>10. Turns'
  BY <1>1, <1>3, <1>4, <1>7, <1>8 DEF Turns, Closed
<1>11. ServerReads'
  BY <1>1, <1>3, <1>4, <1>7, <1>8 DEF ServerReads, Silent
<1>12. ClientReads'
  <2>1. in["client"] = <<>> /\ inbox["client"] = <<>> /\ pc["client"] # "body"
    BY <1>1, <1>8 DEF ClientReads, Silent
  <2>2. sent'["server"][Returned' + 1] = r
    BY <1>1, <1>4, <1>7, <1>8 DEF Types, Answered
  <2>3. Flow("client", F)'
    BY <1>3, <1>4, <1>6, <2>1, FlowBegins, HeaderSize DEF Flow, Start, Consumed
  <2>4. Closed("client")' => Silent("client")'
    BY <1>3, <1>4, <2>1 DEF Silent
  <2>5. Returned' # Answered'
    BY <1>7, <1>8
  <2> QED BY <1>2, <2>2, <2>3, <2>4, <2>5 DEF ClientReads
<1>13. Writers'
  <2>1. \A x \in Ends : pc'[x] \notin {"head", "body"} => in'[x] = <<>>
    BY <1>1, <1>3, <1>4, <1>5 DEF Writers
  <2>2. pc["client"] = "write" => Heard < Asked
    BY <1>1, <1>5 DEF Writers, Closed
  <2> QED BY <1>4, <1>7, <1>8, <2>1, <2>2 DEF Writers, Closed
<1>14. Troubles'
  BY <1>1, <1>3, <1>4, <1>7 DEF Troubles, Closed
<1> QED BY <1>9, <1>10, <1>11, <1>12, <1>13, <1>14 DEF SInv

LEMMA ReadEndsClientSInv ==
    ASSUME SInv, ReadEnds("client")
    PROVE  SInv'
<1> USE EndFacts
<1>1. Types /\ Turns /\ ServerReads /\ ClientReads /\ Writers /\ Troubles
  BY DEF SInv
<1>2. /\ pc["client"] \in {"head", "body"} /\ inbox["client"] = <<>> /\ Closed("server")
      /\ reset' = [reset EXCEPT !["client"] = FALSE]
      /\ in' = [in EXCEPT !["client"] = <<>>] /\ head' = [head EXCEPT !["client"] = NULL]
      /\ pc' = [pc EXCEPT !["client"] = "idle"]
      /\ inbox' = inbox /\ sent' = sent /\ received' = received
      /\ out' = out /\ complaint' = complaint
  BY DEF ReadEnds
<1>3. result' # "ok"
  BY DEF ReadEnds, read_error
<1>4. /\ pc'["client"] = "idle" /\ pc'["server"] = "closed"
      /\ in'["client"] = <<>> /\ in'["server"] = in["server"] /\ reset'["server"] = reset["server"]
  BY <1>1, <1>2 DEF Types, Closed
<1>5. Asked' = Asked /\ Heard' = Heard /\ Answered' = Answered /\ Returned' = Returned
  BY <1>2 DEF Asked, Heard, Answered, Returned
<1>6. Types'
  <2>0. <<>> \in Seq(Int)
    OBVIOUS
  <2>1. /\ pc' \in [Ends -> {"idle", "write", "head", "body", "call", "waiting", "abandoned", "closed"}]
        /\ head' = [x \in Ends |-> head'[x]] /\ reset' \in [Ends -> BOOLEAN]
    BY <1>1, <1>2 DEF Types
  <2>2. in' \in [Ends -> Seq(Int)]
    BY <1>1, <1>2, <2>0 DEF Types
  <2> QED BY <1>1, <1>2, <2>1, <2>2 DEF Types
<1>7. Turns'
  BY <1>1, <1>3, <1>4, <1>5 DEF Turns, Closed
<1>8. ServerReads'
  BY <1>1, <1>2, <1>4 DEF ServerReads, Silent, Closed
<1>9. ClientReads'
  <2>1. CASE Returned = Answered
    BY <1>2, <1>4, <1>5, <2>1 DEF ClientReads, Silent
  <2>2. CASE Returned # Answered
    <3>1. PICK F : F = ResponseFrame(sent["server"][Returned + 1])
      OBVIOUS
    <3>2. sent["server"][Returned + 1] \in Answers
      <4>1. Returned + 1 \in 1..Answered
        BY <1>1, <2>2, Counts DEF Turns
      <4> QED BY <1>1, <4>1 DEF Types, Answered
    <3>3. PICK m \in Requests : sent["server"][Returned + 1] \in Responses(m)
      BY <3>2 DEF Answers
    <3>4. F \in Seq(Int) /\ 0 < Len(F)
      BY <3>1, <3>3, ResponseFrames, FrameSize
    <3>5. Flow("client", F)'
      BY <1>2, <1>4, <3>4, FlowBegins DEF Flow, Start, Consumed
    <3> QED BY <1>2, <1>4, <1>5, <2>2, <3>1, <3>5 DEF ClientReads, Closed
  <2> QED BY <2>1, <2>2
<1>10. Writers'
  BY <1>1, <1>2, <1>4, <1>5 DEF Writers, Closed
<1>11. Troubles'
  BY <1>1, <1>2, <1>4, <1>5 DEF Troubles, Closed
<1> QED BY <1>6, <1>7, <1>8, <1>9, <1>10, <1>11 DEF SInv

LEMMA ReadEndsServerSInv ==
    ASSUME SInv, ReadEnds("server")
    PROVE  SInv'
<1> USE EndFacts
<1>1. Types /\ Turns /\ ServerReads /\ ClientReads /\ Writers /\ Troubles
  BY DEF SInv
<1>2. /\ pc["server"] \in {"head", "body"} /\ inbox["server"] = <<>> /\ Closed("client")
      /\ reset' = [reset EXCEPT !["server"] = FALSE]
      /\ in' = [in EXCEPT !["server"] = <<>>] /\ head' = [head EXCEPT !["server"] = NULL]
      /\ inbox' = inbox /\ sent' = sent /\ received' = received /\ result' = result
  BY DEF ReadEnds
<1>3. PICK p \in {"closed", "write"} :
          /\ pc' = [pc EXCEPT !["server"] = p] /\ out' = [x \in Ends |-> out'[x]]
          /\ complaint' \in BOOLEAN /\ (complaint' => complaint \/ p = "write")
          /\ p = "write" => read_error("server") # "EPIPE"
  <2>1. CASE read_error("server") = "EPIPE"
    BY <1>1, <2>1 DEF ReadEnds, Types
  <2>2. CASE read_error("server") # "EPIPE"
    <3>1. Complain(1)
      BY <2>2 DEF ReadEnds
    <3>2. PICK v : out' = [out EXCEPT !["server"] = v]
      BY <3>1 DEF Complain, Writes
    <3>3. out' = [x \in Ends |-> out'[x]]
      BY <1>1, <3>2 DEF Types
    <3> QED BY <2>2, <3>1, <3>3 DEF Complain, Writes
  <2> QED BY <2>1, <2>2
<1>4. /\ pc'["server"] = p /\ pc'["client"] = "closed" /\ Closed("client")'
      /\ in'["server"] = <<>> /\ in'["client"] = in["client"] /\ ~reset'["server"]
  BY <1>1, <1>2, <1>3 DEF Types, Closed
<1>5. /\ Asked' = Asked /\ Heard' = Heard /\ Answered' = Answered /\ Returned' = Returned
      /\ Asked \in Nat /\ Heard \in Nat /\ Answered \in Nat /\ Returned \in Nat
  BY <1>1, <1>2, Counts DEF Asked, Heard, Answered, Returned
<1>6. Types'
  <2>0. <<>> \in Seq(Int)
    OBVIOUS
  <2>1. /\ pc' \in [Ends -> {"idle", "write", "head", "body", "call", "waiting", "abandoned", "closed"}]
        /\ head' = [x \in Ends |-> head'[x]] /\ reset' \in [Ends -> BOOLEAN]
    BY <1>1, <1>2, <1>3 DEF Types
  <2>2. in' \in [Ends -> Seq(Int)]
    BY <1>1, <1>2, <2>0 DEF Types
  <2> QED BY <1>1, <1>2, <1>3, <2>1, <2>2 DEF Types
<1>7. p = "write" => Returned < Asked
  <2>1. SUFFICES ASSUME p = "write" PROVE Returned < Asked
    OBVIOUS
  <2>2. read_error("server") # "EPIPE"
    BY <1>3, <2>1
  <2>3. reset["server"] \/ pc["server"] = "body" \/ in["server"] # <<>>
    BY <1>2, <2>2 DEF read_error
  <2>4. CASE reset["server"]
    BY <1>1, <2>4 DEF Troubles
  <2>5. CASE pc["server"] = "body" \/ in["server"] # <<>>
    <3>1. Heard # Asked
      BY <1>1, <2>5 DEF ServerReads, Silent
    <3>2. Returned <= Answered /\ Answered <= Heard /\ Heard <= Asked
      BY <1>1 DEF Turns
    <3> QED BY <1>5, <3>1, <3>2
  <2> QED BY <2>3, <2>4, <2>5
<1>8. Turns'
  BY <1>1, <1>2, <1>4, <1>5 DEF Turns, Closed
<1>9. ServerReads'
  <2>1. CASE Heard = Asked \/ p = "closed"
    BY <1>2, <1>4, <1>5, <2>1 DEF ServerReads, Silent, Closed
  <2>2. CASE Heard # Asked /\ p = "write"
    <3>1. PICK F : F = RequestFrame(sent["client"][Heard + 1])
      OBVIOUS
    <3>2. sent["client"][Heard + 1] \in Requests
      <4>1. Heard + 1 \in 1..Asked
        BY <1>1, <1>5, <2>2 DEF Turns
      <4> QED BY <1>1, <4>1 DEF Types, Asked
    <3>4. F \in Seq(Int) /\ 0 < Len(F)
      BY <3>1, <3>2, RequestFrames, FrameSize
    <3>5. Flow("server", F)'
      BY <1>2, <1>4, <2>2, <3>4, FlowBegins DEF Flow, Start, Consumed
    <3> QED BY <1>2, <1>4, <1>5, <2>2, <3>1, <3>5 DEF ServerReads, Closed
  <2> QED BY <2>1, <2>2
<1>10. ClientReads'
  BY <1>1, <1>2, <1>4 DEF ClientReads, Silent, Closed
<1>11. Writers'
  BY <1>1, <1>2, <1>4, <1>5, <1>7 DEF Writers, Closed
<1>12. Troubles'
  BY <1>1, <1>3, <1>4, <1>5, <1>7 DEF Troubles
<1> QED BY <1>6, <1>8, <1>9, <1>10, <1>11, <1>12 DEF SInv

(* c, behind the first o elements, ends at j. *)
EndsAt(o, c, j) == j = o + Len(c)

(* Writing the next k elements of F behind what is on its way. *)
LEMMA StreamWrite ==
    ASSUME NEW S, NEW F \in Seq(S), NEW c \in Seq(S), NEW o \in Nat, NEW j \in Nat, NEW k \in Nat,
           EndsAt(o, c, j), At(F, o, c), j + k <= Len(F)
    PROVE  LET d == c \o Part(F, j, k)
           IN  d \in Seq(S) /\ Len(d) = Len(c) + k /\ At(F, o, d)
<1>n. PICK n \in Nat : n = Len(c)
  OBVIOUS
<1>1. j = o + n
  BY <1>n DEF EndsAt
<1>2. j + k <= Len(F)
  OBVIOUS
<1>3. PICK p : p = Part(F, j, k)
  OBVIOUS
<1>4. p \in Seq(S) /\ Len(p) = k /\ \A i \in 1..k : p[i] = F[j + i]
  BY <1>2, <1>3, Parted
<1>5. PICK d : d = c \o p
  OBVIOUS
<1>6. /\ d \in Seq(S) /\ Len(d) = n + k
      /\ \A i \in 1..n : d[i] = c[i]
      /\ \A i \in 1..k : d[n + i] = p[i]
  <2>0. p \in Seq(S)
    BY <1>4
  <2>1. /\ c \o p \in Seq(S) /\ Len(c \o p) = Len(c) + Len(p)
        /\ \A i \in 1..Len(c) : (c \o p)[i] = c[i]
        /\ \A i \in 1..Len(p) : (c \o p)[Len(c) + i] = p[i]
    BY ONLY c \in Seq(S), <2>0, Joined
  <2> QED BY <1>n, <1>4, <1>5, <2>1
<1>7. \A i \in 1..n : F[o + i] = c[i]
  BY <1>n DEF At
<1>8. ASSUME NEW i \in 1..n + k PROVE F[o + i] = d[i]
  <2>1. CASE i \in 1..n
    BY <1>6, <1>7, <2>1
  <2>2. CASE i \notin 1..n
    <3>0. i - n \in 1..k
      BY <2>2
    <3>1. PICK x \in 1..k : x = i - n
      BY <3>0
    <3>2. n + x = i /\ j + x = o + i
      BY <1>1, <3>1
    <3> QED BY <1>4, <1>6, <3>2
  <2> QED BY <2>1, <2>2
<1>9. o + (n + k) <= Len(F)
  BY <1>1, <1>2
<1>10. At(F, o, d)
  BY <1>6, <1>8, <1>9 DEF At
<1> QED BY <1>n, <1>3, <1>5, <1>6, <1>10

(* Reading k elements of what is on its way. *)
LEMMA StreamRead ==
    ASSUME NEW S, NEW F \in Seq(S), NEW g \in Seq(S), NEW c \in Seq(S), NEW a \in Nat,
           NEW j \in Nat, NEW k \in Nat, EndsAt(a, g, j), k <= Len(c), At(F, a, g), At(F, j, c)
    PROVE  LET h == g \o SubSeq(c, 1, k)
               d == SubSeq(c, k + 1, Len(c))
           IN  /\ h \in Seq(S) /\ Len(h) = Len(g) + k /\ At(F, a, h)
               /\ d \in Seq(S) /\ Len(d) = Len(c) - k /\ At(F, j + k, d)
<1>n. PICK n \in Nat : n = Len(c)
  OBVIOUS
<1>l. PICK l \in Nat : l = Len(g)
  OBVIOUS
<1>j. j = a + l /\ k <= n
  BY <1>l, <1>n DEF EndsAt
<1>0. n - k \in Nat
  BY <1>j
<1>1. PICK x \in Nat : x = n - k
  BY <1>0
<1>2. PICK z \in Nat : z = 0
  OBVIOUS
<1>z. z + k <= Len(c)
  BY <1>2, <1>j, <1>n
<1>k. k + x <= Len(c) /\ k + x = Len(c)
  BY <1>1, <1>n
<1>3. PICK p, d : p = Part(c, z, k) /\ d = Part(c, k, x)
  OBVIOUS
<1>4. p = SubSeq(c, 1, k) /\ d = SubSeq(c, k + 1, Len(c))
  BY <1>2, <1>k, <1>3 DEF Part
<1>5. p \in Seq(S) /\ Len(p) = k /\ \A i \in 1..k : p[i] = c[0 + i]
  <2>1. /\ Part(c, z, k) \in Seq(S) /\ Len(Part(c, z, k)) = k
        /\ \A i \in 1..k : Part(c, z, k)[i] = c[z + i]
    BY ONLY c \in Seq(S), z \in Nat, k \in Nat, <1>z DEF Part
  <2> QED BY <1>2, <1>3, <2>1
<1>6. d \in Seq(S) /\ Len(d) = x /\ \A i \in 1..x : d[i] = c[k + i]
  <2>1. /\ Part(c, k, x) \in Seq(S) /\ Len(Part(c, k, x)) = x
        /\ \A i \in 1..x : Part(c, k, x)[i] = c[k + i]
    <3>1. k + x <= Len(c)
      BY <1>k
    <3> QED BY ONLY c \in Seq(S), x \in Nat, k \in Nat, <3>1 DEF Part
  <2> QED BY <1>3, <2>1
<1>7. PICK h : h = g \o p
  OBVIOUS
<1>8. /\ h \in Seq(S) /\ Len(h) = l + k
      /\ \A i \in 1..l : h[i] = g[i]
      /\ \A i \in 1..k : h[l + i] = p[i]
  <2>0. p \in Seq(S)
    BY <1>5
  <2>1. /\ g \o p \in Seq(S) /\ Len(g \o p) = Len(g) + Len(p)
        /\ \A i \in 1..Len(g) : (g \o p)[i] = g[i]
        /\ \A i \in 1..Len(p) : (g \o p)[Len(g) + i] = p[i]
    BY ONLY g \in Seq(S), <2>0, Joined
  <2> QED BY <1>5, <1>7, <1>l, <2>1
<1>9. (\A i \in 1..l : F[a + i] = g[i]) /\ \A i \in 1..n : F[j + i] = c[i]
  BY <1>l, <1>n DEF At
<1>10. j + n <= Len(F)
  BY <1>n DEF At
<1>11. ASSUME NEW i \in 1..l + k PROVE F[a + i] = h[i]
  <2>1. CASE i \in 1..l
    BY <1>8, <1>9, <2>1
  <2>2. CASE i \notin 1..l
    <3>0. i - l \in 1..k
      BY <2>2
    <3>1. PICK y \in 1..k : y = i - l
      BY <3>0
    <3>2. l + y = i /\ j + y = a + i /\ y \in 1..n /\ 0 + y = y
      BY <1>j, <3>1
    <3>3. h[i] = c[y]
      BY <1>5, <1>8, <3>2
    <3> QED BY <1>9, <3>2, <3>3
  <2> QED BY <2>1, <2>2
<1>12. a + (l + k) <= Len(F) /\ (j + k) + x <= Len(F)
  BY <1>1, <1>10, <1>j
<1>13. At(F, a, h)
  BY <1>8, <1>11, <1>12 DEF At
<1>14. ASSUME NEW i \in 1..x PROVE F[(j + k) + i] = d[i]
  <2>1. k + i \in 1..n /\ (j + k) + i = j + (k + i)
    BY <1>1
  <2> QED BY <1>6, <1>9, <2>1
<1>15. At(F, j + k, d)
  BY <1>6, <1>12, <1>14 DEF At
<1> QED BY <1>1, <1>4, <1>6, <1>7, <1>8, <1>13, <1>15, <1>l, <1>n

(* Writing keeps the flow of the frame that is being written. *)
LEMMA WriteFlow ==
    ASSUME Types, NEW e \in Ends, NEW o \in Ends, o = Other(e), NEW k \in Nat, NEW F \in Seq(Int),
           Flow(o, F), WriteSome(e, k)
    PROVE  /\ Flow(o, F)' /\ Types'
           /\ pc'[o] = pc[o] /\ in' = in /\ head' = head /\ inbox'[e] = inbox[e]
           /\ pc'[e] \in {"write", IF e = "client" THEN "head" ELSE "idle"}
<1> USE EndFacts
<1>1. /\ pc[e] = "write" /\ in' = in /\ head' = head /\ reset' = reset /\ sent' = sent
      /\ received' = received /\ complaint' = complaint /\ result' = result
  BY DEF WriteSome
<1>2. e = Other(o) /\ e # o
  BY DEF Ends, Other
<1>c. PICK c \in Seq(Int) : c = inbox[o]
  BY DEF Types
<1>g. in[o] \in Seq(Int) /\ Len(in[o]) \in Nat
  BY DEF Types
<1>n. PICK n \in Nat : n = Len(c)
  OBVIOUS
<1>3. c = inbox[o] /\ n = Len(c) /\ Len(in[o]) \in Nat
  BY <1>c, <1>g, <1>n
<1>4. PICK a \in Nat : a = Consumed(o)
  <2>1. Start(o) \in Nat
    BY HeaderSize DEF Start
  <2> QED BY <1>3, <2>1 DEF Consumed
<1>5. PICK d \in Nat : d = a + n
  OBVIOUS
<1>6. out[e] = [frame |-> F, done |-> d] /\ d < Len(F) /\ At(F, a, c) /\ a < Len(F)
  BY <1>1, <1>2, <1>3, <1>4, <1>5 DEF Flow
<1>7. out[e].frame = F /\ out[e].done = d
  BY <1>6
<1>8. /\ d + k <= Len(F) /\ inbox' = [inbox EXCEPT ![o] = c \o Part(F, d, k)]
  BY <1>3, <1>7 DEF WriteSome
<1>10. PICK b : b = c \o Part(F, d, k)
  OBVIOUS
<1>11. b \in Seq(Int) /\ Len(b) = n + k /\ At(F, a, b)
  <2>1. At(F, a, c) /\ EndsAt(a, c, d) /\ d + k <= Len(F)
    BY <1>n, <1>5, <1>6, <1>8 DEF EndsAt
  <2>2. LET x == c \o Part(F, d, k)
        IN  x \in Seq(Int) /\ Len(x) = Len(c) + k /\ At(F, a, x)
    BY ONLY F \in Seq(Int), c \in Seq(Int), a \in Nat, d \in Nat, k \in Nat, <2>1, StreamWrite
  <2> QED BY <1>n, <1>10, <2>2
<1>12. inbox'[o] = b /\ inbox'[e] = inbox[e] /\ inbox' \in [Ends -> Seq(Int)]
  BY <1>2, <1>8, <1>10, <1>11 DEF Types
<1>13. \/ d + k < Len(F) /\ pc' = pc /\ out' = [out EXCEPT ![e] = [frame |-> F, done |-> d + k]]
       \/ d + k = Len(F) /\ AfterWrite(e)
  BY <1>6, <1>7 DEF WriteSome
<1>14. /\ pc'[o] = pc[o] /\ out' = [x \in Ends |-> out'[x]]
       /\ pc' \in [Ends -> {"idle", "write", "head", "body", "call", "waiting", "abandoned", "closed"}]
       /\ \/ d + k < Len(F) /\ pc'[e] = "write" /\ out'[e] = [frame |-> F, done |-> d + k]
          \/ d + k = Len(F) /\ pc'[e] = IF e = "client" THEN "head" ELSE "idle"
  <2>1. CASE d + k < Len(F) /\ pc' = pc /\ out' = [out EXCEPT ![e] = [frame |-> F, done |-> d + k]]
    BY <1>1, <2>1 DEF Types
  <2>2. CASE d + k = Len(F) /\ AfterWrite(e)
    BY <1>2, <2>2 DEF Types, AfterWrite
  <2> QED BY <1>13, <2>1, <2>2
<1>15. Types'
  BY <1>1, <1>12, <1>14 DEF Types
<1>16. Start(o)' = Start(o) /\ Consumed(o)' = a
  BY <1>1, <1>4, <1>14 DEF Start, Consumed
<1>17. Consumed(o)' + Len(inbox'[o]) = d + k
  <2>1. Len(inbox'[o]) = n + k
    BY <1>11, <1>12
  <2>2. a + (n + k) = d + k
    BY <1>5
  <2> QED BY <1>16, <2>1, <2>2
<1>18. At(F, Start(o), in[o]) /\ (pc[o] = "body" => head[o] = Part(F, 0, H)) /\ (pc[o] = "head" => Len(in[o]) < H)
  BY DEF Flow
<1>19. (pc'[e] = "write") <=> d + k < Len(F)
  BY <1>8, <1>14
<1>20. Flow(o, F)'
  <2>1. pc'[e] = "write" => /\ out'[e] = [frame |-> F, done |-> d + k] /\ d + k < Len(F)
    BY <1>14, <1>19
  <2>2. pc'[e] \notin {"write", "closed"} => d + k = Len(F)
    BY <1>14, <1>19
  <2> QED BY <1>1, <1>2, <1>6, <1>11, <1>12, <1>14, <1>16, <1>17, <1>18, <2>1, <2>2 DEF Flow
<1> QED BY <1>1, <1>12, <1>14, <1>15, <1>20

LEMMA RequestFlow ==
    ASSUME Types, Turns, Heard < Asked
    PROVE  /\ sent["client"][Heard + 1] \in Requests
           /\ FrameOf("server", RequestFrame(sent["client"][Heard + 1]), sent["client"][Heard + 1])
<1>1. Heard + 1 \in 1..Asked
  BY Counts
<1>2. sent["client"][Heard + 1] \in Requests
  BY <1>1 DEF Types, Asked
<1> QED BY <1>2, RequestFrames

LEMMA ResponseFlow ==
    ASSUME Types, Turns, Returned < Answered
    PROVE  /\ sent["server"][Returned + 1] \in Answers
           /\ FrameOf("client", ResponseFrame(sent["server"][Returned + 1]), sent["server"][Returned + 1])
<1>1. Returned + 1 \in 1..Answered
  BY Counts
<1>2. sent["server"][Returned + 1] \in Answers
  BY <1>1 DEF Types, Answered
<1>3. PICK m \in Requests : sent["server"][Returned + 1] \in Responses(m)
  BY <1>2 DEF Answers
<1> QED BY <1>2, <1>3, ResponseFrames

LEMMA ClientWritesSInv ==
    ASSUME SInv, NEW k \in Nat, WriteSome("client", k)
    PROVE  SInv'
<1> USE EndFacts
<1>1. Types /\ Turns /\ ServerReads /\ ClientReads /\ Writers /\ Troubles
  BY DEF SInv
<1>2. /\ pc["client"] = "write" /\ ~Closed("server")
      /\ reset' = reset /\ sent' = sent /\ received' = received
      /\ complaint' = complaint /\ result' = result
  BY DEF WriteSome
<1>3. /\ Asked \in Nat /\ Heard \in Nat /\ Answered \in Nat /\ Returned \in Nat
      /\ Asked' = Asked /\ Heard' = Heard /\ Answered' = Answered /\ Returned' = Returned
  BY <1>1, <1>2, Counts DEF Asked, Heard, Answered, Returned
<1>4. Heard < Asked /\ result = "ok" /\ Asked = Returned + 1 /\ Returned = Answered
  <2>1. Heard < Asked
    BY <1>1, <1>2 DEF Writers
  <2>2. result = "ok" /\ Asked = Returned + 1 /\ Returned <= Answered /\ Answered <= Heard
    BY <1>1, <1>2 DEF Turns
  <2> QED BY <1>3, <2>1, <2>2
<1>5. PICK F \in Seq(Int) : F = RequestFrame(sent["client"][Heard + 1])
  BY <1>1, <1>4, RequestFlow, FrameSize
<1>6. Flow("server", F)
  BY <1>1, <1>2, <1>3, <1>4, <1>5 DEF ServerReads
<1>7. /\ Flow("server", F)' /\ Types'
      /\ pc'["server"] = pc["server"] /\ in' = in /\ inbox'["client"] = inbox["client"]
      /\ pc'["client"] \in {"write", "head"}
  BY <1>1, <1>6, WriteFlow
<1>8. Turns'
  BY <1>1, <1>2, <1>3, <1>4, <1>7 DEF Turns, Closed
<1>9. ServerReads'
  BY <1>2, <1>3, <1>4, <1>5, <1>7 DEF ServerReads, Closed
<1>10. ClientReads'
  BY <1>1, <1>3, <1>4, <1>7 DEF ClientReads, Silent
<1>11. Writers'
  BY <1>1, <1>2, <1>3, <1>4, <1>7 DEF Writers, Closed
<1>12. Troubles'
  BY <1>1, <1>2, <1>3, <1>7 DEF Troubles, Closed
<1> QED BY <1>7, <1>8, <1>9, <1>10, <1>11, <1>12 DEF SInv

LEMMA ServerWritesSInv ==
    ASSUME SInv, NEW k \in Nat, WriteSome("server", k)
    PROVE  SInv'
<1> USE EndFacts
<1>1. Types /\ Turns /\ ServerReads /\ ClientReads /\ Writers /\ Troubles
  BY DEF SInv
<1>2. /\ pc["server"] = "write" /\ ~Closed("client")
      /\ reset' = reset /\ sent' = sent /\ received' = received
      /\ complaint' = complaint /\ result' = result
  BY DEF WriteSome
<1>3. /\ Asked \in Nat /\ Heard \in Nat /\ Answered \in Nat /\ Returned \in Nat
      /\ Asked' = Asked /\ Heard' = Heard /\ Answered' = Answered /\ Returned' = Returned
  BY <1>1, <1>2, Counts DEF Asked, Heard, Answered, Returned
<1>4. Returned < Answered /\ result = "ok" /\ Asked = Returned + 1 /\ Heard = Asked
  <2>1. Returned < Answered
    BY <1>1, <1>2 DEF Writers
  <2>2. result = "ok" /\ Asked <= Returned + 1 /\ Answered <= Heard /\ Heard <= Asked
    BY <1>1, <1>2 DEF Turns, Closed
  <2> QED BY <1>3, <2>1, <2>2
<1>5. PICK F \in Seq(Int) : F = ResponseFrame(sent["server"][Returned + 1])
  BY <1>1, <1>4, ResponseFlow, FrameSize
<1>6. Flow("client", F)
  BY <1>1, <1>2, <1>3, <1>4, <1>5 DEF ClientReads
<1>7. /\ Flow("client", F)' /\ Types'
      /\ pc'["client"] = pc["client"] /\ in' = in /\ inbox'["server"] = inbox["server"]
      /\ pc'["server"] \in {"write", "idle"}
  BY <1>1, <1>6, WriteFlow
<1>8. Turns'
  BY <1>1, <1>2, <1>3, <1>4, <1>7 DEF Turns, Closed
<1>9. ClientReads'
  BY <1>2, <1>3, <1>4, <1>5, <1>7 DEF ClientReads, Closed
<1>10. ServerReads'
  BY <1>1, <1>3, <1>4, <1>7 DEF ServerReads, Silent
<1>11. Writers'
  BY <1>1, <1>2, <1>3, <1>4, <1>7 DEF Writers, Closed
<1>12. Troubles'
  BY <1>1, <1>2, <1>3, <1>7 DEF Troubles, Closed
<1> QED BY <1>7, <1>8, <1>9, <1>10, <1>11, <1>12 DEF SInv

LEMMA EmptyAt ==
    ASSUME NEW F \in Seq(Int), NEW o \in Nat, o <= Len(F)
    PROVE  At(F, o, <<>>) /\ Part(F, o, 0) = <<>>
<1>1. At(F, o, <<>>)
  BY DEF At
<1>0. <<>> \in Seq(Int) /\ Len(<<>>) = 0
  OBVIOUS
<1>2. PICK u \in Seq(Int) : u = <<>> /\ Len(u) = 0
  BY <1>0
<1>3. Part(F, o, Len(u)) = u
  BY <1>1, <1>2, PartAt
<1> QED BY <1>1, <1>2, <1>3

(* Reading goes on with the frame that is being sent, or completes its     *)
(* message, with nothing of the frame left to be written or read.          *)
LEMMA ReadFlow ==
    ASSUME Types, NEW e \in Ends, NEW o \in Ends, o = Other(e), NEW k \in Nat, NEW F, NEW m,
           FrameOf(e, F, m), Flow(e, F), ReadSome(e, k)
    PROVE  /\ in'[o] = in[o] /\ inbox'[o] = inbox[o] /\ head'[o] = head[o] /\ pc'[o] = pc[o]
           /\ in' \in [Ends -> Seq(Int)] /\ inbox' \in [Ends -> Seq(Int)]
           /\ head' = [x \in Ends |-> head'[x]]
           /\ pc' \in [Ends -> {"idle", "write", "head", "body", "call", "waiting", "abandoned", "closed"}]
           /\ \/ /\ Flow(e, F)' /\ pc'[e] \in {"head", "body"}
                 /\ received' = received /\ result' = result
              \/ /\ Got(e, m) /\ in'[e] = <<>> /\ inbox'[e] = <<>> /\ pc[o] # "write"
                 /\ pc'[e] = IF e = "client" THEN "idle" ELSE "call"
<1> USE EndFacts
<1>1. o # e /\ Other(o) = e
  BY DEF Ends, Other
<1>2. PICK g \in Seq(Int), c \in Seq(Int) : g = in[e] /\ c = inbox[e]
  BY DEF Types
<1>3. PICK l \in Nat, n \in Nat, f \in Nat : l = Len(g) /\ n = Len(c) /\ f = Len(F)
  BY FrameSize
<1>4. F \in Seq(Int) /\ H <= f /\ H \in Nat /\ 0 < H
  BY <1>3, FrameSize, HeaderSize
<1>5. PICK a \in Nat : a = Start(e) /\ a = IF pc[e] = "body" THEN H ELSE 0
  BY <1>4 DEF Start
<1>6. PICK j \in Nat : j = a + l
  OBVIOUS
<1>7. Consumed(e) = j /\ EndsAt(a, g, j)
  BY <1>2, <1>3, <1>5, <1>6 DEF Consumed, EndsAt
<1>8. At(F, a, g) /\ At(F, j, c)
  BY <1>2, <1>5, <1>7 DEF Flow
<1>9. /\ (pc[e] = "body" => head[e] = Part(F, 0, H))
      /\ (pc[o] = "write" => out[o] = [frame |-> F, done |-> j + n] /\ j + n < f)
      /\ (pc[o] \notin {"write", "closed"} => j + n = f)
  BY <1>2, <1>3, <1>7 DEF Flow
<1>10. PICK b, d : b = g \o SubSeq(c, 1, k) /\ d = SubSeq(c, k + 1, Len(c))
  OBVIOUS
<1>11. /\ pc[e] \in {"head", "body"} /\ k <= Len(c) /\ Len(b) <= Wanted(e)
       /\ inbox' = [inbox EXCEPT ![e] = d] /\ out' = out
  BY <1>2, <1>10 DEF ReadSome
<1>12. /\ b \in Seq(Int) /\ Len(b) = Len(g) + k /\ At(F, a, b)
       /\ d \in Seq(Int) /\ Len(d) = Len(c) - k /\ At(F, j + k, d)
  <2>1. LET x == g \o SubSeq(c, 1, k)
            y == SubSeq(c, k + 1, Len(c))
        IN  /\ x \in Seq(Int) /\ Len(x) = Len(g) + k /\ At(F, a, x)
            /\ y \in Seq(Int) /\ Len(y) = Len(c) - k /\ At(F, j + k, y)
    BY <1>4, <1>7, <1>8, <1>11, StreamRead
  <2> QED BY <1>10, <2>1
<1>13. PICK i \in Nat, z \in Nat : i = l + k /\ z = n - k /\ k <= n
  <2>1. k <= n
    BY <1>3, <1>11
  <2>2. l + k \in Nat /\ n - k \in Nat
    BY <2>1
  <2> QED BY <2>1, <2>2
<1>14. Len(b) = i /\ Len(d) = z /\ j + k = a + i /\ (a + i) + z = j + n
  BY <1>3, <1>6, <1>12, <1>13
<1>15. At(F, a, b) /\ At(F, a + i, d) /\ (a + i) + z <= f
  <2>1. At(F, a + i, d)
    BY <1>12, <1>14
  <2>2. (a + i) + Len(d) <= Len(F)
    BY <2>1 DEF At
  <2> QED BY <1>3, <1>12, <1>14, <2>1, <2>2
<1>16. head_len(Part(F, 0, H)) = f - H /\ Decoded(e, Part(F, 0, H), Part(F, H, f - H)) = m
  BY <1>3 DEF FrameOf
<1>17. Wanted(e) = IF pc[e] = "head" THEN H ELSE f - H
  BY <1>9, <1>11, <1>16 DEF Wanted, H
<1>18. inbox'[e] = d /\ inbox'[o] = inbox[o] /\ inbox' \in [Ends -> Seq(Int)]
  BY <1>1, <1>11, <1>12 DEF Types
<1>19. CASE Len(b) < Wanted(e) /\ in' = [in EXCEPT ![e] = b] /\ UNCHANGED <<pc, head, received, result>>
  <2>1. pc' = pc /\ head' = head /\ received' = received /\ result' = result
    BY <1>19
  <2>2. in'[e] = b /\ in'[o] = in[o] /\ in' \in [Ends -> Seq(Int)]
    BY <1>1, <1>12, <1>19 DEF Types
  <2>3. i < Wanted(e) /\ a + i < f /\ (pc[e] = "head" => i < H)
    BY <1>4, <1>5, <1>11, <1>14, <1>17, <1>19
  <2>4. Start(e)' = a /\ Consumed(e)' = a + i
    BY <1>5, <1>14, <2>1, <2>2 DEF Start, Consumed
  <2>5. Consumed(e)' + Len(inbox'[e]) = j + n
    BY <1>14, <1>18, <2>4
  <2>6. Flow(e, F)'
    BY <1>1, <1>3, <1>9, <1>11, <1>14, <1>15, <1>18, <2>1, <2>2, <2>3, <2>4, <2>5 DEF Flow
  <2> QED BY <1>11, <1>18, <2>1, <2>2, <2>6 DEF Types
<1>20. ASSUME Len(b) = Wanted(e), in' = [in EXCEPT ![e] = <<>>]
       PROVE  /\ in'[e] = <<>> /\ in'[o] = in[o] /\ in' \in [Ends -> Seq(Int)]
  <2>1. <<>> \in Seq(Int)
    OBVIOUS
  <2> QED BY <1>1, <1>20, <2>1 DEF Types
<1>21. ASSUME pc[e] = "head", i = H PROVE b = Part(F, 0, H) /\ a = 0
  BY <1>4, <1>5, <1>12, <1>14, <1>15, <1>21, PartAt
<1>22. ASSUME a + i = f PROVE d = <<>> /\ pc[o] # "write"
  <2>1. z = 0 /\ ~(j + n < f)
    BY <1>14, <1>15, <1>22
  <2> QED BY <1>9, <1>12, <1>14, <2>1
<1>23. CASE /\ Len(b) = Wanted(e) /\ in' = [in EXCEPT ![e] = <<>>]
            /\ pc[e] = "head" /\ head_len(b) > 0
            /\ pc' = [pc EXCEPT ![e] = "body"] /\ head' = [head EXCEPT ![e] = b]
            /\ UNCHANGED <<received, result>>
  <2>1. received' = received /\ result' = result
    BY <1>23
  <2>2. i = H /\ b = Part(F, 0, H) /\ a = 0
    BY <1>14, <1>17, <1>21, <1>23
  <2>3. H < f
    BY <1>4, <1>16, <1>23, <2>2
  <2>4. /\ pc'[e] = "body" /\ pc'[o] = pc[o] /\ head'[e] = b /\ head'[o] = head[o]
        /\ head' = [x \in Ends |-> head'[x]]
        /\ pc' \in [Ends -> {"idle", "write", "head", "body", "call", "waiting", "abandoned", "closed"}]
    BY <1>1, <1>23 DEF Types
  <2>5. in'[e] = <<>> /\ in'[o] = in[o] /\ in' \in [Ends -> Seq(Int)]
    BY <1>20, <1>23
  <2>6. Start(e)' = H /\ Consumed(e)' = H
    BY <1>4, <2>4, <2>5 DEF Start, Consumed
  <2>7. Consumed(e)' + Len(inbox'[e]) = j + n
    <3>1. H + z = j + n
      BY <1>4, <1>14, <2>2
    <3>2. Len(inbox'[e]) = z
      BY <1>14, <1>18
    <3> QED BY <2>6, <3>1, <3>2
  <2>8. At(F, H, <<>>) /\ At(F, H, d)
    BY <1>3, <1>4, <1>15, <2>2, EmptyAt
  <2>9. Flow(e, F)'
    BY <1>1, <1>3, <1>9, <1>11, <1>18, <2>2, <2>3, <2>4, <2>5, <2>6, <2>7, <2>8 DEF Flow
  <2> QED BY <1>18, <2>1, <2>4, <2>5, <2>9
<1>24. ASSUME Got(e, m)
       PROVE  /\ pc'[e] = (IF e = "client" THEN "idle" ELSE "call") /\ pc'[o] = pc[o] /\ head'[o] = head[o]
              /\ head' = [x \in Ends |-> head'[x]]
              /\ pc' \in [Ends -> {"idle", "write", "head", "body", "call", "waiting", "abandoned", "closed"}]
  BY <1>1, <1>24 DEF Types, Got
<1>25. CASE /\ Len(b) = Wanted(e) /\ in' = [in EXCEPT ![e] = <<>>]
            /\ pc[e] = "head" /\ head_len(b) = 0 /\ Got(e, Decoded(e, b, <<>>))
  <2>1. i = H /\ b = Part(F, 0, H) /\ a = 0
    BY <1>14, <1>17, <1>21, <1>25
  <2>2. f - H = 0 /\ a + i = f
    BY <1>4, <1>16, <1>25, <2>1
  <2>3. Part(F, H, f - H) = <<>>
    BY <1>3, <1>4, <2>2, EmptyAt
  <2>4. Got(e, m)
    BY <1>16, <1>25, <2>1, <2>3
  <2>5. in'[e] = <<>> /\ in'[o] = in[o] /\ in' \in [Ends -> Seq(Int)]
    BY <1>20, <1>25
  <2> QED BY <1>18, <1>22, <1>24, <2>2, <2>4, <2>5
<1>26. CASE /\ Len(b) = Wanted(e) /\ in' = [in EXCEPT ![e] = <<>>]
            /\ pc[e] = "body" /\ Got(e, Decoded(e, head[e], b))
  <2>1. i = f - H /\ a = H /\ a + i = f
    BY <1>4, <1>5, <1>14, <1>17, <1>26
  <2>2. b = Part(F, H, f - H)
    BY <1>4, <1>12, <1>14, <1>15, <2>1, PartAt
  <2>3. Got(e, m)
    BY <1>9, <1>16, <1>26, <2>2
  <2>4. in'[e] = <<>> /\ in'[o] = in[o] /\ in' \in [Ends -> Seq(Int)]
    BY <1>20, <1>26
  <2> QED BY <1>18, <1>22, <1>24, <2>1, <2>3, <2>4
<1>27. \/ Len(b) < Wanted(e) /\ in' = [in EXCEPT ![e] = b] /\ UNCHANGED <<pc, head, received, result>>
       \/ /\ Len(b) = Wanted(e) /\ in' = [in EXCEPT ![e] = <<>>]
          /\ \/ /\ pc[e] = "head" /\ head_len(b) > 0
                /\ pc' = [pc EXCEPT ![e] = "body"] /\ head' = [head EXCEPT ![e] = b]
                /\ UNCHANGED <<received, result>>
             \/ pc[e] = "head" /\ head_len(b) = 0 /\ Got(e, Decoded(e, b, <<>>))
             \/ pc[e] = "body" /\ Got(e, Decoded(e, head[e], b))
  BY <1>2, <1>10 DEF ReadSome
<1> QED BY <1>19, <1>23, <1>25, <1>26, <1>27

LEMMA ServerReadsSInv ==
    ASSUME SInv, NEW k \in Nat, 0 < k, ReadSome("server", k)
    PROVE  /\ SInv'
           /\ \/ UNCHANGED <<sent, received, result>>
              \/ /\ Heard < Asked /\ result = "ok" /\ result' = result /\ sent' = sent
                 /\ received' = [received EXCEPT !["server"] = Append(@, sent["client"][Heard + 1])]
<1> USE EndFacts
<1>1. Types /\ Turns /\ ServerReads /\ ClientReads /\ Writers /\ Troubles
  BY DEF SInv
<1>2. /\ pc["server"] \in {"head", "body"} /\ k <= Len(inbox["server"])
      /\ out' = out /\ reset' = reset /\ sent' = sent /\ complaint' = complaint
  BY DEF ReadSome
<1>3. Asked \in Nat /\ Heard \in Nat /\ Answered \in Nat /\ Returned \in Nat
  BY <1>1, Counts
<1>4. inbox["server"] # <<>>
  BY <1>2
<1>5. Heard < Asked /\ ~Closed("server") /\ result = "ok" /\ Returned = Answered /\ Heard = Answered
      /\ Asked = Heard + 1
  <2>1. Heard # Asked /\ ~Closed("server")
    BY <1>1, <1>4 DEF ServerReads, Silent
  <2>2. /\ result = "ok" /\ Asked <= Returned + 1
        /\ Returned <= Answered /\ Answered <= Heard /\ Heard <= Asked
    BY <1>1, <2>1 DEF Turns
  <2> QED BY <1>3, <2>1, <2>2
<1>6. PICK m \in Requests : m = sent["client"][Heard + 1] /\ FrameOf("server", RequestFrame(m), m)
  BY <1>1, <1>5, RequestFlow
<1>7. PICK F : F = RequestFrame(m)
  OBVIOUS
<1>8. Flow("server", F) /\ FrameOf("server", F, m)
  BY <1>1, <1>3, <1>5, <1>6, <1>7 DEF ServerReads
<1>9. /\ in'["client"] = in["client"] /\ inbox'["client"] = inbox["client"]
      /\ pc'["client"] = pc["client"]
      /\ in' \in [Ends -> Seq(Int)] /\ inbox' \in [Ends -> Seq(Int)]
      /\ head' = [x \in Ends |-> head'[x]]
      /\ pc' \in [Ends -> {"idle", "write", "head", "body", "call", "waiting", "abandoned", "closed"}]
  BY <1>1, <1>8, ReadFlow
<1>10. \/ /\ Flow("server", F)' /\ pc'["server"] \in {"head", "body"}
          /\ received' = received /\ result' = result
       \/ /\ Got("server", m) /\ in'["server"] = <<>> /\ inbox'["server"] = <<>>
          /\ pc["client"] # "write" /\ pc'["server"] = "call"
  BY <1>1, <1>8, ReadFlow
<1>11. ClientReads'
  <2>1. Silent("client")
    BY <1>1, <1>5 DEF ClientReads
  <2>2. Silent("client")'
    BY <1>9, <2>1 DEF Silent
  <2>3. Answered' = Answered /\ Returned' = Returned
    <3>1. received'["client"] = received["client"]
      BY <1>1, <1>10 DEF Got, Types
    <3> QED BY <1>2, <3>1 DEF Answered, Returned
  <2> QED BY <1>5, <2>2, <2>3 DEF ClientReads
<1>12. CASE /\ Flow("server", F)' /\ pc'["server"] \in {"head", "body"}
            /\ received' = received /\ result' = result
  <2>1. Asked' = Asked /\ Heard' = Heard /\ Answered' = Answered /\ Returned' = Returned
    BY <1>2, <1>12 DEF Asked, Heard, Answered, Returned
  <2>2. Types'
    BY <1>1, <1>2, <1>9, <1>12 DEF Types
  <2>3. Turns'
    BY <1>1, <1>5, <1>9, <1>12, <2>1 DEF Turns, Closed
  <2>4. ServerReads'
    BY <1>2, <1>3, <1>5, <1>6, <1>7, <1>12, <2>1 DEF ServerReads, Closed
  <2>5. Writers'
    BY <1>1, <1>5, <1>9, <1>12, <2>1 DEF Writers, Closed
  <2>6. Troubles'
    BY <1>1, <1>2, <1>9, <1>12, <2>1 DEF Troubles, Closed
  <2> QED BY <1>2, <1>11, <1>12, <2>2, <2>3, <2>4, <2>5, <2>6 DEF SInv
<1>13. CASE /\ Got("server", m) /\ in'["server"] = <<>> /\ inbox'["server"] = <<>>
            /\ pc["client"] # "write" /\ pc'["server"] = "call"
  <2>1. /\ received' = [received EXCEPT !["server"] = Append(received["server"], m)]
        /\ result' = result
    BY <1>13 DEF Got
  <2>2. /\ received'["server"] = Append(received["server"], m)
        /\ received'["client"] = received["client"] /\ received' = [x \in Ends |-> received'[x]]
    BY <1>1, <2>1 DEF Types
  <2>3. Append(received["server"], m) \in Seq(Requests)
    BY <1>1 DEF Types
  <2>4. Asked' = Asked /\ Heard' = Heard + 1 /\ Answered' = Answered /\ Returned' = Returned
    BY <1>1, <1>2, <2>2 DEF Types, Asked, Heard, Answered, Returned
  <2>5. Types'
    BY <1>1, <1>2, <1>9, <2>2, <2>3 DEF Types
  <2>6. Turns'
    BY <1>1, <1>3, <1>5, <1>9, <1>13, <2>1, <2>4 DEF Turns, Closed
  <2>7. ServerReads'
    BY <1>3, <1>5, <1>13, <2>4 DEF ServerReads, Silent
  <2>8. Writers'
    BY <1>1, <1>5, <1>9, <1>13, <2>4 DEF Writers, Closed
  <2>9. Troubles'
    BY <1>1, <1>2, <1>9, <1>13, <2>4 DEF Troubles, Closed
  <2> QED BY <1>2, <1>5, <1>6, <1>11, <2>1, <2>5, <2>6, <2>7, <2>8, <2>9 DEF SInv
<1> QED BY <1>10, <1>12, <1>13

LEMMA ClientReadsSInv ==
    ASSUME SInv, NEW k \in Nat, 0 < k, ReadSome("client", k)
    PROVE  /\ SInv'
           /\ \/ UNCHANGED <<sent, received, result>>
              \/ /\ Returned < Answered /\ result = "ok" /\ result' = result /\ sent' = sent
                 /\ received' = [received EXCEPT !["client"] = Append(@, sent["server"][Returned + 1])]
<1> USE EndFacts
<1>1. Types /\ Turns /\ ServerReads /\ ClientReads /\ Writers /\ Troubles
  BY DEF SInv
<1>2. /\ pc["client"] \in {"head", "body"} /\ k <= Len(inbox["client"])
      /\ out' = out /\ reset' = reset /\ sent' = sent /\ complaint' = complaint
  BY DEF ReadSome
<1>3. Asked \in Nat /\ Heard \in Nat /\ Answered \in Nat /\ Returned \in Nat
  BY <1>1, Counts
<1>4. inbox["client"] # <<>>
  BY <1>2
<1>5. /\ Returned < Answered /\ ~Closed("client") /\ result = "ok"
      /\ Answered = Returned + 1 /\ Heard = Returned + 1 /\ Asked = Returned + 1
  <2>1. Returned # Answered /\ ~Closed("client")
    BY <1>1, <1>4 DEF ClientReads, Silent
  <2>2. result = "ok"
    BY <1>1, <1>2 DEF Turns
  <2>3. Asked <= Returned + 1 /\ Returned <= Answered /\ Answered <= Heard /\ Heard <= Asked
    BY <1>1, <2>2 DEF Turns
  <2> QED BY <1>3, <2>1, <2>2, <2>3
<1>6. PICK m \in Answers : m = sent["server"][Returned + 1] /\ FrameOf("client", ResponseFrame(m), m)
  BY <1>1, <1>5, ResponseFlow
<1>7. PICK F : F = ResponseFrame(m)
  OBVIOUS
<1>8. Flow("client", F) /\ FrameOf("client", F, m)
  BY <1>1, <1>3, <1>5, <1>6, <1>7 DEF ClientReads
<1>9. /\ in'["server"] = in["server"] /\ inbox'["server"] = inbox["server"]
      /\ pc'["server"] = pc["server"]
      /\ in' \in [Ends -> Seq(Int)] /\ inbox' \in [Ends -> Seq(Int)]
      /\ head' = [x \in Ends |-> head'[x]]
      /\ pc' \in [Ends -> {"idle", "write", "head", "body", "call", "waiting", "abandoned", "closed"}]
  BY <1>1, <1>8, ReadFlow
<1>10. \/ /\ Flow("client", F)' /\ pc'["client"] \in {"head", "body"}
          /\ received' = received /\ result' = result
       \/ /\ Got("client", m) /\ in'["client"] = <<>> /\ inbox'["client"] = <<>>
          /\ pc["server"] # "write" /\ pc'["client"] = "idle"
  BY <1>1, <1>8, ReadFlow
<1>11. ServerReads'
  <2>1. Silent("server")
    BY <1>1, <1>5 DEF ServerReads
  <2>2. Silent("server")'
    BY <1>9, <2>1 DEF Silent
  <2>3. Asked' = Asked /\ Heard' = Heard
    <3>1. received'["server"] = received["server"]
      BY <1>1, <1>10 DEF Got, Types
    <3> QED BY <1>2, <3>1 DEF Asked, Heard
  <2> QED BY <1>5, <2>2, <2>3 DEF ServerReads
<1>12. CASE /\ Flow("client", F)' /\ pc'["client"] \in {"head", "body"}
            /\ received' = received /\ result' = result
  <2>1. Asked' = Asked /\ Heard' = Heard /\ Answered' = Answered /\ Returned' = Returned
    BY <1>2, <1>12 DEF Asked, Heard, Answered, Returned
  <2>2. Types'
    BY <1>1, <1>2, <1>9, <1>12 DEF Types
  <2>3. Turns'
    BY <1>1, <1>5, <1>9, <1>12, <2>1 DEF Turns, Closed
  <2>4. ClientReads'
    BY <1>2, <1>3, <1>5, <1>6, <1>7, <1>12, <2>1 DEF ClientReads, Closed
  <2>5. Writers'
    BY <1>1, <1>5, <1>9, <1>12, <2>1 DEF Writers, Closed
  <2>6. Troubles'
    BY <1>1, <1>2, <1>5, <1>9, <1>12, <2>1 DEF Troubles
  <2> QED BY <1>2, <1>11, <1>12, <2>2, <2>3, <2>4, <2>5, <2>6 DEF SInv
<1>13. CASE /\ Got("client", m) /\ in'["client"] = <<>> /\ inbox'["client"] = <<>>
            /\ pc["server"] # "write" /\ pc'["client"] = "idle"
  <2>1. /\ received' = [received EXCEPT !["client"] = Append(received["client"], m)]
        /\ result' = "ok"
    BY <1>13 DEF Got
  <2>2. /\ received'["client"] = Append(received["client"], m)
        /\ received'["server"] = received["server"] /\ received' = [x \in Ends |-> received'[x]]
    BY <1>1, <2>1 DEF Types
  <2>3. Append(received["client"], m) \in Seq(Answers)
    BY <1>1 DEF Types
  <2>4. Asked' = Asked /\ Heard' = Heard /\ Answered' = Answered /\ Returned' = Returned + 1
    BY <1>1, <1>2, <2>2 DEF Types, Asked, Heard, Answered, Returned
  <2>5. Types'
    BY <1>1, <1>2, <1>9, <2>2, <2>3 DEF Types
  <2>6. pc["server"] \notin {"call", "waiting"}
    BY <1>1, <1>3, <1>5 DEF Turns
  <2>7. Turns'
    BY <1>3, <1>5, <1>9, <1>13, <2>1, <2>4, <2>6 DEF Turns
  <2>8. ClientReads'
    BY <1>3, <1>5, <1>13, <2>4 DEF ClientReads, Silent
  <2>9. Writers'
    BY <1>1, <1>5, <1>9, <1>13, <2>4 DEF Writers, Closed
  <2>10. Troubles'
    BY <1>1, <1>2, <1>5, <1>9, <1>13, <2>4 DEF Troubles
  <2> QED BY <1>2, <1>5, <1>6, <1>11, <2>1, <2>5, <2>7, <2>8, <2>9, <2>10 DEF SInv
<1> QED BY <1>10, <1>12, <1>13
-----------------------------------------------------------------------------
(* A step of the connection is a step of the channel, or none of it. *)

LEMMA AskIsAsk ==
    ASSUME SInv, NEW m \in Requests, Ask(m)
    PROVE  Messages!Ask(m)
<1>1. /\ result = "ok" => Asked = Returned
      /\ sent' = [sent EXCEPT !["client"] = Append(@, m)] /\ received' = received /\ result' = result
  BY DEF SInv, Turns, Ask
<1> QED BY <1>1 DEF Messages!Ask, Asked, Returned

LEMMA AnswerIsAnswer ==
    ASSUME SInv, NEW m \in Requests, NEW r \in Responses(m), Answer(r)
    PROVE  Messages!Answer(r)
<1>1. /\ pc["server"] = "call" /\ r \in Responses(received["server"][Heard])
      /\ sent' = [sent EXCEPT !["server"] = Append(@, r)] /\ received' = received /\ result' = result
  BY DEF Answer, Last, Heard
<1>2. Asked \in Nat /\ Heard \in Nat /\ Answered \in Nat /\ Returned \in Nat
  BY Counts DEF SInv
<1>3. Answered < Heard /\ Heard = Asked /\ Asked <= Returned + 1 /\ Returned <= Answered
  BY <1>1 DEF SInv, Turns, Closed
<1>4. Heard = Answered + 1
  BY <1>2, <1>3
<1> QED BY <1>1, <1>3, <1>4 DEF Messages!Answer, Answered, Heard

LEMMA ServerReadIsDelivery ==
    ASSUME SInv, NEW k \in Nat, 0 < k, ReadSome("server", k)
    PROVE  Messages!Deliver("client", "server") \/ UNCHANGED <<sent, received, result>>
<1>1. \/ UNCHANGED <<sent, received, result>>
      \/ /\ Heard < Asked /\ result = "ok" /\ result' = result /\ sent' = sent
         /\ received' = [received EXCEPT !["server"] = Append(@, sent["client"][Heard + 1])]
  BY ServerReadsSInv
<1> QED BY <1>1 DEF Messages!Deliver, Heard, Asked

LEMMA ClientReadIsDelivery ==
    ASSUME SInv, NEW k \in Nat, 0 < k, ReadSome("client", k)
    PROVE  Messages!Deliver("server", "client") \/ UNCHANGED <<sent, received, result>>
<1>1. \/ UNCHANGED <<sent, received, result>>
      \/ /\ Returned < Answered /\ result = "ok" /\ result' = result /\ sent' = sent
         /\ received' = [received EXCEPT !["client"] = Append(@, sent["server"][Returned + 1])]
  BY ClientReadsSInv
<1> QED BY <1>1 DEF Messages!Deliver, Returned, Answered

LEMMA ReadEndIsFailure ==
    ASSUME ReadEnds("client")
    PROVE  Messages!Fail
<1>1. result' # "ok"
  BY EndFacts DEF ReadEnds, read_error
<1>2. sent' = sent /\ received' = received
  BY DEF ReadEnds
<1> QED BY <1>1, <1>2 DEF Messages!Fail

(* Every step keeps the invariant, and is one of the channel. *)
LEMMA SocketStep ==
    ASSUME SInv, [Next]_vars
    PROVE  SInv' /\ [Messages!Next]_(Messages!channel)
<1> USE EndFacts
<1>0. ASSUME UNCHANGED <<sent, received, result>> PROVE UNCHANGED Messages!channel
  BY <1>0 DEF Messages!channel
<1>1. ASSUME NEW m \in Requests, Ask(m)
      PROVE  SInv' /\ [Messages!Next]_(Messages!channel)
  BY <1>1, AskSInv, AskIsAsk DEF Messages!Next
<1>2. ASSUME NEW e \in Ends, NEW k \in 1..Capacity, WriteSome(e, k)
      PROVE  SInv' /\ [Messages!Next]_(Messages!channel)
  <2>1. UNCHANGED <<sent, received, result>> /\ k \in Nat
    BY <1>2 DEF WriteSome
  <2>2. SInv'
    BY <1>2, <2>1, ClientWritesSInv, ServerWritesSInv
  <2> QED BY <1>0, <2>1, <2>2
<1>3. ASSUME NEW e \in Ends, NEW k \in 1..Capacity, ReadSome(e, k)
      PROVE  SInv' /\ [Messages!Next]_(Messages!channel)
  <2>1. k \in Nat /\ 0 < k
    OBVIOUS
  <2>2. SInv'
    BY <1>3, <2>1, ClientReadsSInv, ServerReadsSInv
  <2>3. \/ Messages!Deliver("client", "server") \/ Messages!Deliver("server", "client")
        \/ UNCHANGED <<sent, received, result>>
    BY <1>3, <2>1, ClientReadIsDelivery, ServerReadIsDelivery
  <2> QED BY <1>0, <2>2, <2>3 DEF Messages!Next
<1>4. ASSUME NEW e \in Ends, ReadEnds(e)
      PROVE  SInv' /\ [Messages!Next]_(Messages!channel)
  <2>1. CASE e = "client"
    BY <1>4, <2>1, ReadEndsClientSInv, ReadEndIsFailure DEF Messages!Next
  <2>2. CASE e = "server"
    <3>1. UNCHANGED <<sent, received, result>>
      BY <1>4, <2>2 DEF ReadEnds
    <3> QED BY <1>0, <1>4, <2>2, <3>1, ReadEndsServerSInv
  <2> QED BY <2>1, <2>2
<1>5. ASSUME NEW e \in Ends, Stops(e), UNCHANGED <<sent, received, complaint, result>>
      PROVE  SInv' /\ [Messages!Next]_(Messages!channel)
  <2>1. UNCHANGED <<sent, received, result>>
    BY <1>5
  <2> QED BY <1>0, <1>5, <2>1, StopsSInv
<1>6. ASSUME ServerWriteFails PROVE SInv' /\ [Messages!Next]_(Messages!channel)
  <2>1. UNCHANGED <<sent, received, result>>
    BY <1>6 DEF ServerWriteFails
  <2> QED BY <1>0, <1>6, <2>1, ServerWriteFailsSInv
<1>7. ASSUME Dispatch PROVE SInv' /\ [Messages!Next]_(Messages!channel)
  <2>1. UNCHANGED <<sent, received, result>>
    BY <1>7 DEF Dispatch
  <2> QED BY <1>0, <1>7, <2>1, DispatchSInv
<1>8. ASSUME NEW q \in Requests, NEW r \in Responses(q), Answer(r)
      PROVE  SInv' /\ [Messages!Next]_(Messages!channel)
  BY <1>8, AnswerSInv, AnswerIsAnswer DEF Messages!Next
<1>9. ASSUME UNCHANGED vars PROVE SInv' /\ [Messages!Next]_(Messages!channel)
  <2>1. UNCHANGED <<sent, received, result>>
    BY <1>9 DEF vars
  <2> QED BY <1>0, <1>9, <2>1, StutterSInv
<1>10. ASSUME NEW e \in Ends, Transfer(e)
       PROVE  SInv' /\ [Messages!Next]_(Messages!channel)
  <2>1. CASE ClientWriteFails
    BY <1>5, <2>1 DEF ClientWriteFails
  <2> QED BY <1>2, <1>3, <1>4, <1>6, <1>7, <1>10, <2>1 DEF Transfer
<1>11. ASSUME Handle PROVE SInv' /\ [Messages!Next]_(Messages!channel)
  <2>1. CASE Subscribe \/ Broadcast
    <3>1. UNCHANGED <<sent, received, result>>
      BY <2>1 DEF Subscribe, Broadcast
    <3> QED BY <1>0, <2>1, <3>1, WaitingSInv
  <2> QED BY <1>8, <1>11, <2>1 DEF Handle
<1>12. ASSUME NEW e \in Ends, Leave(e)
       PROVE  SInv' /\ [Messages!Next]_(Messages!channel)
  BY <1>5, <1>12 DEF Leave
<1> QED BY <1>1, <1>9, <1>10, <1>11, <1>12 DEF Next

(* What keeps the two ends in step, whoever vanishes when and however the  *)
(* bytes are cut: requests and answers alternate, what an end has read of  *)
(* a message and what is on its way to it are the next bytes of the frame  *)
(* the other end is writing, and nothing is on its way between messages    *)
(* (gnl_socket_service_get_request and send_response with readn, writen).  *)
THEOREM ConnectionInvariant == Spec => []SInv
<1>1. Init => SInv
  BY InitSInv
<1>2. SInv /\ [Next]_vars => SInv'
  BY SocketStep
<1> QED BY <1>1, <1>2, PTL DEF Spec

(* The server gives up a socket without closing it only when the client    *)
(* went away in the middle of an exchange (handle_error fails).            *)
THEOREM AbandonsInterrupted == Spec => []AbandonsOnlyInterrupted
<1>1. SInv => AbandonsOnlyInterrupted
  BY DEF SInv, Troubles, AbandonsOnlyInterrupted, Returned, Asked
<1> QED BY <1>1, ConnectionInvariant, PTL

(* The connection implements a channel of messages: each end decodes       *)
(* exactly the messages that the other encoded, in their order, for every  *)
(* width of the fields, capacity of the socket and set of messages.        *)
THEOREM StreamImplementsMessages == Spec => StreamIsMessages
<1>1. Init => Messages!Init
  <2>1. ASSUME Init PROVE Messages!Init
    BY <2>1 DEF Init, Nothing, Ends, Messages!Init
  <2> QED BY <2>1
<1>2. SInv /\ [Next]_vars => [Messages!Next]_(Messages!channel)
  BY SocketStep
<1> QED BY <1>1, <1>2, ConnectionInvariant, PTL DEF Spec, StreamIsMessages, Messages!Spec
=============================================================================
