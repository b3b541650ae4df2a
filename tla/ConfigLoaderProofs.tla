------------------------- MODULE ConfigLoaderProofs -------------------------
(***************************************************************************)
(* ConfigLoader, for files of any length and any lines.                    *)
(***************************************************************************)
EXTENDS ConfigLoader, FiniteSetTheorems, SequenceTheorems,
        WellFoundedInduction, TLAPS

(* What the author means by the words of a value. *)
Written(e) == IF e.quoted THEN <<QUOTE>> \o e.value \o <<QUOTE>> ELSE e.value

-----------------------------------------------------------------------------
(* Numbers and sorted sequences.                                           *)

(* A set of numbers has a smallest one. *)
LEMMA MinExists ==
    ASSUME NEW S \in SUBSET Nat, S # {}
    PROVE  \E x \in S : \A y \in S : x <= y
<1>1. PICK x \in S : \A y \in S : ~ (<<y, x>> \in OpToRel(<, Nat))
  BY NatLessThanWellFounded, WFMin
<1>2. \A y \in S : ~ (y < x)
  BY <1>1 DEF OpToRel
<1> QED
  BY <1>2

(* A set of numbers up to n has a largest one. *)
LEMMA MaxExists ==
    ASSUME NEW n \in Nat, NEW S \in SUBSET (0..n), S # {}
    PROVE  \E x \in S : \A y \in S : x >= y
<1> DEFINE T == {n - x : x \in S}
<1>1. T \in SUBSET Nat /\ T # {}
  <2>1. \A x \in S : n - x \in Nat
    OBVIOUS
  <2>2. PICK x \in S : TRUE
    OBVIOUS
  <2>3. n - x \in T
    BY <2>2
  <2> QED
    BY <2>1, <2>3
<1>2. PICK m \in T : \A k \in T : m <= k
  BY <1>1, MinExists
<1>3. PICK x \in S : m = n - x
  OBVIOUS
<1>4. \A y \in S : x >= y
  BY <1>2, <1>3
<1> QED
  BY <1>4

LEMMA MaxIs ==
    ASSUME NEW S \in SUBSET Nat, NEW x \in S, \A y \in S : x >= y
    PROVE  Max(S) = x
<1>1. Max(S) \in S /\ \A y \in S : Max(S) >= y
  BY DEF Max
<1>2. Max(S) \in Nat /\ x \in Nat /\ Max(S) >= x /\ x >= Max(S)
  BY <1>1
<1> QED
  BY <1>2

LEMMA MinIs ==
    ASSUME NEW S \in SUBSET Nat, NEW x \in S, \A y \in S : x <= y
    PROVE  Min(S) = x
<1>1. Min(S) \in S /\ \A y \in S : Min(S) <= y
  BY DEF Min
<1>2. Min(S) \in Nat /\ x \in Nat /\ Min(S) <= x /\ x <= Min(S)
  BY <1>1
<1> QED
  BY <1>2

(* s lists the numbers of S in ascending order. *)
Lists(s, n, S) ==
    /\ s \in [1..n -> S]
    /\ \A x \in S : \E i \in 1..n : s[i] = x
    /\ \A i, j \in 1..n : i < j => s[i] < s[j]

LEMMA ListsCardinality ==
    ASSUME NEW S \in SUBSET Nat, NEW n \in Nat, NEW s, Lists(s, n, S)
    PROVE  IsFiniteSet(S) /\ Cardinality(S) = n
<1>1. \A i, j \in 1..n : s[i] = s[j] => i = j
  <2> SUFFICES ASSUME NEW i \in 1..n, NEW j \in 1..n, s[i] = s[j], i # j PROVE FALSE
    OBVIOUS
  <2>1. i < j \/ j < i
    OBVIOUS
  <2>2. s[i] \in Nat /\ s[j] \in Nat
    BY DEF Lists
  <2> QED
    BY <2>1, <2>2 DEF Lists
<1>2. s \in Bijection(1..n, S)
  BY <1>1 DEF Lists, Bijection, Injection, Surjection, IsInjective
<1>3. IsFiniteSet(1..n) /\ Cardinality(1..n) = n
  BY FS_Interval
<1> QED
  BY <1>2, <1>3, FS_Bijection DEF ExistsBijection

(* There is one such sequence. *)
LEMMA ListsUnique ==
    ASSUME NEW S \in SUBSET Nat, NEW n \in Nat, NEW s, NEW t, Lists(s, n, S), Lists(t, n, S)
    PROVE  s = t
<1> DEFINE D == {i \in 1..n : s[i] # t[i]}
<1>1. ASSUME D # {} PROVE FALSE
  <2>1. D \in SUBSET Nat
    OBVIOUS
  <2>2. PICK i \in D : \A k \in D : i <= k
    BY <1>1, <2>1, MinExists
  <2>3. i \in 1..n /\ s[i] # t[i] /\ \A k \in 1..n : k < i => s[k] = t[k]
    BY <2>2
  <2>4. s[i] \in S /\ t[i] \in S /\ s[i] \in Nat /\ t[i] \in Nat
    BY <2>3 DEF Lists
  <2>5. PICK k \in 1..n : t[k] = s[i]
    BY <2>4 DEF Lists
  <2>6. PICK l \in 1..n : s[l] = t[i]
    BY <2>4 DEF Lists
  <2>7. s[i] > t[i]
    <3>1. ~(k < i)
      BY <2>3, <2>4, <2>5 DEF Lists
    <3>2. i < k
      BY <2>3, <2>5, <3>1
    <3> QED
      BY <2>3, <2>5, <3>2 DEF Lists
  <2>8. t[i] > s[i]
    <3>1. ~(l < i)
      BY <2>3, <2>4, <2>6 DEF Lists
    <3>2. i < l
      BY <2>3, <2>6, <3>1
    <3> QED
      BY <2>3, <2>6, <3>2 DEF Lists
  <2> QED
    BY <2>4, <2>7, <2>8
<1>2. \A i \in 1..n : s[i] = t[i]
  BY <1>1
<1> QED
  BY <1>2 DEF Lists

(* A sequence that lists S is what Ascending chooses. *)
LEMMA AscendingIs ==
    ASSUME NEW S \in SUBSET Nat, NEW n \in Nat, NEW s, Lists(s, n, S)
    PROVE  Ascending(S) = s
<1>1. IsFiniteSet(S) /\ Cardinality(S) = n
  BY ListsCardinality
<1> DEFINE a == Ascending(S)
<1>2. a \in [1..n -> S] /\ \A i, j \in 1..n : i < j => a[i] < a[j]
  <2>1. \E u \in [1..Cardinality(S) -> S] :
           \A i, j \in 1..Cardinality(S) : i < j => u[i] < u[j]
    BY <1>1 DEF Lists
  <2> QED
    BY <1>1, <2>1 DEF Ascending
<1> HIDE DEF a
<1>3. \A i, j \in 1..n : a[i] = a[j] => i = j
  <2> SUFFICES ASSUME NEW i \in 1..n, NEW j \in 1..n, a[i] = a[j], i # j PROVE FALSE
    OBVIOUS
  <2>1. i < j \/ j < i
    OBVIOUS
  <2>2. a[i] \in Nat /\ a[j] \in Nat
    BY <1>2
  <2> QED
    BY <1>2, <2>1, <2>2
<1>4. a \in Injection(1..n, S)
  BY <1>2, <1>3 DEF Injection, IsInjective
<1>5. Cardinality(1..n) = n
  BY FS_Interval
<1>6. a \in Surjection(1..n, S)
  BY <1>1, <1>4, <1>5, FS_Injection
<1>7. Lists(a, n, S)
  BY <1>2, <1>6 DEF Lists, Surjection
<1> QED
  BY <1>7, ListsUnique DEF a

(* A list with one larger number at its end. *)
LEMMA ListsAppend ==
    ASSUME NEW T \in SUBSET Nat, NEW m \in Nat, NEW s, Lists(s, m, T),
           NEW x \in Nat, \A y \in T : y < x
    PROVE  Lists([i \in 1..(m + 1) |-> IF i <= m THEN s[i] ELSE x], m + 1, T \union {x})
<1> DEFINE t == [i \in 1..(m + 1) |-> IF i <= m THEN s[i] ELSE x]
<1>1. \A i \in 1..m : i \in 1..(m + 1) /\ t[i] = s[i] /\ s[i] \in T
  BY DEF Lists
<1>2. t[m + 1] = x /\ m + 1 \in 1..(m + 1)
  OBVIOUS
<1>3. \A i \in 1..(m + 1) : i \in 1..m \/ i = m + 1
  OBVIOUS
<1>4. t \in [1..(m + 1) -> T \union {x}]
  BY <1>1, <1>2, <1>3
<1> HIDE DEF t
<1>5. \A y \in T \union {x} : \E i \in 1..(m + 1) : t[i] = y
  BY <1>1, <1>2 DEF Lists
<1>6. ASSUME NEW i \in 1..(m + 1), NEW j \in 1..(m + 1), i < j PROVE t[i] < t[j]
  <2>1. i \in 1..m
    BY <1>6
  <2>2. CASE j \in 1..m
    BY <1>1, <1>6, <2>1, <2>2 DEF Lists
  <2>3. CASE j = m + 1
    BY <1>1, <1>2, <2>1, <2>3
  <2> QED
    BY <1>3, <2>2, <2>3
<1>7. Lists(t, m + 1, T \union {x})
  BY <1>4, <1>5, <1>6 DEF Lists
<1> QED
  BY <1>7 DEF t

(* Every set of lines has such a list. *)
LEMMA ListsExists ==
    ASSUME NEW n \in Nat, NEW S \in SUBSET (1..n)
    PROVE  \E m \in Nat : \E s : Lists(s, m, S)
<1> DEFINE Listable(T) == \E m \in Nat : \E s : Lists(s, m, T)
           Bad == {k \in Nat : \E T \in SUBSET (1..k) : ~Listable(T)}
<1>1. ASSUME Bad # {} PROVE FALSE
  <2>1. PICK k \in Bad : \A l \in Bad : k <= l
    BY <1>1, MinExists
  <2>2. PICK T \in SUBSET (1..k) : ~Listable(T)
    BY <2>1
  <2>3. k \in Nat
    OBVIOUS
  <2>4. T # {}
    <3>1. Lists([i \in 1..0 |-> 0], 0, {})
      BY DEF Lists
    <3> QED
      BY <2>2, <3>1
  <2>5. k # 0
    <3>1. PICK x \in T : TRUE
      BY <2>4
    <3>2. x \in 1..k
      BY <3>1
    <3> QED
      BY <2>3, <3>2
  <2>6. k - 1 \in Nat /\ k - 1 \notin Bad
    BY <2>1, <2>3, <2>5
  <2> DEFINE R == T \ {k}
  <2>7. R \in SUBSET (1..(k - 1)) /\ R \in SUBSET Nat /\ \A y \in R : y < k
    BY <2>3, <2>5
  <2>8. Listable(R)
    BY <2>6, <2>7
  <2>9. k \in T
    BY <2>2, <2>8
  <2>10. PICK m \in Nat : \E s : Lists(s, m, R)
    BY <2>8
  <2>11. PICK s : Lists(s, m, R)
    BY <2>10
  <2>12. R \union {k} = T
    BY <2>9
  <2> HIDE DEF R
  <2>13. Lists([i \in 1..(m + 1) |-> IF i <= m THEN s[i] ELSE k], m + 1, R \union {k})
    BY <2>3, <2>7, <2>11, ListsAppend
  <2>14. Listable(T)
    <3> DEFINE t == [i \in 1..(m + 1) |-> IF i <= m THEN s[i] ELSE k]
    <3>1. Lists(t, m + 1, R \union {k})
      BY <2>13
    <3> HIDE DEF t
    <3>2. Lists(t, m + 1, T) /\ m + 1 \in Nat
      BY <2>12, <3>1
    <3> QED
      BY <3>2
  <2> QED
    BY <2>2, <2>14
<1>2. n \notin Bad
  BY <1>1
<1> QED
  BY <1>2

(* What Ascending makes of a set of lines. *)
LEMMA AscendingLists ==
    ASSUME NEW n \in Nat, NEW S \in SUBSET (1..n)
    PROVE  /\ IsFiniteSet(S) /\ Cardinality(S) \in Nat
           /\ Lists(Ascending(S), Cardinality(S), S)
<1>1. PICK m \in Nat : \E s : Lists(s, m, S)
  BY ListsExists
<1>2. PICK s : Lists(s, m, S)
  BY <1>1
<1> QED
  BY <1>2, ListsCardinality, AscendingIs

-----------------------------------------------------------------------------
(* Lines: what the loader takes apart is what the author put together.     *)

Words == STRING \union {DASH, COLON, QUOTE, HASH, "comment"}

Hashless(s) == \A i \in DOMAIN s : s[i] # HASH

LEMMA EntryFacts ==
    ASSUME NEW e \in Entries
    PROVE  /\ e.kind \in {"map", "scalar", "item", "text", "blank"} /\ e.indent \in Nat
           /\ e.quoted \in BOOLEAN /\ e.comment \in BOOLEAN
           /\ e.key \in Words /\ e.value \in Seq(Words)
           /\ e.key \notin {DASH, COLON, QUOTE, HASH}
           /\ e.kind \in {"scalar", "item"} => e.quoted \/ e.value # <<>>
           /\ \A i \in DOMAIN e.value : e.value[i] # QUOTE
           /\ ~e.quoted => \A i \in DOMAIN e.value : e.value[i] # HASH
<1>1. e.key \in Words /\ e.value \in Seq(Words)
  <2>1. e.key \in STRING /\ e.value \in Seq(STRING)
    BY ConfigAssumption
  <2>2. \A v \in Seq(STRING) : v \in Seq(Words)
    BY DEF Words
  <2> QED
    BY <2>1, <2>2 DEF Words
<1> QED
  BY <1>1, ConfigAssumption

LEMMA Marks ==
    /\ {DASH, COLON, QUOTE, HASH, "comment"} \subseteq Words
    /\ DASH # COLON /\ DASH # HASH /\ COLON # HASH /\ QUOTE # HASH
BY DEF Words, DASH, COLON, QUOTE, HASH

(* b is the line t up to its first HASH. *)
CutsAt(t, b) ==
    /\ Len(b) <= Len(t) /\ \A i \in 1..Len(b) : t[i] = b[i] /\ b[i] # HASH
    /\ Len(b) < Len(t) => t[Len(b) + 1] = HASH

LEMMA StripCuts ==
    ASSUME NEW t \in Seq(Words)
    PROVE  StripInlineComment(t) \in Seq(Words) /\ CutsAt(t, StripInlineComment(t))
<1> DEFINE P == Positions(t, HASH)
<1>1. P \in SUBSET Nat /\ P \subseteq 1..Len(t) /\ \A i \in 1..Len(t) : i \in P <=> t[i] = HASH
  BY DEF Positions
<1>2. CASE P = {}
  BY <1>1, <1>2 DEF StripInlineComment, CutsAt
<1>3. CASE P # {}
  <2>1. PICK x \in P : \A y \in P : x <= y
    BY <1>1, <1>3, MinExists
  <2>2. Min(P) = x /\ x \in 1..Len(t) /\ t[x] = HASH
    BY <1>1, <2>1, MinIs
  <2> DEFINE b == SubSeq(t, 1, x - 1)
  <2>3. b \in Seq(Words) /\ Len(b) = x - 1 /\ \A i \in 1..(x - 1) : b[i] = t[i]
    BY <2>2
  <2>4. StripInlineComment(t) = b
    BY <1>3, <2>2 DEF StripInlineComment
  <2> HIDE DEF b, P
  <2>5. \A i \in 1..(x - 1) : t[i] # HASH
    BY <1>1, <2>1, <2>2
  <2> QED
    BY <2>2, <2>3, <2>4, <2>5 DEF CutsAt
<1> QED
  BY <1>2, <1>3

(* There is one such part. *)
LEMMA StripIs ==
    ASSUME NEW t \in Seq(Words), NEW b \in Seq(Words), CutsAt(t, b)
    PROVE  StripInlineComment(t) = b
<1> DEFINE c == StripInlineComment(t)
<1>1. c \in Seq(Words) /\ CutsAt(t, c)
  BY StripCuts
<1> HIDE DEF c
<1>2. Len(b) \in Nat /\ Len(c) \in Nat /\ Len(t) \in Nat
  BY <1>1
<1>3. ~(Len(b) < Len(c))
  BY <1>1, <1>2 DEF CutsAt
<1>4. ~(Len(c) < Len(b))
  BY <1>1, <1>2 DEF CutsAt
<1>5. Len(b) = Len(c)
  BY <1>2, <1>3, <1>4
<1>6. \A i \in 1..Len(b) : b[i] = c[i]
  BY <1>1, <1>5 DEF CutsAt
<1>7. b = c
  BY <1>1, <1>5, <1>6
<1> QED
  BY <1>7 DEF c

LEMMA WrittenFacts ==
    ASSUME NEW e \in Entries
    PROVE  /\ Written(e) \in Seq(Words)
           /\ Unquote(Written(e)) = e.value
           /\ Whole(e.value) => Hashless(Written(e))
           /\ e.kind \in {"scalar", "item"} => Len(Written(e)) > 0 /\ Written(e)[1] # HASH
<1> USE Marks, EntryFacts
<1> DEFINE v == e.value
<1>1. v \in Seq(Words) /\ \A i \in DOMAIN v : v[i] # QUOTE
  OBVIOUS
<1>2. CASE e.quoted
  <2> DEFINE q == <<QUOTE>> \o v \o <<QUOTE>>
  <2> HIDE DEF v
  <2>1. /\ q \in Seq(Words) /\ Len(q) = Len(v) + 2 /\ q[1] = QUOTE /\ q[Len(v) + 2] = QUOTE
        /\ \A i \in 1..Len(q) : i = 1 \/ i = Len(q) \/ (i - 1 \in 1..Len(v) /\ q[i] = v[i - 1])
    BY <1>1
  <2>2. SubSeq(q, 2, Len(q) - 1) = v
    BY <1>1
  <2> HIDE DEF q
  <2>3. Whole(v) => Hashless(q)
    BY <1>1, <2>1 DEF Hashless, Whole, Positions
  <2>4. Unquote(q) = v
    BY <1>1, <2>1, <2>2 DEF Unquote, Last
  <2> QED
    BY <1>1, <1>2, <2>1, <2>3, <2>4 DEF Written, q, v
<1>3. CASE ~e.quoted
  <2>0. Hashless(v) /\ (e.kind \in {"scalar", "item"} => v # <<>>)
    BY <1>3 DEF Hashless
  <2> HIDE DEF v
  <2>1. Unquote(v) = v
    BY <1>1 DEF Unquote
  <2>2. v # <<>> => Len(v) > 0 /\ v[1] # HASH
    BY <1>1, <2>0 DEF Hashless
  <2> QED
    BY <1>1, <1>3, <2>0, <2>1, <2>2 DEF Written, v
<1> QED
  BY <1>2, <1>3

(* What is left of a value, and what the map keeps of it. *)
Cut(e) == StripInlineComment(Written(e))
Stored(e) == Unquote(Cut(e))

LEMMA CutFacts ==
    ASSUME NEW e \in Entries
    PROVE  /\ Cut(e) \in Seq(Words) /\ CutsAt(Written(e), Cut(e))
           /\ e.kind \in {"scalar", "item"} => Len(Cut(e)) > 0
           /\ Whole(e.value) => Stored(e) = e.value
<1> DEFINE w == Written(e)
<1>1. /\ w \in Seq(Words) /\ Unquote(w) = e.value /\ (Whole(e.value) => Hashless(w))
      /\ e.kind \in {"scalar", "item"} => Len(w) > 0 /\ w[1] # HASH
  BY WrittenFacts
<1> HIDE DEF w
<1>2. Cut(e) = StripInlineComment(w)
  BY DEF Cut, w
<1>3. Cut(e) \in Seq(Words) /\ CutsAt(w, Cut(e))
  BY <1>1, <1>2, StripCuts
<1>4. e.kind \in {"scalar", "item"} => Len(Cut(e)) > 0
  BY <1>1, <1>3 DEF CutsAt
<1>5. Hashless(w) => Cut(e) = w
  <2>1. Hashless(w) => CutsAt(w, w)
    BY <1>1 DEF Hashless, CutsAt
  <2> QED
    BY <1>1, <1>2, <2>1, StripIs
<1> QED
  BY <1>1, <1>3, <1>4, <1>5 DEF Stored, w

(* The line of an entry, and what is left of it. *)
Line(e) ==
    CASE e.kind = "map" -> <<e.key, COLON>>
      [] e.kind = "scalar" -> <<e.key, COLON>> \o Written(e)
      [] e.kind = "item" -> <<DASH>> \o Written(e)
      [] e.kind = "text" -> <<e.key>>
      [] e.kind = "blank" -> <<>>

Body(e) ==
    CASE e.kind = "map" -> <<e.key, COLON>>
      [] e.kind = "scalar" -> <<e.key, COLON>> \o Cut(e)
      [] e.kind = "item" -> <<DASH>> \o Cut(e)
      [] e.kind = "text" -> <<e.key>>
      [] e.kind = "blank" -> <<>>

(* The marks before a value, and a comment behind it, leave the cut where  *)
(* it is.                                                                  *)
LEMMA CutBehind ==
    ASSUME NEW a \in Seq(Words), Hashless(a), NEW w \in Seq(Words), NEW c \in Seq(Words),
           CutsAt(w, c)
    PROVE  a \o w \in Seq(Words) /\ a \o c \in Seq(Words) /\ CutsAt(a \o w, a \o c)
<1> DEFINE s == a \o w
           b == a \o c
<1>1. /\ s \in Seq(Words) /\ Len(s) = Len(a) + Len(w)
      /\ \A i \in 1..(Len(a) + Len(w)) : s[i] = IF i <= Len(a) THEN a[i] ELSE w[i - Len(a)]
  BY ConcatProperties
<1>2. /\ b \in Seq(Words) /\ Len(b) = Len(a) + Len(c)
      /\ \A i \in 1..(Len(a) + Len(c)) : b[i] = IF i <= Len(a) THEN a[i] ELSE c[i - Len(a)]
  BY ConcatProperties
<1>3. Len(a) \in Nat /\ Len(w) \in Nat /\ Len(c) \in Nat /\ Len(c) <= Len(w)
  BY DEF CutsAt
<1> HIDE DEF s, b
<1>4. ASSUME NEW i \in 1..Len(b) PROVE s[i] = b[i] /\ b[i] # HASH
  <2>1. CASE i <= Len(a)
    <3>1. b[i] = a[i]
      BY <1>2, <1>3, <2>1
    <3>2. i \in 1..(Len(a) + Len(w))
      BY <1>2, <1>3
    <3>3. s[i] = a[i]
      BY <1>1, <2>1, <3>2
    <3>4. a[i] # HASH
      BY <1>2, <1>3, <2>1 DEF Hashless
    <3> QED
      BY <3>1, <3>3, <3>4
  <2>2. CASE ~(i <= Len(a))
    <3>1. PICK j \in 1..Len(c) : j = i - Len(a)
      BY <1>2, <1>3, <2>2
    <3>2. b[i] = c[j]
      BY <1>2, <1>3, <2>2, <3>1
    <3>3. i \in 1..(Len(a) + Len(w))
      BY <1>2, <1>3
    <3>4. s[i] = w[j]
      BY <1>1, <2>2, <3>1, <3>3
    <3>5. w[j] = c[j] /\ c[j] # HASH
      BY <3>1 DEF CutsAt
    <3> QED
      BY <3>2, <3>4, <3>5
  <2> QED
    BY <2>1, <2>2
<1>5. Len(b) < Len(s) => s[Len(b) + 1] = HASH
  <2> SUFFICES ASSUME Len(b) < Len(s) PROVE s[Len(b) + 1] = HASH
    OBVIOUS
  <2>1. Len(c) < Len(w) /\ Len(b) + 1 - Len(a) = Len(c) + 1 /\ ~(Len(b) + 1 <= Len(a))
    BY <1>1, <1>2, <1>3
  <2>2. s[Len(b) + 1] = w[Len(c) + 1]
    BY <1>1, <1>2, <1>3, <2>1
  <2> QED
    BY <2>1, <2>2 DEF CutsAt
<1>6. CutsAt(s, b)
  BY <1>1, <1>2, <1>3, <1>4, <1>5 DEF CutsAt
<1> QED
  BY <1>1, <1>2, <1>6 DEF s, b

LEMMA CutBefore ==
    ASSUME NEW s \in Seq(Words), NEW b \in Seq(Words), CutsAt(s, b)
    PROVE  LET t == s \o <<HASH, "comment", COLON>> IN t \in Seq(Words) /\ CutsAt(t, b)
<1> USE Marks
<1> DEFINE c == <<HASH, "comment", COLON>>
           t == s \o c
<1>1. c \in Seq(Words) /\ Len(c) = 3 /\ c[1] = HASH
  OBVIOUS
<1> HIDE DEF c
<1>2. /\ t \in Seq(Words) /\ Len(t) = Len(s) + 3
      /\ \A i \in 1..Len(s) : t[i] = s[i]
      /\ t[Len(s) + 1] = HASH
  <2>1. /\ Len(t) = Len(s) + Len(c)
        /\ \A i \in 1..Len(s) + Len(c) : t[i] = IF i <= Len(s) THEN s[i] ELSE c[i - Len(s)]
    BY <1>1, ConcatProperties
  <2>2. Len(s) + 1 - Len(s) = 1 /\ Len(s) \in Nat
    OBVIOUS
  <2>3. t \in Seq(Words)
    BY <1>1
  <2> QED
    BY <1>1, <2>1, <2>2, <2>3
<1> HIDE DEF t
<1>3. Len(s) \in Nat /\ Len(b) \in Nat
  OBVIOUS
<1>4. CutsAt(t, b)
  BY <1>2, <1>3 DEF CutsAt
<1> QED
  BY <1>2, <1>4 DEF t, c

LEMMA ContentIs ==
    ASSUME NEW e \in Entries
    PROVE  StripInlineComment(Text(e)) = Body(e)
<1>1. Line(e) \in Seq(Words) /\ Body(e) \in Seq(Words) /\ CutsAt(Line(e), Body(e))
  <2> DEFINE w == Written(e)
             c == Cut(e)
  <2>1. w \in Seq(Words) /\ c \in Seq(Words) /\ CutsAt(w, c)
    BY WrittenFacts, CutFacts
  <2> HIDE DEF w, c
  <2>2. <<e.key, COLON>> \in Seq(Words) /\ Hashless(<<e.key, COLON>>)
    BY Marks, EntryFacts DEF Hashless
  <2>3. <<DASH>> \in Seq(Words) /\ Hashless(<<DASH>>)
    BY Marks DEF Hashless
  <2>4. <<e.key>> \in Seq(Words) /\ CutsAt(<<e.key>>, <<e.key>>)
    BY Marks, EntryFacts DEF CutsAt
  <2>5. <<>> \in Seq(Words) /\ CutsAt(<<>>, <<>>)
    BY DEF CutsAt
  <2>6. CutsAt(<<e.key, COLON>>, <<e.key, COLON>>)
    BY <2>2 DEF Hashless, CutsAt
  <2>7. CASE e.kind = "map"
    BY <2>2, <2>6, <2>7 DEF Line, Body
  <2>8. CASE e.kind = "scalar"
    <3>1. Line(e) = <<e.key, COLON>> \o w /\ Body(e) = <<e.key, COLON>> \o c
      BY <2>8 DEF Line, Body, w, c
    <3>2. PICK a \in Seq(Words) : a = <<e.key, COLON>>
      BY <2>2
    <3>3. Hashless(a)
      BY <2>2, <3>2
    <3>4. a \o w \in Seq(Words) /\ a \o c \in Seq(Words) /\ CutsAt(a \o w, a \o c)
      BY <2>1, <3>3, CutBehind
    <3> QED
      BY <3>1, <3>2, <3>4
  <2>9. CASE e.kind = "item"
    <3>1. Line(e) = <<DASH>> \o w /\ Body(e) = <<DASH>> \o c
      BY <2>9 DEF Line, Body, w, c
    <3>2. PICK a \in Seq(Words) : a = <<DASH>>
      BY <2>3
    <3>3. Hashless(a)
      BY <2>3, <3>2
    <3>4. a \o w \in Seq(Words) /\ a \o c \in Seq(Words) /\ CutsAt(a \o w, a \o c)
      BY <2>1, <3>3, CutBehind
    <3> QED
      BY <3>1, <3>2, <3>4
  <2>10. CASE e.kind = "text"
    BY <2>4, <2>10 DEF Line, Body
  <2>11. CASE e.kind = "blank"
    BY <2>5, <2>11 DEF Line, Body
  <2> QED
    BY <2>7, <2>8, <2>9, <2>10, <2>11, EntryFacts
<1>2. Text(e) = IF e.comment THEN Line(e) \o <<HASH, "comment", COLON>> ELSE Line(e)
  BY DEF Text, Line, Written
<1>3. Text(e) \in Seq(Words) /\ CutsAt(Text(e), Body(e))
  BY <1>1, <1>2, CutBefore
<1> QED
  BY <1>1, <1>3, StripIs

(* What the loader finds in a keyed line. *)
LEMMA KeyedLine ==
    ASSUME NEW e \in Entries, NEW w \in Seq(Words)
    PROVE  LET c == <<e.key, COLON>> \o w IN
           /\ c # <<>> /\ ~IsItem(c) /\ IsKeyed(c) /\ Key(c) = e.key /\ Rest(c) = w
<1> USE Marks, EntryFacts
<1> DEFINE c == <<e.key, COLON>> \o w
<1>1. /\ c \in Seq(Words) /\ Len(c) = Len(w) + 2 /\ c[1] = e.key /\ c[2] = COLON
      /\ SubSeq(c, 3, Len(c)) = w /\ Len(w) \in Nat
  OBVIOUS
<1> HIDE DEF c
<1>2. c # <<>> /\ Head(c) = e.key
  BY <1>1
<1>3. ~IsItem(c)
  BY <1>2 DEF IsItem
<1>4. Positions(c, COLON) \in SUBSET Nat /\ 2 \in Positions(c, COLON)
  BY <1>1 DEF Positions
<1>5. \A y \in Positions(c, COLON) : 2 <= y
  BY <1>1 DEF Positions
<1>6. ColonAt(c) = 2
  BY <1>4, <1>5, MinIs DEF ColonAt
<1>7. Rest(c) = w /\ Key(c) = e.key
  BY <1>1, <1>6 DEF Rest, Key
<1>8. IsKeyed(c)
  BY <1>3, <1>4, <1>6 DEF IsKeyed
<1> QED
  BY <1>2, <1>3, <1>7, <1>8 DEF c

(* Which line each kind of entry is. *)
LEMMA LineKinds ==
    ASSUME NEW e \in Entries
    PROVE  LET c == StripInlineComment(Text(e)) IN
           /\ c = <<>> <=> e.kind = "blank"
           /\ IsItem(c) <=> e.kind = "item"
           /\ IsKeyed(c) <=> e.kind \in {"map", "scalar"}
           /\ e.kind = "item" => Unquote(Tail(c)) = Stored(e)
           /\ e.kind \in {"map", "scalar"} => Key(c) = e.key
           /\ e.kind \in {"map", "scalar"} => (Rest(c) = <<>> <=> e.kind = "map")
           /\ e.kind = "scalar" => Unquote(Rest(c)) = Stored(e)
<1> USE Marks, EntryFacts
<1> DEFINE c == StripInlineComment(Text(e))
           w == Cut(e)
<1>1. c = Body(e)
  BY ContentIs
<1>2. w \in Seq(Words) /\ Unquote(w) = Stored(e) /\ (e.kind \in {"scalar", "item"} => Len(w) > 0)
  BY CutFacts DEF Stored
<1> HIDE DEF c, w
<1>3. CASE e.kind = "map"
  <2>1. c = <<e.key, COLON>> \o <<>>
    BY <1>1, <1>3 DEF Body
  <2>2. c # <<>> /\ ~IsItem(c) /\ IsKeyed(c) /\ Key(c) = e.key /\ Rest(c) = <<>>
    <3>1. <<>> \in Seq(Words)
      OBVIOUS
    <3> HIDE Marks, EntryFacts
    <3> QED
      BY <2>1, <3>1, KeyedLine, Zenon
  <2> QED
    BY <1>3, <2>2 DEF c
<1>4. CASE e.kind = "scalar"
  <2>1. c = <<e.key, COLON>> \o w
    BY <1>1, <1>4 DEF Body, w
  <2>2. c # <<>> /\ ~IsItem(c) /\ IsKeyed(c) /\ Key(c) = e.key /\ Rest(c) = w
    BY <1>2, <2>1, KeyedLine
  <2>3. w # <<>>
    BY <1>2, <1>4
  <2> QED
    BY <1>2, <1>4, <2>2, <2>3 DEF c
<1>5. CASE e.kind = "item"
  <2>1. c = <<DASH>> \o w
    BY <1>1, <1>5 DEF Body, w
  <2>2. c # <<>> /\ Tail(c) = w /\ Head(c) = DASH /\ Len(c) >= 2
    BY <1>2, <1>5, <2>1
  <2>3. IsItem(c) /\ ~IsKeyed(c)
    BY <2>2 DEF IsItem, IsKeyed
  <2> QED
    BY <1>2, <1>5, <2>2, <2>3 DEF c
<1>6. CASE e.kind = "text"
  <2>1. c = <<e.key>>
    BY <1>1, <1>6 DEF Body
  <2>2. c # <<>> /\ Len(c) = 1 /\ c[1] # COLON
    BY <2>1
  <2>3. ~IsItem(c) /\ Positions(c, COLON) = {}
    BY <2>1, <2>2 DEF IsItem, Positions
  <2> QED
    BY <1>6, <2>2, <2>3 DEF c, IsKeyed
<1>7. CASE e.kind = "blank"
  <2>1. c = <<>>
    BY <1>1, <1>7 DEF Body
  <2>2. ~IsItem(c) /\ Positions(c, COLON) = {}
    BY <2>1 DEF IsItem, Positions
  <2> QED
    BY <1>7, <2>1, <2>2 DEF c, IsKeyed
<1> QED
  BY <1>3, <1>4, <1>5, <1>6, <1>7

-----------------------------------------------------------------------------
(* The inductive invariant.                                                *)

Typed ==
    /\ phase \in {"new", "reading", "loaded", "failed"}
    /\ file \in Seq(Entries) /\ Len(file) <= MaxLines
    /\ key_stack \in Seq(STRING)
    /\ indent_stack \in Seq(Nat)
    /\ phase = "new" => file = <<>>

(* The maps that no line has closed, as the loader sees it: none is        *)
(* indented less than their key.                                           *)
Open == {j \in Maps : \A k \in Says : k > j => file[k].indent >= file[j].indent}

(* The stacks hold the keys and indentations of the open maps, in the      *)
(* order of their lines.                                                   *)
Stacked ==
    LET order == Ascending(Open) IN
    /\ Lists(order, Len(key_stack), Open)
    /\ Len(indent_stack) = Len(key_stack)
    /\ \A n \in 1..Len(key_stack) :
          key_stack[n] = file[order[n]].key /\ indent_stack[n] = file[order[n]].indent

(* The items of the list at p. *)
ItemsAt(p) == {j \in Says : file[j].kind = "item" /\ Place(j) = p}

(* The counters count them. *)
Counted ==
    /\ DOMAIN list_counters = {Place(i) : i \in {j \in Says : file[j].kind = "item"}} \ {<<>>}
    /\ \A p \in DOMAIN list_counters : list_counters[p] = Cardinality(ItemsAt(p))

(* i is the last line that sets its key. *)
SetsLast(i) == \A k \in Settings : KeyOf(k) = KeyOf(i) => k <= i

(* The map holds what the lines set last. *)
Mapped ==
    /\ DOMAIN config_map_ = {KeyOf(i) : i \in Settings}
    /\ \A i \in Settings : SetsLast(i) => config_map_[KeyOf(i)] = Stored(file[i])

ConfigInv == Typed /\ Stacked /\ (~HasSibling => Counted /\ Mapped)

-----------------------------------------------------------------------------
(* A line more: what the earlier lines say does not change.                *)

LEMMA FileFacts ==
    ASSUME Typed
    PROVE  /\ Len(file) \in Nat /\ DOMAIN file = 1..Len(file)
           /\ \A i \in 1..Len(file) : file[i] \in Entries /\ file[i].indent \in Nat
           /\ Maps \subseteq Says /\ Says \subseteq 1..Len(file) /\ Settings \subseteq Says
           /\ Open \subseteq Maps
<1>1. Len(file) \in Nat /\ DOMAIN file = 1..Len(file) /\ \A i \in 1..Len(file) : file[i] \in Entries
  BY DEF Typed
<1>2. \A i \in 1..Len(file) : file[i].indent \in Nat
  BY <1>1, EntryFacts
<1> QED
  BY <1>1, <1>2 DEF Maps, Says, Settings, Open

(* A line e is read. *)
Reads(e) == Typed /\ e \in Entries /\ file' = Append(file, e)

LEMMA Appended ==
    ASSUME NEW e, Reads(e)
    PROVE  /\ file' \in Seq(Entries) /\ Len(file') = Len(file) + 1
           /\ DOMAIN file' = 1..(Len(file) + 1)
           /\ \A i \in 1..Len(file) : file'[i] = file[i]
           /\ file'[Len(file) + 1] = e
BY DEF Reads, Typed

LEMMA NewSays ==
    ASSUME NEW e, Reads(e)
    PROVE  /\ Says' = IF e.kind = "blank" THEN Says ELSE Says \union {Len(file) + 1}
           /\ Maps' = IF e.kind = "map" THEN Maps \union {Len(file) + 1} ELSE Maps
<1>1. Len(file) \in Nat /\ DOMAIN file = 1..Len(file)
  BY FileFacts DEF Reads
<1>2. \A i : i \in DOMAIN file' <=> i \in DOMAIN file \/ i = Len(file) + 1
  BY <1>1, Appended
<1>3. (\A i \in DOMAIN file : file'[i] = file[i]) /\ file'[Len(file) + 1] = e
  BY <1>1, Appended
<1>4. Len(file) + 1 \notin DOMAIN file
  BY <1>1
<1>5. \A i : i \in Says' <=> i \in Says \/ (i = Len(file) + 1 /\ e.kind # "blank")
  BY <1>2, <1>3, <1>4 DEF Says
<1>6. \A i : i \in Maps' <=> i \in Maps \/ (i = Len(file) + 1 /\ e.kind = "map")
  BY <1>2, <1>3, <1>4 DEF Maps
<1> QED
  BY <1>5, <1>6

LEMMA OldAncestors ==
    ASSUME NEW e, Reads(e), NEW i \in 1..Len(file)
    PROVE  Ancestors(i)' = Ancestors(i)
<1> USE FileFacts, Appended
<1>1. Typed
  BY DEF Reads
<1>2. \A k \in 1..Len(file) : /\ k \in Says' <=> k \in Says
                              /\ k \in Maps' <=> k \in Maps
  BY <1>1, NewSays
<1>3. \A k, j \in 1..Len(file) : Within(k, j)' <=> Within(k, j)
  BY <1>1 DEF Within
<1>4. \A j \in Maps' : j < i => j \in 1..Len(file)
  BY <1>1, NewSays
<1>5. \A k \in Says' : k <= i => k \in 1..Len(file)
  BY <1>1, NewSays
<1>6. ASSUME NEW j \in 1..Len(file)
      PROVE  (\A k \in Says' : j < k /\ k <= i => Within(k, j)')
             <=> (\A k \in Says : j < k /\ k <= i => Within(k, j))
  BY <1>1, <1>2, <1>3, <1>5
<1>7. \A j : j \in Ancestors(i)' <=> j \in Ancestors(i)
  BY <1>1, <1>2, <1>4, <1>6 DEF Ancestors
<1> QED
  BY <1>7

LEMMA PlaceOrder ==
    ASSUME Typed, NEW i \in 1..Len(file)
    PROVE  /\ Ancestors(i) \in SUBSET (1..Len(file))
           /\ Lists(Ascending(Ancestors(i)), Cardinality(Ancestors(i)), Ancestors(i))
<1>1. Ancestors(i) \in SUBSET (1..Len(file))
  BY FileFacts DEF Ancestors
<1> QED
  BY <1>1, FileFacts, AscendingLists

LEMMA OldPlace ==
    ASSUME NEW e, Reads(e), NEW i \in 1..Len(file)
    PROVE  Place(i)' = Place(i)
<1> DEFINE order == Ascending(Ancestors(i))
<1>1. Ascending(Ancestors(i))' = order
  BY OldAncestors
<1>2. Typed
  BY DEF Reads
<1>3. \A n \in DOMAIN order : order[n] \in 1..Len(file)
  BY <1>2, PlaceOrder DEF Lists
<1>4. \A n \in DOMAIN order : file'[order[n]] = file[order[n]]
  BY <1>3, Appended
<1> HIDE DEF order
<1>5. Place(i)' = [n \in DOMAIN order |-> file'[order[n]].key]
  BY <1>1 DEF Place
<1>6. Place(i) = [n \in DOMAIN order |-> file[order[n]].key]
  BY DEF Place, order
<1> QED
  BY <1>4, <1>5, <1>6

LEMMA OldKeys ==
    ASSUME NEW e, Reads(e), NEW i \in 1..Len(file)
    PROVE  ItemsBefore(i)' = ItemsBefore(i) /\ KeyOf(i)' = KeyOf(i)
<1>1. Typed /\ Says \subseteq 1..Len(file) /\ Len(file) \in Nat
  BY FileFacts DEF Reads
<1>2. \A j : j \in Says' /\ j < i <=> j \in Says /\ j < i
  BY <1>1, NewSays
<1>3. \A j \in Says : file'[j] = file[j] /\ Place(j)' = Place(j)
  BY <1>1, Appended, OldPlace
<1>4. file'[i] = file[i] /\ Place(i)' = Place(i)
  BY <1>1, Appended, OldPlace
<1>5. {j \in Says' : j < i /\ file'[j].kind = "item" /\ Place(j)' = Place(i)'}
      = {j \in Says : j < i /\ file[j].kind = "item" /\ Place(j) = Place(i)}
  BY <1>2, <1>3, <1>4
<1>6. ItemsBefore(i)' = ItemsBefore(i)
  BY <1>5 DEF ItemsBefore
<1> QED
  BY <1>4, <1>6 DEF KeyOf

(* A file without siblings had none before its last line. *)
LEMMA SiblingStays ==
    ASSUME NEW e, Reads(e), HasSibling
    PROVE  HasSibling'
<1> USE FileFacts, Appended
<1>1. Typed
  BY DEF Reads
<1>2. PICK i \in Says, j \in Maps :
          /\ j < i /\ file[i].indent = file[j].indent /\ file[i].kind # "item"
          /\ \A k \in Says : j < k /\ k < i => file[k].indent >= file[j].indent
  BY DEF HasSibling
<1>3. i \in 1..Len(file) /\ j \in 1..Len(file) /\ i \in Says' /\ j \in Maps'
  BY <1>1, NewSays
<1>4. \A k \in Says' : k < i => k \in Says /\ k \in 1..Len(file)
  BY <1>1, <1>3, NewSays
<1> QED
  BY <1>1, <1>2, <1>3, <1>4 DEF HasSibling

-----------------------------------------------------------------------------
(* The maps a line leaves open.                                            *)

(* Of the open maps, those that a line of this indentation does not close. *)
Unclosed(indent) == {j \in Open : file[j].indent <= indent}

(* The loop stops at the innermost map that is not indented deeper, and    *)
(* all maps around that one are not either.                                *)
LEMMA KeptFacts ==
    ASSUME Typed, Stacked, NEW indent \in Nat
    PROVE  /\ Kept(indent) \in 0..Len(key_stack)
           /\ \A n \in 1..Len(key_stack) : indent_stack[n] <= indent <=> n <= Kept(indent)
<1> DEFINE order == Ascending(Open)
           len == Len(key_stack)
           S == {n \in 0..Len(indent_stack) : n = 0 \/ indent_stack[n] <= indent}
<1>1. /\ len \in Nat /\ Len(indent_stack) = len /\ Lists(order, len, Open)
      /\ \A n \in 1..len : indent_stack[n] = file[order[n]].indent
  BY DEF Typed, Stacked
<1>2. \A n \in 1..len : indent_stack[n] \in Nat
  BY <1>1 DEF Typed
<1>3. \A n, m \in 1..len : n < m => indent_stack[n] <= indent_stack[m]
  <2> SUFFICES ASSUME NEW n \in 1..len, NEW m \in 1..len, n < m
               PROVE  indent_stack[n] <= indent_stack[m]
    OBVIOUS
  <2>1. order[n] \in Open /\ order[m] \in Open /\ order[n] < order[m]
    BY <1>1 DEF Lists
  <2>2. order[m] \in Says /\ order[n] \in Nat /\ order[m] \in Nat
    BY <2>1, FileFacts
  <2>3. file[order[m]].indent >= file[order[n]].indent
    BY <2>1, <2>2 DEF Open
  <2> QED
    BY <1>1, <1>2, <2>3
<1> HIDE DEF order
<1>4. S \in SUBSET (0..len) /\ S # {}
  BY <1>1
<1>5. PICK k \in S : \A y \in S : k >= y
  BY <1>1, <1>4, MaxExists
<1>6. Kept(indent) = k
  <2>1. S \in SUBSET Nat
    BY <1>1, <1>4
  <2>2. Max(S) = k
    BY <1>5, <2>1, MaxIs
  <2> QED
    BY <2>2 DEF Kept
<1>7. ASSUME NEW n \in 1..len
      PROVE  indent_stack[n] <= indent <=> n <= k
  <2>1. indent_stack[n] <= indent => n \in S
    BY <1>1
  <2>2. n <= k => indent_stack[n] <= indent
    <3>1. CASE n = k
      BY <1>5, <3>1
    <3>2. CASE n < k
      <4>1. k \in 1..len /\ indent_stack[k] <= indent
        BY <1>1, <1>4, <3>2
      <4>2. indent_stack[n] <= indent_stack[k]
        BY <1>3, <3>2, <4>1
      <4> QED
        BY <1>2, <4>1, <4>2
    <3> QED
      BY <1>4, <3>1, <3>2
  <2> QED
    BY <1>5, <2>1, <2>2
<1> QED
  BY <1>1, <1>4, <1>6, <1>7

(* The part of the stacks that stays lists the maps that are not closed. *)
LEMMA UnclosedListed ==
    ASSUME Typed, Stacked, NEW indent \in Nat
    PROVE  /\ Unclosed(indent) \in SUBSET Nat
           /\ Lists([n \in 1..Kept(indent) |-> Ascending(Open)[n]], Kept(indent), Unclosed(indent))
<1> DEFINE order == Ascending(Open)
           k == Kept(indent)
           s == [n \in 1..k |-> order[n]]
<1>1. /\ Len(key_stack) \in Nat /\ Lists(order, Len(key_stack), Open)
      /\ \A n \in 1..Len(key_stack) : indent_stack[n] = file[order[n]].indent
  BY DEF Typed, Stacked
<1>2. /\ k \in 0..Len(key_stack)
      /\ \A n \in 1..Len(key_stack) : file[order[n]].indent <= indent <=> n <= k
  BY <1>1, KeptFacts
<1> HIDE DEF order, k
<1>3. Unclosed(indent) \in SUBSET Nat
  BY FileFacts DEF Unclosed
<1>4. \A n \in 1..k : n \in 1..Len(key_stack) /\ s[n] = order[n] /\ order[n] \in Unclosed(indent)
  BY <1>1, <1>2 DEF Lists, Unclosed
<1>5. \A x \in Unclosed(indent) : \E n \in 1..k : s[n] = x
  <2> SUFFICES ASSUME NEW x \in Unclosed(indent) PROVE \E n \in 1..k : s[n] = x
    OBVIOUS
  <2>1. PICK n \in 1..Len(key_stack) : order[n] = x
    BY <1>1 DEF Lists, Unclosed
  <2>2. n \in 1..k
    BY <1>2, <2>1 DEF Unclosed
  <2> QED
    BY <2>1, <2>2
<1>6. \A n, m \in 1..k : n < m => s[n] < s[m]
  BY <1>1, <1>4 DEF Lists
<1>7. Lists(s, k, Unclosed(indent))
  BY <1>4, <1>5, <1>6 DEF Lists
<1> QED
  BY <1>3, <1>7 DEF order, k

LEMMA NewOpen ==
    ASSUME NEW e, Reads(e), e.kind # "blank"
    PROVE  Open' = IF e.kind = "map" THEN Unclosed(e.indent) \union {Len(file) + 1}
                                     ELSE Unclosed(e.indent)
<1> USE FileFacts, Appended
<1> DEFINE new == Len(file) + 1
<1>1. Typed /\ e \in Entries /\ e.indent \in Nat
  BY EntryFacts DEF Reads
<1>2. Says' = Says \union {new} /\ Maps' = IF e.kind = "map" THEN Maps \union {new} ELSE Maps
  BY NewSays
<1>3. \A j \in Maps : j \in 1..Len(file) /\ j < new /\ file'[j] = file[j]
  BY <1>1
<1>4. \A k \in Says : k \in 1..Len(file) /\ k < new /\ file'[k] = file[k]
  BY <1>1
<1>5. file'[new] = e
  BY <1>1
<1> HIDE DEF new
<1>6. ASSUME NEW j \in Maps PROVE j \in Open' <=> j \in Unclosed(e.indent)
  <2>1. j \in Open' <=> \A k \in Says \union {new} : k > j => file'[k].indent >= file[j].indent
    BY <1>2, <1>3 DEF Open
  <2>2. j \in Open <=> \A k \in Says : k > j => file[k].indent >= file[j].indent
    BY DEF Open
  <2>3. new > j /\ file'[new].indent = e.indent /\ file[j].indent \in Nat
    BY <1>1, <1>3, <1>5
  <2>4. j \in Open' <=> j \in Open /\ e.indent >= file[j].indent
    BY <1>4, <2>1, <2>2, <2>3
  <2> QED
    BY <1>1, <2>3, <2>4 DEF Unclosed
<1>7. e.kind = "map" => new \in Open'
  <2>1. \A k \in Says \union {new} : ~(k > new)
    BY <1>1, <1>4 DEF new
  <2> QED
    BY <1>2, <2>1 DEF Open
<1>8. \A j : j \in Open' => j \in Maps \/ (j = new /\ e.kind = "map")
  BY <1>2 DEF Open
<1>9. \A j : j \in Unclosed(e.indent) => j \in Maps
  BY DEF Unclosed, Open
<1> QED
  BY <1>6, <1>7, <1>8, <1>9 DEF new

(* Where no map has a sibling, the line is in the maps it leaves open. *)
LEMMA NewAncestors ==
    ASSUME NEW e, Reads(e), e.kind # "blank", ~HasSibling', NEW new, new = Len(file) + 1
    PROVE  Ancestors(new)' = Unclosed(e.indent)
<1> USE FileFacts, Appended
<1>1. Typed /\ e \in Entries /\ e.indent \in Nat
  BY EntryFacts DEF Reads
<1>2. Says' = Says \union {new} /\ Maps' = IF e.kind = "map" THEN Maps \union {new} ELSE Maps
  BY NewSays
<1>3. \A j \in Maps : j \in 1..Len(file) /\ j < new /\ file'[j] = file[j]
  BY <1>1
<1>4. \A k \in Says : k \in 1..Len(file) /\ k < new /\ file'[k] = file[k]
  BY <1>1
<1>5. file'[new] = e /\ new \in Nat
  BY <1>1
<1>6. \A k \in Says' : k \in Nat /\ k <= new /\ file'[k].indent \in Nat
  BY <1>1, <1>2, <1>4, <1>5
<1>7. \A i \in Says' : \A j \in Maps' :
         /\ j < i /\ file'[i].indent = file'[j].indent
         /\ \A k \in Says' : j < k /\ k < i => file'[k].indent >= file'[j].indent
         => file'[i].kind = "item"
  BY DEF HasSibling
<1>8. ASSUME NEW j \in Maps
      PROVE  j \in Ancestors(new)' <=> j \in Unclosed(e.indent)
  <2>1. j \in Ancestors(new)' <=> \A k \in Says' : j < k /\ k <= new => Within(k, j)'
    BY <1>2, <1>3 DEF Ancestors
  <2>2. \A k \in Says' : Within(k, j)' <=>
            \/ file'[k].indent > file[j].indent
            \/ file'[k].indent = file[j].indent /\ file'[k].kind = "item"
    BY <1>3 DEF Within
  <2>3. file[j].indent \in Nat /\ j \in Nat
    BY <1>1, <1>3
  <2>4. j \in Unclosed(e.indent) <=> \A k \in Says' : j < k => file'[k].indent >= file[j].indent
    <3>1. j \in Open <=> \A k \in Says : k > j => file[k].indent >= file[j].indent
      BY DEF Open
    <3> QED
      BY <1>1, <1>2, <1>3, <1>4, <1>5, <2>3, <3>1 DEF Unclosed
  <2>5. j \in Ancestors(new)' => j \in Unclosed(e.indent)
    BY <1>6, <2>1, <2>2, <2>3, <2>4
  <2>6. ASSUME j \in Unclosed(e.indent) PROVE j \in Ancestors(new)'
    <3> SUFFICES ASSUME NEW k \in Says', j < k PROVE Within(k, j)'
      BY <2>1
    <3>1. \A l \in Says' : j < l => file'[l].indent >= file[j].indent
      BY <2>4, <2>6
    <3>2. file'[k].indent = file[j].indent => file'[k].kind = "item"
      BY <1>2, <1>3, <1>7, <3>1
    <3> QED
      BY <1>6, <2>2, <2>3, <3>1, <3>2
  <2> QED
    BY <2>5, <2>6
<1>9. \A j : j \in Ancestors(new)' => j \in Maps
  BY <1>2, <1>5 DEF Ancestors
<1>10. \A j : j \in Unclosed(e.indent) => j \in Maps
  BY DEF Unclosed, Open
<1> QED
  BY <1>8, <1>9, <1>10

(* What the loop leaves of the stacks, and the lines it comes from. *)
LEMMA Popped ==
    ASSUME NEW e, Reads(e), Stacked
    PROVE  LET k == Kept(e.indent)
               s == [n \in 1..k |-> Ascending(Open)[n]]
           IN  /\ k \in Nat /\ Lists(s, k, Unclosed(e.indent))
               /\ Unclosed(e.indent) \in SUBSET (1..Len(file))
               /\ Prefix(e) \in Seq(STRING) /\ Len(Prefix(e)) = k
               /\ SubSeq(indent_stack, 1, k) \in Seq(Nat) /\ Len(SubSeq(indent_stack, 1, k)) = k
               /\ \A n \in 1..k : /\ Prefix(e)[n] = file[s[n]].key
                                  /\ SubSeq(indent_stack, 1, k)[n] = file[s[n]].indent
                                  /\ s[n] \in 1..Len(file)
<1> DEFINE k == Kept(e.indent)
           s == [n \in 1..k |-> Ascending(Open)[n]]
<1>1. Typed /\ e.indent \in Nat /\ key_stack \in Seq(STRING) /\ indent_stack \in Seq(Nat)
  BY EntryFacts DEF Reads, Typed
<1>2. k \in 0..Len(key_stack) /\ Lists(s, k, Unclosed(e.indent))
  BY <1>1, KeptFacts, UnclosedListed
<1>3. Unclosed(e.indent) \in SUBSET (1..Len(file))
  BY <1>1, FileFacts DEF Unclosed
<1>4. /\ Len(indent_stack) = Len(key_stack)
      /\ \A n \in 1..Len(key_stack) : /\ key_stack[n] = file[Ascending(Open)[n]].key
                                      /\ indent_stack[n] = file[Ascending(Open)[n]].indent
  BY DEF Stacked
<1> HIDE DEF k
<1>5. \A n \in 1..k : n \in 1..Len(key_stack) /\ s[n] = Ascending(Open)[n] /\ s[n] \in 1..Len(file)
  BY <1>2, <1>3 DEF Lists
<1>6. /\ Prefix(e) \in Seq(STRING) /\ Len(Prefix(e)) = k
      /\ \A n \in 1..k : Prefix(e)[n] = key_stack[n]
  BY <1>1, <1>2 DEF Prefix, k
<1>7. /\ SubSeq(indent_stack, 1, k) \in Seq(Nat) /\ Len(SubSeq(indent_stack, 1, k)) = k
      /\ \A n \in 1..k : SubSeq(indent_stack, 1, k)[n] = indent_stack[n]
  BY <1>1, <1>2, <1>4
<1>8. k \in Nat
  BY <1>1, <1>2
<1>9. \A n \in 1..k : /\ Prefix(e)[n] = file[s[n]].key
                      /\ SubSeq(indent_stack, 1, k)[n] = file[s[n]].indent
  BY <1>4, <1>5, <1>6, <1>7
<1> QED
  BY <1>2, <1>3, <1>5, <1>6, <1>7, <1>8, <1>9 DEF k

(* The key in front of the line is that of the map it is in. *)
LEMMA NewPlace ==
    ASSUME NEW e, Reads(e), Stacked, e.kind # "blank", ~HasSibling', NEW new, new = Len(file) + 1
    PROVE  Place(new)' = Prefix(e)
<1> DEFINE k == Kept(e.indent)
           s == [n \in 1..k |-> Ascending(Open)[n]]
<1>1. /\ k \in Nat /\ Lists(s, k, Unclosed(e.indent))
      /\ Unclosed(e.indent) \in SUBSET (1..Len(file))
      /\ Prefix(e) \in Seq(STRING) /\ Len(Prefix(e)) = k
      /\ \A n \in 1..k : Prefix(e)[n] = file[s[n]].key /\ s[n] \in 1..Len(file)
  BY Popped
<1>2. DOMAIN s = 1..k
  OBVIOUS
<1>3. Ascending(Ancestors(new)') = s
  <2>1. Ancestors(new)' = Unclosed(e.indent) /\ Unclosed(e.indent) \in SUBSET Nat
    BY <1>1, NewAncestors
  <2> HIDE DEF s, k
  <2> QED
    BY <1>1, <2>1, AscendingIs
<1> HIDE DEF s, k
<1>4. Place(new)' = [n \in DOMAIN s |-> file'[s[n]].key]
  BY <1>3 DEF Place
<1>5. \A n \in 1..k : file'[s[n]].key = Prefix(e)[n]
  BY <1>1, Appended
<1>6. Prefix(e) = [n \in 1..k |-> Prefix(e)[n]]
  BY <1>1
<1> QED
  BY <1>2, <1>4, <1>5, <1>6

LEMMA StackPopped ==
    ASSUME NEW e, Reads(e), Stacked, e.kind \notin {"blank", "map"}, PopStacks(e)
    PROVE  Stacked' /\ key_stack' \in Seq(STRING) /\ indent_stack' \in Seq(Nat)
<1> DEFINE k == Kept(e.indent)
           s == [n \in 1..k |-> Ascending(Open)[n]]
<1>1. /\ k \in Nat /\ Lists(s, k, Unclosed(e.indent))
      /\ Unclosed(e.indent) \in SUBSET (1..Len(file))
      /\ Prefix(e) \in Seq(STRING) /\ Len(Prefix(e)) = k
      /\ SubSeq(indent_stack, 1, k) \in Seq(Nat) /\ Len(SubSeq(indent_stack, 1, k)) = k
      /\ \A n \in 1..k : /\ Prefix(e)[n] = file[s[n]].key
                         /\ SubSeq(indent_stack, 1, k)[n] = file[s[n]].indent
                         /\ s[n] \in 1..Len(file)
  BY Popped
<1>2. key_stack' = Prefix(e) /\ indent_stack' = SubSeq(indent_stack, 1, k)
  BY DEF PopStacks
<1> HIDE DEF s, k
<1>3. Open' = Unclosed(e.indent)
  BY NewOpen
<1>4. Ascending(Open') = s
  <2>1. Unclosed(e.indent) \in SUBSET Nat
    BY <1>1
  <2> QED
    BY <1>1, <1>3, <2>1, AscendingIs
<1>5. \A n \in 1..k : file'[s[n]] = file[s[n]]
  BY <1>1, Appended
<1>6. Lists(s, k, Open')
  BY <1>1, <1>3
<1> QED
  BY <1>1, <1>2, <1>4, <1>5, <1>6 DEF Stacked

LEMMA Pushed ==
    ASSUME NEW T, NEW q \in Seq(T), NEW x \in T
    PROVE  /\ Append(q, x) \in Seq(T) /\ Len(Append(q, x)) = Len(q) + 1
           /\ \A n \in 1..Len(q) : Append(q, x)[n] = q[n]
           /\ Append(q, x)[Len(q) + 1] = x
OBVIOUS

LEMMA StackPushed ==
    ASSUME NEW e, Reads(e), Stacked, e.kind = "map",
           key_stack' = Append(Prefix(e), e.key),
           indent_stack' = Append(SubSeq(indent_stack, 1, Kept(e.indent)), e.indent)
    PROVE  Stacked' /\ key_stack' \in Seq(STRING) /\ indent_stack' \in Seq(Nat)
<1> DEFINE k == Kept(e.indent)
           s == [n \in 1..k |-> Ascending(Open)[n]]
           new == Len(file) + 1
           t == [n \in 1..(k + 1) |-> IF n <= k THEN s[n] ELSE new]
           U == Unclosed(e.indent)
           I == SubSeq(indent_stack, 1, k)
<1>1. /\ k \in Nat /\ Lists(s, k, U) /\ U \in SUBSET (1..Len(file))
      /\ Prefix(e) \in Seq(STRING) /\ Len(Prefix(e)) = k
      /\ I \in Seq(Nat) /\ Len(I) = k
      /\ \A n \in 1..k : /\ Prefix(e)[n] = file[s[n]].key
                         /\ I[n] = file[s[n]].indent
                         /\ s[n] \in 1..Len(file)
  BY Popped
<1>2. e \in Entries /\ e.key \in STRING /\ e.indent \in Nat /\ Len(file) \in Nat
  BY FileFacts, ConfigAssumption DEF Reads
<1>3. key_stack' = Append(Prefix(e), e.key) /\ indent_stack' = Append(I, e.indent)
  OBVIOUS
<1> HIDE DEF s, k, U, I
<1>4. /\ key_stack' \in Seq(STRING) /\ indent_stack' \in Seq(Nat)
      /\ Len(key_stack') = k + 1 /\ Len(indent_stack') = k + 1
      /\ \A n \in 1..k : key_stack'[n] = Prefix(e)[n] /\ indent_stack'[n] = I[n]
      /\ key_stack'[k + 1] = e.key /\ indent_stack'[k + 1] = e.indent
  <2>1. /\ key_stack' \in Seq(STRING) /\ Len(key_stack') = k + 1
        /\ \A n \in 1..k : key_stack'[n] = Prefix(e)[n]
        /\ key_stack'[k + 1] = e.key
    <3>1. PICK q \in Seq(STRING) : q = Prefix(e)
      BY <1>1
    <3>2. PICK x \in STRING : x = e.key
      BY <1>2
    <3>3. /\ Append(q, x) \in Seq(STRING) /\ Len(Append(q, x)) = Len(q) + 1
          /\ \A n \in 1..Len(q) : Append(q, x)[n] = q[n]
          /\ Append(q, x)[Len(q) + 1] = x
      BY Pushed
    <3>4. Len(q) = k /\ key_stack' = Append(q, x)
      BY <1>1, <1>3, <3>1, <3>2
    <3> QED
      BY <3>1, <3>2, <3>3, <3>4, Zenon
  <2>2. /\ indent_stack' \in Seq(Nat) /\ Len(indent_stack') = k + 1
        /\ \A n \in 1..k : indent_stack'[n] = I[n]
        /\ indent_stack'[k + 1] = e.indent
    <3>1. PICK q \in Seq(Nat) : q = I
      BY <1>1
    <3>2. PICK x \in Nat : x = e.indent
      BY <1>2
    <3>3. /\ Append(q, x) \in Seq(Nat) /\ Len(Append(q, x)) = Len(q) + 1
          /\ \A n \in 1..Len(q) : Append(q, x)[n] = q[n]
          /\ Append(q, x)[Len(q) + 1] = x
      BY Pushed
    <3>4. Len(q) = k /\ indent_stack' = Append(q, x)
      BY <1>1, <1>3, <3>1, <3>2
    <3> QED
      BY <3>1, <3>2, <3>3, <3>4, Zenon
  <2> QED
    BY <2>1, <2>2, Zenon
<1>5. U \in SUBSET Nat /\ new \in Nat /\ \A y \in U : y < new
  BY <1>1, <1>2
<1>6. Lists(t, k + 1, U \union {new})
  BY <1>1, <1>5, ListsAppend
<1>7. Open' = U \union {new}
  BY NewOpen DEF U
<1>8. \A n \in 1..k : t[n] = s[n] /\ file'[t[n]] = file[s[n]]
  BY <1>1, Appended
<1>9. t[k + 1] = new /\ file'[new] = e
  BY <1>1, Appended
<1>10. \A n \in 1..(k + 1) : n \in 1..k \/ n = k + 1
  BY <1>1
<1> HIDE DEF t, new
<1>11. Ascending(Open') = t /\ Lists(t, k + 1, Open')
  <2>1. U \union {new} \in SUBSET Nat /\ k + 1 \in Nat
    BY <1>1, <1>5
  <2> QED
    BY <1>6, <1>7, <2>1, AscendingIs
<1>12. \A n \in 1..(k + 1) : /\ key_stack'[n] = file'[t[n]].key
                             /\ indent_stack'[n] = file'[t[n]].indent
  BY <1>1, <1>4, <1>8, <1>9, <1>10
<1> QED
  BY <1>4, <1>11, <1>12 DEF Stacked

-----------------------------------------------------------------------------
(* What a line sets.                                                       *)

(* The line takes the key that the loader gives it. *)
Sets(e) == e.kind = "scalar" \/ (e.kind = "item" /\ Prefix(e) # <<>>)

KeyFor(e) ==
    Append(Prefix(e), IF e.kind = "item" THEN Decimal(Cardinality(ItemsAt(Prefix(e)))) ELSE e.key)

LEMMA NewSettings ==
    ASSUME NEW e, Reads(e), Stacked, ~HasSibling', NEW new, new = Len(file) + 1
    PROVE  Settings' = IF Sets(e) THEN Settings \union {new} ELSE Settings
<1>1. Typed /\ Says \subseteq 1..Len(file) /\ Len(file) \in Nat
  BY FileFacts DEF Reads
<1>2. \A i : i \in Says' <=> i \in Says \/ (i = new /\ e.kind # "blank")
  BY NewSays
<1>3. \A i \in Says : file'[i] = file[i] /\ Place(i)' = Place(i) /\ i # new
  BY <1>1, Appended, OldPlace
<1>4. file'[new] = e
  BY Appended
<1>5. e.kind # "blank" => Place(new)' = Prefix(e)
  BY NewPlace
<1>6. \A i : i \in Settings' <=> /\ i \in Says'
                               /\ \/ file'[i].kind = "scalar"
                                  \/ file'[i].kind = "item" /\ Place(i)' # <<>>
  BY DEF Settings
<1>7. \A i : i \in Settings <=> /\ i \in Says
                              /\ \/ file[i].kind = "scalar"
                                 \/ file[i].kind = "item" /\ Place(i) # <<>>
  BY DEF Settings
<1>8. \A i \in Says : i \in Settings' <=> i \in Settings
  BY <1>2, <1>3, <1>6, <1>7
<1>9. new \in Settings' <=> Sets(e)
  BY <1>2, <1>4, <1>5, <1>6 DEF Sets
<1>10. \A i : i \in Settings' <=> i \in Settings \/ (i = new /\ Sets(e))
  BY <1>2, <1>3, <1>6, <1>7, <1>8, <1>9
<1> QED
  BY <1>10

LEMMA NewItems ==
    ASSUME NEW e, Reads(e), Stacked, ~HasSibling', NEW new, new = Len(file) + 1, NEW p
    PROVE  ItemsAt(p)' = IF e.kind = "item" /\ Prefix(e) = p THEN ItemsAt(p) \union {new}
                                                           ELSE ItemsAt(p)
<1>1. Typed /\ Says \subseteq 1..Len(file) /\ Len(file) \in Nat
  BY FileFacts DEF Reads
<1>2. \A i : i \in Says' <=> i \in Says \/ (i = new /\ e.kind # "blank")
  BY NewSays
<1>3. \A i \in Says : file'[i] = file[i] /\ Place(i)' = Place(i) /\ i # new
  BY <1>1, Appended, OldPlace
<1>4. file'[new] = e
  BY Appended
<1>5. e.kind # "blank" => Place(new)' = Prefix(e)
  BY NewPlace
<1>6. \A i : i \in ItemsAt(p)' <=> i \in Says' /\ file'[i].kind = "item" /\ Place(i)' = p
  BY DEF ItemsAt
<1>7. \A i : i \in ItemsAt(p) <=> i \in Says /\ file[i].kind = "item" /\ Place(i) = p
  BY DEF ItemsAt
<1>8. \A i \in Says : i \in ItemsAt(p)' <=> i \in ItemsAt(p)
  BY <1>2, <1>3, <1>6, <1>7
<1>9. new \in ItemsAt(p)' <=> e.kind = "item" /\ Prefix(e) = p
  BY <1>2, <1>4, <1>5, <1>6
<1>10. \A i : i \in ItemsAt(p)' <=> i \in ItemsAt(p) \/ (i = new /\ e.kind = "item" /\ Prefix(e) = p)
  BY <1>2, <1>3, <1>6, <1>7, <1>8, <1>9
<1> QED
  BY <1>10

LEMMA NewKey ==
    ASSUME NEW e, Reads(e), Stacked, ~HasSibling', e.kind # "blank", NEW new, new = Len(file) + 1
    PROVE  KeyOf(new)' = KeyFor(e)
<1>1. Typed /\ Says \subseteq 1..Len(file) /\ Len(file) \in Nat
  BY FileFacts DEF Reads
<1>2. \A i : i \in Says' <=> i \in Says \/ i = new
  BY NewSays
<1>3. \A i \in Says : file'[i] = file[i] /\ Place(i)' = Place(i) /\ i < new
  BY <1>1, Appended, OldPlace
<1>4. file'[new] = e /\ Place(new)' = Prefix(e) /\ ~(new < new)
  BY <1>1, Appended, NewPlace
<1>5. {j \in Says' : j < new /\ file'[j].kind = "item" /\ Place(j)' = Place(new)'}
      = {j \in Says : file[j].kind = "item" /\ Place(j) = Prefix(e)}
  BY <1>2, <1>3, <1>4
<1>6. ItemsBefore(new)' = Cardinality(ItemsAt(Prefix(e)))
  BY <1>5 DEF ItemsBefore, ItemsAt
<1> QED
  BY <1>4, <1>6 DEF KeyOf, KeyFor

(* A line that sets nothing leaves the map as it is. *)
LEMMA MapStays ==
    ASSUME NEW e, Reads(e), Mapped, Settings' = Settings, config_map_' = config_map_
    PROVE  Mapped'
<1>1. \A i \in Settings : i \in 1..Len(file)
  BY FileFacts DEF Reads
<1>2. \A i \in Settings : KeyOf(i)' = KeyOf(i) /\ file'[i] = file[i]
  BY <1>1, OldKeys, Appended
<1>3. \A i \in Settings : SetsLast(i)' <=> SetsLast(i)
  BY <1>2 DEF SetsLast
<1>4. DOMAIN config_map_' = {KeyOf(i)' : i \in Settings'}
  BY <1>2 DEF Mapped
<1>5. \A i \in Settings' : SetsLast(i)' => config_map_'[KeyOf(i)'] = Stored(file'[i])
  BY <1>2, <1>3 DEF Mapped
<1> QED
  BY <1>4, <1>5 DEF Mapped

(* A line that sets a key is the last one to do so. *)
LEMMA MapGrows ==
    ASSUME NEW e, Reads(e), Mapped, NEW new, new = Len(file) + 1,
           Settings' = Settings \union {new}, config_map_' = Put(config_map_, KeyOf(new)', Stored(e))
    PROVE  Mapped'
<1> DEFINE key == KeyOf(new)'
<1>1. \A i \in Settings : i \in 1..Len(file) /\ i < new /\ ~(new <= i)
  BY FileFacts DEF Reads
<1>2. \A i \in Settings : KeyOf(i)' = KeyOf(i) /\ file'[i] = file[i]
  BY <1>1, OldKeys, Appended
<1>3. file'[new] = e
  BY Appended
<1>4. /\ DOMAIN config_map_' = DOMAIN config_map_ \union {key}
      /\ config_map_'[key] = Stored(e)
      /\ \A x \in DOMAIN config_map_ : x # key => config_map_'[x] = config_map_[x]
  BY DEF Put
<1>5. \A i \in Settings : SetsLast(i)' => SetsLast(i) /\ KeyOf(i) # key
  BY <1>1, <1>2 DEF SetsLast
<1>6. \A i \in Settings : KeyOf(i) \in DOMAIN config_map_
  BY DEF Mapped
<1> HIDE DEF key
<1>7. ASSUME NEW i \in Settings' PROVE SetsLast(i)' => config_map_'[KeyOf(i)'] = Stored(file'[i])
  <2>1. CASE i = new
    BY <1>3, <1>4, <2>1 DEF key
  <2>2. CASE i \in Settings
    BY <1>2, <1>4, <1>5, <1>6, <2>2 DEF Mapped
  <2> QED
    BY <2>1, <2>2
<1>8. DOMAIN config_map_' = {KeyOf(i)' : i \in Settings'}
  <2>1. \A x : x \in {KeyOf(i)' : i \in Settings'} <=> x = key \/ x \in {KeyOf(i) : i \in Settings}
    BY <1>2 DEF key
  <2> QED
    BY <1>4, <2>1 DEF Mapped
<1> QED
  BY <1>7, <1>8 DEF Mapped

(* The lists that have items. *)
LEMMA NewLists ==
    ASSUME NEW e, Reads(e), Stacked, ~HasSibling'
    PROVE  {Place(i)' : i \in {j \in Says' : file'[j].kind = "item"}}
           = IF e.kind = "item" THEN {Place(i) : i \in {j \in Says : file[j].kind = "item"}} \union {Prefix(e)}
                                ELSE {Place(i) : i \in {j \in Says : file[j].kind = "item"}}
<1>0. PICK new : new = Len(file) + 1
  OBVIOUS
<1>1. Typed /\ Says \subseteq 1..Len(file) /\ Len(file) \in Nat
  BY FileFacts DEF Reads
<1>2. \A i : i \in Says' <=> i \in Says \/ (i = new /\ e.kind # "blank")
  BY <1>0, NewSays
<1>3. \A i \in Says : file'[i] = file[i] /\ Place(i)' = Place(i) /\ i # new
  BY <1>0, <1>1, Appended, OldPlace
<1>4. file'[new] = e
  BY <1>0, Appended
<1>5. e.kind # "blank" => Place(new)' = Prefix(e)
  BY <1>0, NewPlace
<1>6. \A x : x \in {Place(i)' : i \in {j \in Says' : file'[j].kind = "item"}}
          <=> \/ x \in {Place(i) : i \in {j \in Says : file[j].kind = "item"}}
              \/ e.kind = "item" /\ x = Prefix(e)
  BY <1>2, <1>3, <1>4, <1>5
<1> QED
  BY <1>6

LEMMA ItemsFinite ==
    ASSUME Typed, NEW p
    PROVE  /\ IsFiniteSet(ItemsAt(p)) /\ ItemsAt(p) \subseteq 1..Len(file)
           /\ Cardinality(ItemsAt(p)) \in Nat
<1>1. ItemsAt(p) \subseteq 1..Len(file) /\ Len(file) \in Nat
  BY FileFacts DEF ItemsAt
<1>2. IsFiniteSet(1..Len(file))
  BY <1>1, FS_Interval
<1> QED
  BY <1>1, <1>2, FS_Subset, FS_CardinalityType

LEMMA CountStays ==
    ASSUME NEW e, Reads(e), Stacked, ~HasSibling', Counted, list_counters' = list_counters,
           e.kind = "item" => Prefix(e) = <<>>
    PROVE  Counted'
<1>0. PICK new : new = Len(file) + 1
  OBVIOUS
<1>1. DOMAIN list_counters' = {Place(i)' : i \in {j \in Says' : file'[j].kind = "item"}} \ {<<>>}
  BY NewLists DEF Counted
<1>2. \A p \in DOMAIN list_counters : p # <<>>
  BY DEF Counted
<1>3. \A p \in DOMAIN list_counters : ItemsAt(p)' = ItemsAt(p)
  BY <1>0, <1>2, NewItems
<1>4. \A p \in DOMAIN list_counters' : list_counters'[p] = Cardinality(ItemsAt(p)')
  BY <1>3 DEF Counted
<1> QED
  BY <1>1, <1>4 DEF Counted

(* The number an item gets is that of the items before it. *)
LEMMA NextIndexCounts ==
    ASSUME Typed, Counted, NEW p, p # <<>>
    PROVE  NextIndex(p) = Cardinality(ItemsAt(p))
<1>1. CASE p \in DOMAIN list_counters
  BY <1>1 DEF Counted, NextIndex
<1>2. CASE p \notin DOMAIN list_counters
  <2>1. p \notin {Place(i) : i \in {j \in Says : file[j].kind = "item"}}
    BY <1>2 DEF Counted
  <2>2. ItemsAt(p) = {}
    BY <2>1 DEF ItemsAt
  <2> QED
    BY <1>2, <2>2, FS_EmptySet DEF NextIndex
<1> QED
  BY <1>1, <1>2

LEMMA CountGrows ==
    ASSUME NEW e, Reads(e), Stacked, ~HasSibling', Counted, e.kind = "item", Prefix(e) # <<>>,
           list_counters' = Put(list_counters, Prefix(e), NextIndex(Prefix(e)) + 1)
    PROVE  Counted'
<1>0. PICK new : new = Len(file) + 1
  OBVIOUS
<1>1. PICK q : q = Prefix(e)
  OBVIOUS
<1>2. Typed
  BY DEF Reads
<1>3. /\ DOMAIN list_counters' = DOMAIN list_counters \union {q}
      /\ list_counters'[q] = NextIndex(q) + 1
      /\ \A x \in DOMAIN list_counters : x # q => list_counters'[x] = list_counters[x]
  BY <1>1 DEF Put
<1>4. DOMAIN list_counters' = {Place(i)' : i \in {j \in Says' : file'[j].kind = "item"}} \ {<<>>}
  BY <1>1, <1>3, NewLists DEF Counted
<1>5. \A p : p # q => ItemsAt(p)' = ItemsAt(p)
  BY <1>0, <1>1, NewItems
<1>6. ItemsAt(q)' = ItemsAt(q) \union {new}
  BY <1>0, <1>1, NewItems
<1>7. Cardinality(ItemsAt(q) \union {new}) = Cardinality(ItemsAt(q)) + 1
  <2>1. IsFiniteSet(ItemsAt(q)) /\ ItemsAt(q) \subseteq 1..Len(file) /\ Len(file) \in Nat
    BY <1>2, ItemsFinite, FileFacts
  <2>2. new \notin ItemsAt(q)
    BY <1>0, <2>1
  <2> QED
    BY <2>1, <2>2, FS_AddElement
<1>8. list_counters'[q] = Cardinality(ItemsAt(q)')
  BY <1>1, <1>2, <1>3, <1>6, <1>7, NextIndexCounts
<1>9. \A p \in DOMAIN list_counters' : list_counters'[p] = Cardinality(ItemsAt(p)')
  BY <1>3, <1>5, <1>8 DEF Counted
<1> QED
  BY <1>4, <1>9 DEF Counted

-----------------------------------------------------------------------------
(* The invariant is inductive.                                             *)

LEMMA EmptyFile ==
    ASSUME file = <<>>
    PROVE  /\ Says = {} /\ Maps = {} /\ Settings = {} /\ Open = {}
BY DEF Says, Maps, Settings, Open

LEMMA EmptyMap ==
    ASSUME file = <<>>, config_map_ = <<>>
    PROVE  Mapped
<1>1. Settings = {} /\ DOMAIN config_map_ = {}
  BY EmptyFile
<1> QED
  BY <1>1 DEF Mapped

LEMMA ConfigInit == Init => ConfigInv
<1> SUFFICES ASSUME Init PROVE ConfigInv
  OBVIOUS
<1>1. file = <<>> /\ key_stack = <<>> /\ indent_stack = <<>> /\ phase = "new"
  BY DEF Init
<1>2. Typed
  BY <1>1, ConfigAssumption DEF Typed
<1>3. Mapped
  BY EmptyMap DEF Init
<1>4. Counted
  <2>1. DOMAIN list_counters = {} /\ Says = {}
    BY EmptyFile DEF Init
  <2> QED
    BY <2>1 DEF Counted
<1>5. Stacked
  <2>1. Open = {} /\ Len(key_stack) = 0 /\ Len(indent_stack) = 0
    BY <1>1, EmptyFile
  <2>2. Lists(<<>>, 0, {})
    BY DEF Lists
  <2>3. Ascending({}) = <<>>
    BY <2>2, AscendingIs
  <2> QED
    BY <2>1, <2>2, <2>3 DEF Stacked
<1> QED
  BY <1>2, <1>3, <1>4, <1>5 DEF ConfigInv

(* Steps that read no line. *)
LEMMA SameFile ==
    ASSUME UNCHANGED <<file, key_stack, indent_stack, list_counters>>
    PROVE  /\ Stacked' <=> Stacked
           /\ HasSibling' <=> HasSibling
           /\ Counted' <=> Counted
           /\ config_map_' = config_map_ => (Mapped' <=> Mapped)
<1>1. file' = file /\ key_stack' = key_stack /\ indent_stack' = indent_stack /\ list_counters' = list_counters
  OBVIOUS
<1>2. Says' = Says /\ Maps' = Maps
  BY <1>1 DEF Says, Maps
<1>3. Open' = Open
  BY <1>1, <1>2 DEF Open
<1>4. \A i : Ancestors(i)' = Ancestors(i)
  BY <1>1, <1>2 DEF Ancestors, Within
<1>5. \A i : Place(i)' = Place(i)
  BY <1>1, <1>4 DEF Place
<1>6. \A i : KeyOf(i)' = KeyOf(i)
  BY <1>1, <1>2, <1>5 DEF KeyOf, ItemsBefore
<1>7. Settings' = Settings
  BY <1>1, <1>2, <1>5 DEF Settings
<1>8. Stacked' <=> Stacked
  BY <1>1, <1>3 DEF Stacked
<1>9. HasSibling' <=> HasSibling
  BY <1>1, <1>2 DEF HasSibling
<1>10. Counted' <=> Counted
  <2>1. \A p : ItemsAt(p)' = ItemsAt(p)
    BY <1>1, <1>2, <1>5 DEF ItemsAt
  <2> QED
    BY <1>1, <1>2, <1>5, <2>1 DEF Counted
<1>11. config_map_' = config_map_ => (Mapped' <=> Mapped)
  BY <1>1, <1>6, <1>7 DEF Mapped, SetsLast
<1> QED
  BY <1>8, <1>9, <1>10, <1>11

LEMMA LineTyped ==
    ASSUME Typed, NEW e \in Entries, NEW c, GetLine(e, c),
           key_stack' \in Seq(STRING), indent_stack' \in Seq(Nat)
    PROVE  Reads(e) /\ Typed'
<1>1. Reads(e) /\ phase' = phase /\ phase = "reading"
  BY DEF GetLine, Reads
<1>2. file' \in Seq(Entries) /\ Len(file') = Len(file) + 1
  BY <1>1, Appended
<1>3. Len(file') <= MaxLines
  BY <1>2, ConfigAssumption DEF GetLine, Typed
<1> QED
  BY <1>1, <1>2, <1>3 DEF Typed

(* A line that sets nothing. *)
LEMMA QuietLine ==
    ASSUME Typed, Stacked, ~HasSibling => Counted /\ Mapped, NEW e \in Entries, Reads(e),
           UNCHANGED <<list_counters, config_map_>>, ~Sets(e)
    PROVE  ~HasSibling' => Counted' /\ Mapped'
<1> SUFFICES ASSUME ~HasSibling' PROVE Counted' /\ Mapped'
  OBVIOUS
<1>1. Counted /\ Mapped
  BY SiblingStays
<1>2. Settings' = Settings
  BY NewSettings
<1>3. Mapped'
  BY <1>1, <1>2, MapStays
<1>4. Counted'
  BY <1>1, CountStays DEF Sets
<1> QED
  BY <1>3, <1>4

LEMMA BlankStep ==
    ASSUME ConfigInv, NEW e \in Entries, BlankLine(e)
    PROVE  ConfigInv'
<1>1. Typed /\ Stacked /\ (~HasSibling => Counted /\ Mapped)
  BY DEF ConfigInv
<1>2. GetLine(e, <<>>) /\ UNCHANGED <<key_stack, indent_stack, list_counters, config_map_>>
  BY DEF BlankLine
<1>3. Reads(e) /\ Typed'
  BY <1>1, <1>2, LineTyped DEF Typed
<1>4. e.kind = "blank"
  <2>1. StripInlineComment(Text(e)) = <<>>
    BY <1>2 DEF GetLine
  <2> QED
    BY <2>1, LineKinds
<1>5. Stacked'
  <2>1. Says' = Says /\ Maps' = Maps
    BY <1>3, <1>4, NewSays
  <2>2. \A i \in Says : file'[i] = file[i]
    BY <1>1, <1>3, FileFacts, Appended
  <2>3. Maps \subseteq Says /\ Open \subseteq Says
    BY <1>1, FileFacts
  <2>4. Open' = Open
    BY <2>1, <2>2, <2>3 DEF Open
  <2>5. \A n \in 1..Len(key_stack) : Ascending(Open)[n] \in Open
    BY <1>1 DEF Stacked, Lists
  <2> QED
    BY <1>1, <1>2, <2>2, <2>3, <2>4, <2>5 DEF Stacked
<1>6. ~Sets(e)
  BY <1>4 DEF Sets
<1>7. ~HasSibling' => Counted' /\ Mapped'
  BY <1>1, <1>2, <1>3, <1>6, QuietLine
<1> QED
  BY <1>3, <1>5, <1>7 DEF ConfigInv

LEMMA IgnoredStep ==
    ASSUME ConfigInv, NEW e \in Entries, IgnoredLine(e)
    PROVE  ConfigInv'
<1> DEFINE c == StripInlineComment(Text(e))
<1>1. Typed /\ Stacked /\ (~HasSibling => Counted /\ Mapped)
  BY DEF ConfigInv
<1>2. /\ GetLine(e, c) /\ c # <<>> /\ ~IsKeyed(c) /\ (IsItem(c) => Prefix(e) = <<>>)
      /\ PopStacks(e) /\ UNCHANGED <<list_counters, config_map_>>
  BY DEF IgnoredLine
<1>3. e.kind \notin {"blank", "map", "scalar"} /\ (e.kind = "item" => Prefix(e) = <<>>)
  BY <1>2, LineKinds
<1>4. Reads(e)
  BY <1>1, <1>2 DEF GetLine, Reads
<1>5. Stacked' /\ key_stack' \in Seq(STRING) /\ indent_stack' \in Seq(Nat)
  BY <1>1, <1>2, <1>3, <1>4, StackPopped
<1>6. Typed'
  BY <1>1, <1>2, <1>5, LineTyped
<1>7. ~Sets(e)
  BY <1>3 DEF Sets
<1>8. ~HasSibling' => Counted' /\ Mapped'
  BY <1>1, <1>2, <1>4, <1>7, QuietLine
<1> QED
  BY <1>5, <1>6, <1>8 DEF ConfigInv

LEMMA MapStep ==
    ASSUME ConfigInv, NEW e \in Entries, MapStart(e)
    PROVE  ConfigInv'
<1> DEFINE c == StripInlineComment(Text(e))
<1>1. Typed /\ Stacked /\ (~HasSibling => Counted /\ Mapped)
  BY DEF ConfigInv
<1>2. /\ GetLine(e, c) /\ IsKeyed(c) /\ Rest(c) = <<>>
      /\ key_stack' = Append(Prefix(e), Key(c))
      /\ indent_stack' = Append(SubSeq(indent_stack, 1, Kept(e.indent)), e.indent)
      /\ UNCHANGED <<list_counters, config_map_>>
  BY DEF MapStart
<1>3. e.kind = "map" /\ Key(c) = e.key
  BY <1>2, LineKinds
<1>4. Reads(e)
  BY <1>1, <1>2 DEF GetLine, Reads
<1>5. Stacked' /\ key_stack' \in Seq(STRING) /\ indent_stack' \in Seq(Nat)
  BY <1>1, <1>2, <1>3, <1>4, StackPushed
<1>6. Typed'
  BY <1>1, <1>2, <1>5, LineTyped
<1>7. ~Sets(e)
  BY <1>3 DEF Sets
<1>8. ~HasSibling' => Counted' /\ Mapped'
  BY <1>1, <1>2, <1>4, <1>7, QuietLine
<1> QED
  BY <1>5, <1>6, <1>8 DEF ConfigInv

LEMMA ScalarStep ==
    ASSUME ConfigInv, NEW e \in Entries, Scalar(e)
    PROVE  ConfigInv'
<1> DEFINE c == StripInlineComment(Text(e))
<1>1. Typed /\ Stacked /\ (~HasSibling => Counted /\ Mapped)
  BY DEF ConfigInv
<1>2. /\ GetLine(e, c) /\ IsKeyed(c) /\ Rest(c) # <<>>
      /\ Store(Append(Prefix(e), Key(c)), Unquote(Rest(c)))
      /\ PopStacks(e) /\ UNCHANGED list_counters
  BY DEF Scalar
<1>3. e.kind = "scalar" /\ Key(c) = e.key /\ Unquote(Rest(c)) = Stored(e)
  BY <1>2, LineKinds
<1>4. Reads(e)
  BY <1>1, <1>2 DEF GetLine, Reads
<1>5. Stacked' /\ key_stack' \in Seq(STRING) /\ indent_stack' \in Seq(Nat)
  BY <1>1, <1>2, <1>3, <1>4, StackPopped
<1>6. Typed'
  BY <1>1, <1>2, <1>5, LineTyped
<1>7. ASSUME ~HasSibling' PROVE Counted' /\ Mapped'
  <2>1. Counted /\ Mapped
    BY <1>1, <1>4, <1>7, SiblingStays
  <2>2. PICK new : new = Len(file) + 1
    OBVIOUS
  <2>3. Settings' = Settings \union {new}
    BY <1>1, <1>3, <1>4, <1>7, <2>2, NewSettings DEF Sets
  <2>4. KeyOf(new)' = Append(Prefix(e), e.key)
    BY <1>1, <1>3, <1>4, <1>7, <2>2, NewKey DEF KeyFor
  <2>5. config_map_' = Put(config_map_, KeyOf(new)', Stored(e))
    BY <1>2, <1>3, <2>4 DEF Store
  <2>6. Mapped'
    BY <1>4, <2>1, <2>2, <2>3, <2>5, MapGrows
  <2>7. Counted'
    BY <1>1, <1>2, <1>3, <1>4, <1>7, <2>1, CountStays
  <2> QED
    BY <2>6, <2>7
<1> QED
  BY <1>5, <1>6, <1>7 DEF ConfigInv

LEMMA ItemStep ==
    ASSUME ConfigInv, NEW e \in Entries, ListItem(e)
    PROVE  ConfigInv'
<1> DEFINE c == StripInlineComment(Text(e))
           idx == NextIndex(Prefix(e))
<1>1. Typed /\ Stacked /\ (~HasSibling => Counted /\ Mapped)
  BY DEF ConfigInv
<1>2. /\ GetLine(e, c) /\ IsItem(c) /\ Prefix(e) # <<>>
      /\ list_counters' = Put(list_counters, Prefix(e), idx + 1)
      /\ Store(Append(Prefix(e), Decimal(idx)), Unquote(Tail(c)))
      /\ PopStacks(e)
  BY DEF ListItem
<1>3. e.kind = "item" /\ Unquote(Tail(c)) = Stored(e)
  BY <1>2, LineKinds
<1>4. Reads(e)
  BY <1>1, <1>2 DEF GetLine, Reads
<1>5. Stacked' /\ key_stack' \in Seq(STRING) /\ indent_stack' \in Seq(Nat)
  BY <1>1, <1>2, <1>3, <1>4, StackPopped
<1>6. Typed'
  BY <1>1, <1>2, <1>5, LineTyped
<1>7. ASSUME ~HasSibling' PROVE Counted' /\ Mapped'
  <2>1. Counted /\ Mapped
    BY <1>1, <1>4, <1>7, SiblingStays
  <2>2. PICK new : new = Len(file) + 1
    OBVIOUS
  <2>3. Settings' = Settings \union {new}
    BY <1>1, <1>2, <1>3, <1>4, <1>7, <2>2, NewSettings DEF Sets
  <2>4. KeyOf(new)' = Append(Prefix(e), Decimal(Cardinality(ItemsAt(Prefix(e)))))
    BY <1>1, <1>3, <1>4, <1>7, <2>2, NewKey DEF KeyFor
  <2>5. idx = Cardinality(ItemsAt(Prefix(e)))
    BY <1>1, <1>2, <2>1, NextIndexCounts
  <2>6. config_map_' = Put(config_map_, KeyOf(new)', Stored(e))
    BY <1>2, <1>3, <2>4, <2>5 DEF Store
  <2>7. Mapped'
    BY <1>4, <2>1, <2>2, <2>3, <2>6, MapGrows
  <2>8. Counted'
    BY <1>1, <1>2, <1>3, <1>4, <1>7, <2>1, CountGrows
  <2> QED
    BY <2>7, <2>8
<1> QED
  BY <1>5, <1>6, <1>7 DEF ConfigInv

LEMMA ConfigStep == ConfigInv /\ [Next]_vars => ConfigInv'
<1> SUFFICES ASSUME ConfigInv, [Next]_vars PROVE ConfigInv'
  OBVIOUS
<1>1. Typed /\ Stacked /\ (~HasSibling => Counted /\ Mapped)
  BY DEF ConfigInv
<1>2. CASE Load
  <2>1. /\ UNCHANGED <<file, key_stack, indent_stack, list_counters>>
        /\ phase = "new" /\ phase' \in {"reading", "failed"} /\ config_map_' = <<>>
    BY <1>2 DEF Load
  <2>2. Stacked' /\ (HasSibling' <=> HasSibling) /\ (Counted' <=> Counted)
    BY <1>1, <2>1, SameFile
  <2>3. Typed'
    BY <1>1, <2>1 DEF Typed
  <2>4. Mapped'
    <3>1. file' = <<>> /\ config_map_' = <<>>
      BY <1>1, <2>1 DEF Typed
    <3>2. Says' = {} /\ DOMAIN config_map_' = {}
      BY <3>1 DEF Says
    <3>3. Settings' = {}
      BY <3>2 DEF Settings
    <3> QED
      BY <3>2, <3>3 DEF Mapped
  <2> QED
    BY <1>1, <2>2, <2>3, <2>4 DEF ConfigInv
<1>3. CASE \E e \in Entries :
             BlankLine(e) \/ ListItem(e) \/ IgnoredLine(e) \/ MapStart(e) \/ Scalar(e)
  BY <1>3, BlankStep, ItemStep, IgnoredStep, MapStep, ScalarStep
<1>4. CASE EndOfFile \/ UNCHANGED vars
  <2>1. /\ UNCHANGED <<file, key_stack, indent_stack, list_counters, config_map_>>
        /\ phase' = phase \/ phase' = "loaded"
    BY <1>4 DEF EndOfFile, vars
  <2>2. Stacked' /\ (HasSibling' <=> HasSibling) /\ (Counted' <=> Counted) /\ (Mapped' <=> Mapped)
    BY <1>1, <2>1, SameFile
  <2>3. Typed'
    BY <1>1, <2>1 DEF Typed
  <2> QED
    BY <1>1, <2>2, <2>3 DEF ConfigInv
<1> QED
  BY <1>2, <1>3, <1>4 DEF Next

(* In every state the stacks of Load hold the open maps, and, while no map *)
(* has a sibling, its counters and config_map_ are those of the lines that *)
(* were read.                                                              *)
THEOREM ConfigInvariant == Spec => []ConfigInv
BY ConfigInit, ConfigStep, PTL DEF Spec

-----------------------------------------------------------------------------
(* What the getters answer.                                                *)

(* Every key that is set is set by a last line. *)
LEMMA LastSets ==
    ASSUME Typed, NEW i \in Settings
    PROVE  LET S == {k \in Settings : KeyOf(k) = KeyOf(i)} IN
           /\ Max(S) \in Settings /\ KeyOf(Max(S)) = KeyOf(i) /\ SetsLast(Max(S))
<1> DEFINE S == {k \in Settings : KeyOf(k) = KeyOf(i)}
<1>1. S \in SUBSET (0..Len(file)) /\ S # {} /\ Len(file) \in Nat /\ S \in SUBSET Nat
  BY FileFacts
<1>2. PICK k \in S : \A y \in S : k >= y
  BY <1>1, MaxExists
<1>3. Max(S) = k
  BY <1>1, <1>2, MaxIs
<1>4. k \in Settings /\ KeyOf(k) = KeyOf(i)
  OBVIOUS
<1>5. SetsLast(k)
  BY <1>1, <1>2, <1>4 DEF SetsLast
<1> QED
  BY <1>3, <1>4, <1>5

LEMMA NestedFollows == ConfigInv => NestedRight
<1> SUFFICES ASSUME ConfigInv, ~HasSibling
             PROVE  /\ DOMAIN config_map_ = DOMAIN Flattened
                    /\ \A key \in DOMAIN Flattened :
                          Whole(Flattened[key]) => GetString(key, None) = Flattened[key]
  BY DEF NestedRight
<1>1. Typed /\ Mapped
  BY DEF ConfigInv
<1>2. DOMAIN Flattened = {KeyOf(i) : i \in Settings}
  BY DEF Flattened
<1>3. DOMAIN config_map_ = DOMAIN Flattened
  BY <1>1, <1>2 DEF Mapped
<1>4. ASSUME NEW key \in DOMAIN Flattened, Whole(Flattened[key])
      PROVE  GetString(key, None) = Flattened[key]
  <2>1. PICK i \in Settings : key = KeyOf(i)
    BY <1>2
  <2>2. Flattened[key] = file[Max({k \in Settings : KeyOf(k) = KeyOf(i)})].value
    BY <2>1 DEF Flattened
  <2>3. PICK last : last = Max({k \in Settings : KeyOf(k) = KeyOf(i)})
    OBVIOUS
  <2>4. last \in Settings /\ KeyOf(last) = key /\ SetsLast(last)
    BY <1>1, <2>1, <2>3, LastSets
  <2>5. config_map_[key] = Stored(file[last])
    BY <1>1, <2>4 DEF Mapped
  <2>6. file[last] \in Entries /\ Flattened[key] = file[last].value
    BY <1>1, <2>2, <2>3, <2>4, FileFacts
  <2>7. Stored(file[last]) = Flattened[key]
    BY <1>4, <2>6, CutFacts
  <2> QED
    BY <1>3, <2>5, <2>7 DEF GetString
<1> QED
  BY <1>3, <1>4

(* While no map has a sibling, GetString finds every key of the file and   *)
(* no other, and every value that is not a quoted one with a HASH, for     *)
(* files of any length and any entries an author may write.                *)
THEOREM ConfigNestedRight == Spec => []NestedRight
BY ConfigInvariant, NestedFollows, PTL

LEMMA AppendOneToOne ==
    ASSUME NEW T, NEW p \in Seq(T), NEW q \in Seq(T), NEW x, NEW y, Append(p, x) = Append(q, y)
    PROVE  p = q /\ x = y
<1> DEFINE U == T \union {x, y}
<1>1. p \in Seq(U) /\ q \in Seq(U) /\ x \in U /\ y \in U
  OBVIOUS
<1> HIDE DEF U
<1>2. /\ Len(Append(p, x)) = Len(p) + 1 /\ Append(p, x)[Len(p) + 1] = x
      /\ \A n \in 1..Len(p) : Append(p, x)[n] = p[n]
  BY <1>1, Pushed
<1>3. /\ Len(Append(q, y)) = Len(q) + 1 /\ Append(q, y)[Len(q) + 1] = y
      /\ \A n \in 1..Len(q) : Append(q, y)[n] = q[n]
  BY <1>1, Pushed
<1>4. Len(p) \in Nat /\ Len(q) \in Nat /\ Len(p) = Len(q)
  BY <1>1, <1>2, <1>3
<1>5. \A n \in 1..Len(p) : p[n] = q[n]
  BY <1>2, <1>3, <1>4
<1> QED
  BY <1>1, <1>2, <1>3, <1>4, <1>5

LEMMA PlaceType ==
    ASSUME Typed, NEW i \in 1..Len(file)
    PROVE  Place(i) \in Seq(STRING)
<1> DEFINE order == Ascending(Ancestors(i))
           n == Cardinality(Ancestors(i))
<1>1. Ancestors(i) \in SUBSET (1..Len(file)) /\ Lists(order, n, Ancestors(i)) /\ n \in Nat
  BY PlaceOrder, FileFacts, AscendingLists
<1> HIDE DEF order, n
<1>2. DOMAIN order = 1..n /\ \A k \in 1..n : order[k] \in 1..Len(file)
  BY <1>1 DEF Lists
<1>3. \A k \in 1..n : file[order[k]].key \in STRING
  BY <1>2, FileFacts, ConfigAssumption
<1>4. Place(i) = [k \in 1..n |-> file[order[k]].key]
  BY <1>2 DEF Place, order
<1> QED
  BY <1>1, <1>3, <1>4

(* The lines before one of a list. *)
Below(S, x) == {j \in S : j < x}

LEMMA ListsBefore ==
    ASSUME NEW S \in SUBSET Nat, NEW c \in Nat, NEW s, Lists(s, c, S), NEW k \in 1..c
    PROVE  Cardinality(Below(S, s[k])) = k - 1
<1> DEFINE B == {j \in S : j < s[k]}
           t == [n \in 1..(k - 1) |-> s[n]]
<1>1. \A n \in 1..c : s[n] \in S /\ s[n] \in Nat
  BY DEF Lists
<1>2. \A n \in 1..(k - 1) : n \in 1..c /\ s[n] \in B /\ t[n] = s[n]
  BY <1>1 DEF Lists
<1>3. ASSUME NEW x \in B PROVE \E n \in 1..(k - 1) : t[n] = x
  <2>1. PICK n \in 1..c : s[n] = x
    BY DEF Lists
  <2>2. ~(k < n) /\ n # k
    BY <1>1, <2>1 DEF Lists
  <2>3. n \in 1..(k - 1)
    BY <2>2
  <2> QED
    BY <1>2, <2>1, <2>3
<1>4. Lists(t, k - 1, B)
  <2>1. \A i, j \in 1..(k - 1) : i < j => t[i] < t[j]
    BY <1>2 DEF Lists
  <2> QED
    BY <1>2, <1>3, <2>1 DEF Lists
<1> HIDE DEF t
<1>5. B \in SUBSET Nat
  OBVIOUS
<1>6. k - 1 \in Nat
  OBVIOUS
<1> QED
  BY <1>4, <1>5, <1>6, ListsCardinality DEF Below

(* The items of the list at m. *)
ListLines(m) == {i \in Settings : file[i].kind = "item" /\ Place(i) = m}

LEMMA ListLinesOrder ==
    ASSUME Typed, NEW m
    PROVE  LET c == Cardinality(ListLines(m))
               s == Ascending(ListLines(m))
           IN  /\ c \in Nat /\ c <= MaxLines /\ Lists(s, c, ListLines(m))
               /\ \A k \in 1..c : s[k] \in ListLines(m) /\ ItemsBefore(s[k]) = k - 1
<1> DEFINE S == ListLines(m)
           c == Cardinality(S)
           s == Ascending(S)
<1>1. S \in SUBSET (1..Len(file)) /\ Len(file) \in Nat /\ S \in SUBSET Nat
  BY FileFacts DEF ListLines
<1>2. IsFiniteSet(S) /\ c \in Nat /\ Lists(s, c, S)
  BY <1>1, AscendingLists
<1>3. c <= MaxLines
  <2>1. IsFiniteSet(1..Len(file)) /\ Cardinality(1..Len(file)) = Len(file)
    <3>1. \A n \in Nat : IsFiniteSet(1..n) /\ Cardinality(1..n) = n
      BY FS_Interval
    <3> QED
      BY <1>1, <3>1
  <2>2. c <= Len(file)
    BY <1>1, <2>1, FS_Subset
  <2>3. Len(file) <= MaxLines
    BY DEF Typed
  <2> QED
    BY <1>1, <1>2, <2>2, <2>3, ConfigAssumption
<1> HIDE DEF c, s, S
<1>4. ASSUME NEW k \in 1..c PROVE s[k] \in S /\ ItemsBefore(s[k]) = k - 1
  <2>1. s[k] \in S
    BY <1>2 DEF Lists
  <2>2. Cardinality(Below(S, s[k])) = k - 1
    BY <1>1, <1>2, ListsBefore
  <2>3. m # <<>> /\ Place(s[k]) = m
    BY <2>1 DEF S, ListLines, Settings
  <2>4. {j \in Says : j < s[k] /\ file[j].kind = "item" /\ Place(j) = Place(s[k])}
        = Below(S, s[k])
    BY <2>3 DEF Below, S, ListLines, Settings
  <2> QED
    BY <2>1, <2>2, <2>4 DEF ItemsBefore
<1> QED
  BY <1>2, <1>3, <1>4 DEF c, s, S

(* The lines that set m.w, where no key of a map is a number. *)
LEMMA NumberedKeys ==
    ASSUME Typed, NEW m \in Seq(STRING), m \notin Numbered, NEW w \in Numerals,
           NEW i \in Settings, KeyOf(i) = Append(m, w)
    PROVE  i \in ListLines(m) /\ ItemsBefore(i) \in 0..MaxLines /\ w = Decimal(ItemsBefore(i))
<1>1. i \in Says /\ i \in 1..Len(file) /\ Len(file) \in Nat
  BY FileFacts
<1>2. PICK x : x = IF file[i].kind = "item" THEN Decimal(ItemsBefore(i)) ELSE file[i].key
  OBVIOUS
<1>3. KeyOf(i) = Append(Place(i), x)
  BY <1>2 DEF KeyOf
<1>4. Place(i) = m /\ x = w
  <2>1. PICK p : p = Place(i)
    OBVIOUS
  <2>2. p \in Seq(STRING)
    BY <1>1, <2>1, PlaceType
  <2>3. Append(p, x) = Append(m, w)
    BY <1>3, <2>1
  <2>4. p = m /\ x = w
    BY <2>2, <2>3, AppendOneToOne
  <2> QED
    BY <2>1, <2>4
<1>5. file[i].kind = "item"
  <2> SUFFICES ASSUME file[i].kind # "item" PROVE FALSE
    OBVIOUS
  <2>1. file[i].kind = "scalar"
    BY DEF Settings
  <2>2. file[i].key = w
    BY <1>2, <1>4
  <2>3. m \in Numbered
    BY <1>4, <2>1, <2>2 DEF Numbered
  <2> QED
    BY <2>3
<1>6. i \in ListLines(m)
  BY <1>4, <1>5 DEF ListLines
<1>7. PICK k \in 1..Cardinality(ListLines(m)) : Ascending(ListLines(m))[k] = i
  BY <1>6, ListLinesOrder DEF Lists
<1>8. ItemsBefore(i) = k - 1 /\ k - 1 \in 0..MaxLines
  BY <1>7, ListLinesOrder, ConfigAssumption
<1>9. w = Decimal(ItemsBefore(i))
  BY <1>2, <1>4, <1>5
<1> QED
  BY <1>6, <1>8, <1>9

(* The numbers of the first c items, sorted. *)
LEMMA SortedNumerals ==
    ASSUME NEW c \in Nat, c <= MaxLines, NEW words, words = {Decimal(k - 1) : k \in 1..c}
    PROVE  SortByIndex(words) = [k \in 1..c |-> Decimal(k - 1)]
<1> DEFINE t == [k \in 1..c |-> Decimal(k - 1)]
           s == SortByIndex(words)
           N == {k - 1 : k \in 1..c}
           number == [k \in 1..c |-> Stoi(s[k])]
           count == [k \in 1..c |-> k - 1]
<1>1. \A k \in 1..c : k - 1 \in Nat /\ Stoi(Decimal(k - 1)) = k - 1
  BY ConfigAssumption
<1>2. t \in [1..c -> words] /\ DOMAIN t = 1..c /\ \A w \in words : \E i \in DOMAIN t : t[i] = w
  OBVIOUS
<1>3. \A i, j \in DOMAIN t : Stoi(t[i]) = Stoi(t[j]) => i = j
  BY <1>1
<1>4. \A i, j \in DOMAIN t : i < j => Stoi(t[i]) <= Stoi(t[j])
  BY <1>1
<1>5. IsFiniteSet(words) /\ Cardinality(words) = c
  <2>1. t \in Bijection(1..c, words)
    BY <1>2, <1>3 DEF Bijection, Injection, Surjection, IsInjective
  <2>2. IsFiniteSet(1..c) /\ Cardinality(1..c) = c
    BY FS_Interval
  <2> HIDE DEF t
  <2> QED
    BY <2>1, <2>2, FS_Bijection DEF ExistsBijection
<1>6. /\ s \in [1..c -> words] /\ DOMAIN s = 1..c
      /\ \A w \in words : \E i \in DOMAIN s : s[i] = w
      /\ \A i, j \in DOMAIN s : i < j => Stoi(s[i]) <= Stoi(s[j])
  <2>1. \E u \in [1..Cardinality(words) -> words] :
           /\ \A w \in words : \E i \in DOMAIN u : u[i] = w
           /\ \A i, j \in DOMAIN u : i < j => Stoi(u[i]) <= Stoi(u[j])
    <3> HIDE DEF t
    <3> QED
      BY <1>2, <1>4, <1>5
  <2>2. s \in [1..c -> words] /\ (\A w \in words : \E i \in DOMAIN s : s[i] = w)
        /\ \A i, j \in DOMAIN s : i < j => Stoi(s[i]) <= Stoi(s[j])
    BY <1>5, <2>1, Zenon DEF SortByIndex
  <2> HIDE DEF s
  <2> QED
    BY <2>2
<1> HIDE DEF s, t
<1>7. \A i, j \in 1..c : s[i] = s[j] => i = j
  <2>1. s \in Surjection(1..c, words)
    BY <1>6 DEF Surjection
  <2>2. IsFiniteSet(1..c) /\ Cardinality(1..c) = c
    BY FS_Interval
  <2>3. s \in Injection(1..c, words)
    BY <1>5, <2>1, <2>2, FS_Surjection
  <2> QED
    BY <2>3 DEF Injection, IsInjective
<1>8. \A w \in words : Stoi(w) \in N /\ w = Decimal(Stoi(w))
  BY <1>1
<1>9. N \in SUBSET Nat
  BY <1>1
<1>10. Lists(number, c, N)
  <2>1. \A k \in 1..c : s[k] \in words /\ number[k] = Stoi(s[k])
    BY <1>6
  <2>2. number \in [1..c -> N]
    BY <1>8, <2>1
  <2>3. ASSUME NEW n \in N PROVE \E k \in 1..c : number[k] = n
    <3>1. Decimal(n) \in words /\ Stoi(Decimal(n)) = n
      BY <1>1
    <3>2. PICK k \in 1..c : s[k] = Decimal(n)
      BY <1>6, <3>1
    <3> QED
      BY <2>1, <3>1, <3>2
  <2>4. ASSUME NEW i \in 1..c, NEW j \in 1..c, i < j PROVE number[i] < number[j]
    <3>1. number[i] <= number[j]
      BY <1>6, <2>1, <2>4
    <3>2. i # j
      BY <2>4
    <3>3. number[i] # number[j]
      BY <1>7, <1>8, <2>1, <3>2
    <3>4. number[i] \in Nat /\ number[j] \in Nat
      BY <1>9, <2>2
    <3> QED
      BY <3>1, <3>3, <3>4
  <2> HIDE DEF number
  <2> QED
    BY <2>2, <2>3, <2>4 DEF Lists
<1>11. Lists(count, c, N)
  <2>1. count \in [1..c -> N] /\ (\A n \in N : \E k \in 1..c : count[k] = n)
    OBVIOUS
  <2>2. \A i, j \in 1..c : i < j => count[i] < count[j]
    OBVIOUS
  <2> HIDE DEF count, N
  <2> QED
    BY <2>1, <2>2 DEF Lists
<1>12. number = count
  <2> HIDE DEF number, count, N
  <2> QED
    BY <1>9, <1>10, <1>11, ListsUnique
<1>13. \A k \in 1..c : number[k] = k - 1 /\ s[k] \in words
  BY <1>6, <1>12
<1>14. \A k \in 1..c : s[k] = Decimal(k - 1)
  BY <1>8, <1>13
<1> QED
  BY <1>6, <1>14 DEF s

LEMMA ListFollows ==
    ASSUME ConfigInv, ~HasSibling, NEW m \in Seq(STRING), m \notin Numbered
    PROVE  GetStringList(m) = [n \in DOMAIN Ascending(ListLines(m)) |->
                                  Stored(file[Ascending(ListLines(m))[n]])]
<1> DEFINE S == ListLines(m)
           c == Cardinality(S)
           s == Ascending(S)
           suffixes == {w \in Numerals : Append(m, w) \in DOMAIN config_map_}
           t == [k \in 1..c |-> Decimal(k - 1)]
<1>1. Typed /\ Mapped /\ MaxLines \in Nat
  BY ConfigAssumption DEF ConfigInv
<1>2. /\ c \in Nat /\ c <= MaxLines /\ Lists(s, c, S)
      /\ \A k \in 1..c : s[k] \in S /\ ItemsBefore(s[k]) = k - 1
  BY <1>1, ListLinesOrder
<1> HIDE DEF c, s, S
<1>3. \A k \in 1..c : /\ s[k] \in Settings /\ KeyOf(s[k]) = Append(m, Decimal(k - 1))
                      /\ Decimal(k - 1) \in Numerals /\ Stoi(Decimal(k - 1)) = k - 1
  <2>1. \A i \in S : i \in Settings /\ KeyOf(i) = Append(m, Decimal(ItemsBefore(i)))
    BY DEF S, ListLines, KeyOf
  <2>2. \A k \in 1..c : k - 1 \in 0..MaxLines
    BY <1>1, <1>2
  <2> QED
    BY <1>1, <1>2, <2>1, <2>2, ConfigAssumption
<1>4. suffixes = {Decimal(k - 1) : k \in 1..c}
  <2>1. ASSUME NEW w \in suffixes PROVE w \in {Decimal(k - 1) : k \in 1..c}
    <3>1. w \in Numerals /\ Append(m, w) \in DOMAIN config_map_
      OBVIOUS
    <3>2. PICK i \in Settings : KeyOf(i) = Append(m, w)
      BY <1>1, <3>1 DEF Mapped
    <3>3. i \in S /\ w = Decimal(ItemsBefore(i))
      BY <1>1, <3>1, <3>2, NumberedKeys DEF S
    <3>4. PICK k \in 1..c : s[k] = i
      BY <1>2, <3>3 DEF Lists
    <3> QED
      BY <1>2, <3>3, <3>4
  <2>2. ASSUME NEW k \in 1..c PROVE Decimal(k - 1) \in suffixes
    BY <1>1, <1>3 DEF Mapped
  <2> QED
    BY <2>1, <2>2
<1> HIDE DEF suffixes
<1>5. SortByIndex(suffixes) = t
  BY <1>2, <1>4, SortedNumerals
<1>6. ASSUME NEW k \in 1..c
      PROVE  config_map_[Append(m, Decimal(k - 1))] = Stored(file[s[k]])
  <2>1. s[k] \in Settings /\ KeyOf(s[k]) = Append(m, Decimal(k - 1)) /\ Decimal(k - 1) \in Numerals
    BY <1>3
  <2>2. SetsLast(s[k])
    <3> SUFFICES ASSUME NEW i \in Settings, KeyOf(i) = KeyOf(s[k]) PROVE i <= s[k]
      BY DEF SetsLast
    <3>1. i \in S /\ ItemsBefore(i) \in 0..MaxLines /\ Decimal(k - 1) = Decimal(ItemsBefore(i))
      BY <1>1, <2>1, NumberedKeys DEF S
    <3>2. ItemsBefore(i) = k - 1
      BY <1>3, <3>1, ConfigAssumption
    <3>3. PICK l \in 1..c : s[l] = i
      BY <1>2, <3>1 DEF Lists
    <3>4. l = k
      BY <1>2, <3>2, <3>3
    <3>5. i \in Nat
      BY <1>1, FileFacts
    <3> QED
      BY <3>3, <3>4, <3>5
  <2> QED
    BY <1>1, <2>1, <2>2 DEF Mapped
<1>7. GetStringList(m) = [k \in DOMAIN t |-> config_map_[Append(m, t[k])]]
  <2> HIDE DEF t
  <2> QED
    BY <1>5 DEF GetStringList, suffixes
<1>8. GetStringList(m) = [k \in 1..c |-> Stored(file[s[k]])]
  BY <1>6, <1>7
<1>9. DOMAIN s = 1..c
  BY <1>2 DEF Lists
<1> QED
  BY <1>8, <1>9 DEF s, S

LEMMA OrderFollows == ConfigInv => ListsInOrder
<1> SUFFICES ASSUME ConfigInv, ~HasSibling, NEW m \in {Place(i) : i \in Says} \ Numbered
             PROVE  LET order == Ascending(ListLines(m)) IN
                    /\ DOMAIN GetStringList(m) = DOMAIN order
                    /\ \A n \in DOMAIN order :
                          Whole(file[order[n]].value) =>
                              GetStringList(m)[n] = file[order[n]].value
  BY DEF ListsInOrder, ListLines
<1> DEFINE order == Ascending(ListLines(m))
<1>1. m \in Seq(STRING) /\ Typed
  BY FileFacts, PlaceType DEF ConfigInv
<1>2. GetStringList(m) = [n \in DOMAIN order |-> Stored(file[order[n]])]
  BY <1>1, ListFollows
<1>3. \A n \in DOMAIN order : order[n] \in ListLines(m)
  BY <1>1, ListLinesOrder DEF Lists
<1>4. ListLines(m) \subseteq 1..Len(file)
  BY <1>1, FileFacts DEF ListLines
<1> HIDE DEF order
<1>5. \A n \in DOMAIN order : file[order[n]] \in Entries
  BY <1>1, <1>3, <1>4, FileFacts
<1>6. \A n \in DOMAIN order : Whole(file[order[n]].value) =>
         Stored(file[order[n]]) = file[order[n]].value
  BY <1>5, CutFacts
<1> QED
  BY <1>2, <1>6 DEF order

(* While no map has a sibling, GetStringList returns the items of a list   *)
(* in the order of their lines, and never those of another list.           *)
THEOREM ConfigListsInOrder == Spec => []ListsInOrder
BY ConfigInvariant, OrderFollows, PTL

=============================================================================
