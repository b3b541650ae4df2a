----------------------- MODULE SensitiveFilterProofs -----------------------
(***************************************************************************)
(* The two scans of SensitiveFilter are correct for every dictionary and   *)
(* every content.  The trie is related to the words it was filled with,    *)
(* the walk to the content from i to j - 1, and the positions left of i to *)
(* the words that may start there.                                         *)
(***************************************************************************)
EXTENDS SensitiveFilter, TLAPS

(* No configured word starts at position p of the content. *)
Clean(p) == \A w \in BadWords : ~OccursAt(w, text, p)

TrieInv ==
    /\ <<>> \in nodes
    /\ ends = BadWords
    /\ \A w \in BadWords : \A k \in 0..Len(w) : SubSeq(w, 1, k) \in nodes

WalkInv ==
    pc \in {"has", "filter"} =>
        /\ Len(node) = j - i
        /\ \A k \in 1..(j - i) : node[k] = text[i + k - 1]
        /\ \A w \in BadWords : Len(w) <= j - i => ~OccursAt(w, text, i)

HasInv ==
    pc = "has" => \A p \in 1..(i - 1) : Clean(p)

MaskInv ==
    /\ \A k \in 1..Len(text) : result[k] \in {text[k], Star}
    /\ pc = "filter" =>
          /\ HasBadWord(text)
          /\ \A k \in i..Len(text) : result[k] = text[k]
          /\ \A p \in 1..(i - 1) : result[p] = Star \/ Clean(p)
    /\ pc = "has" => result = text
    /\ pc = "done" /\ kind = "text" =>
          \A p \in 1..Len(text) : result[p] = Star \/ Clean(p)
    /\ pc \in {"load", "ready"} => text = <<>>

FilterInv ==
    /\ TypeOK
    /\ TrieInv
    /\ WalkInv
    /\ HasInv
    /\ MaskInv
    /\ OnlyWordsMasked

-----------------------------------------------------------------------------
(* Configured words are sequences without the mask. *)
LEMMA BadWordFacts ==
    ASSUME TypeOK
    PROVE  \A w \in BadWords : /\ w \in Seq(Chars \ {Star})
                               /\ w \in Seq(Chars)
                               /\ Len(w) \in Nat \ {0}
<1>1. ASSUME NEW w \in BadWords
      PROVE  w \in Seq(Chars \ {Star}) /\ w \in Seq(Chars) /\ Len(w) \in Nat \ {0}
  <2>1. w \in Seq(Chars \ {Star}) /\ w # <<>>
    BY <1>1, FilterAssumption DEF BadWords, TypeOK
  <2>2. Len(w) \in Nat \ {0}
    BY <2>1
  <2>3. w \in Seq(Chars)
    BY <2>1
  <2> QED BY <2>1, <2>2, <2>3
<1> QED BY <1>1

(* What Child is when the walk has not left the content. *)
LEMMA ChildFacts ==
    ASSUME TypeOK, WalkInv, pc \in {"has", "filter"}, j <= Len(text)
    PROVE  /\ Child \in Seq(Chars)
           /\ Len(Child) = j - i + 1
           /\ \A k \in 1..(j - i + 1) : Child[k] = text[i + k - 1]
<1>1. /\ node \in Seq(Chars)
      /\ text \in Seq(Chars)
      /\ i \in Nat \ {0} /\ j \in Nat \ {0} /\ i <= j
      /\ text[j] \in Chars
      /\ Len(node) = j - i
      /\ \A k \in 1..(j - i) : node[k] = text[i + k - 1]
  BY DEF TypeOK, WalkInv
<1>2. Child \in Seq(Chars) /\ Len(Child) = j - i + 1
  BY <1>1 DEF Child
<1>3. ASSUME NEW k \in 1..(j - i + 1) PROVE Child[k] = text[i + k - 1]
  <2>1. CASE k = j - i + 1
    <3>1. Child[Len(node) + 1] = text[j]
      BY <1>1 DEF Child
    <3> QED BY <3>1, <2>1, <1>1
  <2>2. CASE k # j - i + 1
    <3>1. k \in 1..Len(node)
      BY <2>2, <1>1
    <3>2. Child[k] = node[k]
      BY <3>1, <1>1 DEF Child
    <3> QED BY <3>1, <3>2, <1>1
  <2> QED BY <2>1, <2>2
<1> QED BY <1>2, <1>3

(* A break of the inner loop: no configured word starts at i. *)
LEMMA BreakIsClean ==
    ASSUME TypeOK, TrieInv, WalkInv, pc \in {"has", "filter"}, ~CanDescend
    PROVE  Clean(i)
<1> SUFFICES ASSUME NEW w \in BadWords, OccursAt(w, text, i)
             PROVE  FALSE
  BY DEF Clean
<1>1. w \in Seq(Chars) /\ Len(w) \in Nat \ {0}
  BY BadWordFacts
<1>2. i \in Nat \ {0} /\ j \in Nat \ {0} /\ i <= j /\ Len(text) \in Nat
  BY DEF TypeOK
<1>3. Len(w) > j - i
  BY <1>1, <1>2 DEF WalkInv
<1>4. j <= Len(text)
  BY <1>1, <1>2, <1>3 DEF OccursAt
<1> DEFINE p == SubSeq(w, 1, j - i + 1)
<1>5. p \in nodes
  BY <1>1, <1>2, <1>3 DEF TrieInv
<1>6. /\ p \in Seq(Chars)
      /\ Len(p) = j - i + 1
      /\ \A k \in 1..(j - i + 1) : p[k] = w[k]
  BY <1>1, <1>2, <1>3
<1>7. \A k \in 1..(j - i + 1) : p[k] = text[i + k - 1]
  BY <1>1, <1>2, <1>3, <1>6 DEF OccursAt
<1>8. Child = p
  <2> HIDE DEF p
  <2>1. /\ Child \in Seq(Chars) /\ Len(Child) = j - i + 1
        /\ \A k \in 1..(j - i + 1) : Child[k] = p[k]
    BY ChildFacts, <1>4, <1>7
  <2> QED BY <2>1, <1>6
<1> QED BY <1>4, <1>5, <1>8 DEF CanDescend

(* A step down: words as long as the walk are still not found. *)
LEMMA DescendUnfound ==
    ASSUME TypeOK, TrieInv, WalkInv, pc \in {"has", "filter"},
           j <= Len(text), Child \notin ends
    PROVE  \A w \in BadWords : Len(w) <= j + 1 - i => ~OccursAt(w, text, i)
<1> SUFFICES ASSUME NEW w \in BadWords, Len(w) <= j + 1 - i, OccursAt(w, text, i)
             PROVE  FALSE
  OBVIOUS
<1>1. w \in Seq(Chars) /\ Len(w) \in Nat \ {0}
  BY BadWordFacts
<1>2. i \in Nat \ {0} /\ j \in Nat \ {0} /\ i <= j /\ Len(text) \in Nat
  BY DEF TypeOK
<1>3. Len(w) = j - i + 1
  <2>1. Len(w) > j - i
    BY <1>1, <1>2 DEF WalkInv
  <2> QED BY <2>1, <1>1, <1>2
<1>4. \A k \in 1..(j - i + 1) : w[k] = text[i + k - 1]
  BY <1>3 DEF OccursAt
<1>5. Child = w
  BY ChildFacts, <1>1, <1>3, <1>4
<1> QED BY <1>5 DEF TrieInv

(* A match: the node reached is a configured word that stands at i. *)
LEMMA MatchOccurs ==
    ASSUME TypeOK, TrieInv, WalkInv, pc \in {"has", "filter"},
           j <= Len(text), Child \in ends
    PROVE  /\ Child \in BadWords
           /\ OccursAt(Child, text, i)
           /\ Len(Child) = j - i + 1
<1>1. i \in Nat \ {0} /\ j \in Nat \ {0} /\ i <= j /\ Len(text) \in Nat
  BY DEF TypeOK
<1>2. /\ Len(Child) = j - i + 1
      /\ \A k \in 1..(j - i + 1) : Child[k] = text[i + k - 1]
  BY ChildFacts
<1>3. OccursAt(Child, text, i)
  BY <1>1, <1>2 DEF OccursAt
<1> QED BY <1>2, <1>3 DEF TrieInv

-----------------------------------------------------------------------------
LEMMA FilterInvInit == Init => FilterInv
<1> SUFFICES ASSUME Init PROVE FilterInv
  OBVIOUS
<1> USE DEF Init
<1>1. <<>> \in Seq(Chars) /\ Len(<<>>) = 0
  OBVIOUS
<1>2. TypeOK
  BY <1>1 DEF TypeOK
<1>3. TrieInv /\ WalkInv /\ HasInv
  BY DEF TrieInv, WalkInv, HasInv, BadWords
<1>4. MaskInv /\ OnlyWordsMasked
  BY <1>1 DEF MaskInv, OnlyWordsMasked
<1> QED BY <1>2, <1>3, <1>4 DEF FilterInv

(* AddWord keeps the trie the set of prefixes of the words. *)
LEMMA AddWordStep ==
    ASSUME FilterInv, NEW w \in Words, AddWord(w)
    PROVE  FilterInv'
<1>1. w \in Seq(Chars) /\ text = <<>> /\ Len(text) = 0 /\ pc = "load"
  BY FilterAssumption DEF FilterInv, MaskInv, AddWord
<1>2. /\ pc' = pc /\ kind' = kind /\ text' = text /\ result' = result
      /\ i' = i /\ j' = j /\ node' = node
  BY DEF AddWord, message, walk
<1>3. /\ words' = words \union {w}
      /\ nodes' = nodes \union Prefixes(w)
      /\ ends' = ends \union ({w} \ {<<>>})
  BY DEF AddWord
<1>4. \A k \in 0..Len(w) : SubSeq(w, 1, k) \in Seq(Chars)
  BY <1>1
<1>5. Prefixes(w) \subseteq Seq(Chars)
  BY <1>4 DEF Prefixes
<1>6. w \in Prefixes(w)
  <2>1. SubSeq(w, 1, Len(w)) = w /\ Len(w) \in 0..Len(w)
    BY <1>1
  <2> QED BY <2>1 DEF Prefixes
<1>7. TypeOK'
  BY <1>2, <1>3, <1>5, <1>6 DEF FilterInv, TypeOK
<1>8. TrieInv'
  <2>1. BadWords' = BadWords \union ({w} \ {<<>>})
    BY <1>3 DEF BadWords
  <2>2. ASSUME NEW v \in BadWords', NEW k \in 0..Len(v) PROVE SubSeq(v, 1, k) \in nodes'
    BY <2>1, <2>2, <1>3 DEF FilterInv, TrieInv, Prefixes
  <2> QED BY <2>1, <2>2, <1>3 DEF FilterInv, TrieInv
<1>9. WalkInv' /\ HasInv'
  BY <1>1, <1>2 DEF WalkInv, HasInv
<1>10. MaskInv' /\ OnlyWordsMasked'
  BY <1>1, <1>2 DEF MaskInv, OnlyWordsMasked
<1> QED BY <1>7, <1>8, <1>9, <1>10 DEF FilterInv

(* Steps that leave the trie alone leave what it says of words alone. *)
LEMMA TrieKept ==
    ASSUME TrieInv, UNCHANGED trie
    PROVE  TrieInv' /\ BadWords' = BadWords
BY DEF TrieInv, BadWords, trie

(* A new message, filtered or passed on. *)
LEMMA ProcessSendStep ==
    ASSUME FilterInv, NEW k \in {"text", "other"}, NEW t \in Texts, ProcessSend(k, t)
    PROVE  FilterInv'
<1>1. t \in Seq(Chars) /\ Len(t) \in Nat /\ UNCHANGED trie
  BY FilterAssumption DEF ProcessSend
<1>2. TrieInv' /\ BadWords' = BadWords
  BY <1>1, TrieKept DEF FilterInv
<1>3. /\ kind' = k /\ text' = t /\ result' = t
      /\ i' = 1 /\ j' = 1 /\ node' = <<>>
      /\ pc' = IF k = "text" /\ t # <<>> /\ nodes # {<<>>} THEN "has" ELSE "done"
  BY DEF ProcessSend, StartAt
<1>4. <<>> \in nodes'
  BY <1>1 DEF FilterInv, TrieInv, trie
<1>5. TypeOK'
  BY <1>1, <1>3, <1>4 DEF FilterInv, TypeOK, trie
<1>6. WalkInv'
  <2>1. ASSUME NEW w \in BadWords PROVE Len(w) \in Nat \ {0}
    BY BadWordFacts DEF FilterInv
  <2>2. Len(<<>>) = 0
    OBVIOUS
  <2> QED BY <1>2, <1>3, <2>1, <2>2 DEF WalkInv
<1>7. HasInv'
  BY <1>3 DEF HasInv
<1>8. pc' = "done" /\ kind' = "text" => \A p \in 1..Len(text') : Clean(p)'
  <2> SUFFICES ASSUME pc' = "done", kind' = "text",
                      NEW p \in 1..Len(t), NEW w \in BadWords, OccursAt(w, t, p)
               PROVE  FALSE
    BY <1>2, <1>3 DEF Clean, OccursAt
  <2>1. t = <<>> \/ nodes = {<<>>}
    BY <1>3
  <2>2. CASE t = <<>>
    BY <2>2
  <2>3. CASE nodes = {<<>>}
    <3>1. w \in nodes /\ w # <<>>
      BY DEF FilterInv, TrieInv, TypeOK, BadWords
    <3> QED BY <3>1, <2>3
  <2> QED BY <2>1, <2>2, <2>3
<1>9. MaskInv'
  BY <1>3, <1>8 DEF MaskInv
<1>10. OnlyWordsMasked'
  BY <1>3 DEF OnlyWordsMasked
<1> QED BY <1>2, <1>5, <1>6, <1>7, <1>9, <1>10 DEF FilterInv

(* One node further down, in either scan. *)
LEMMA DescendStep ==
    ASSUME FilterInv, HasDescend \/ FilterDescend
    PROVE  FilterInv'
<1>1. /\ UNCHANGED trie /\ UNCHANGED message /\ pc' = pc /\ i' = i
      /\ pc \in {"has", "filter"}
      /\ j <= Len(text) /\ Child \in nodes /\ Child \notin ends
      /\ node' = Child /\ j' = j + 1
  BY DEF HasDescend, FilterDescend, CanDescend
<1>2. TrieInv' /\ BadWords' = BadWords
  BY <1>1, TrieKept DEF FilterInv
<1>3. kind' = kind /\ text' = text /\ result' = result /\ nodes' = nodes /\ ends' = ends /\ words' = words
  BY <1>1 DEF message, trie
<1>4. TypeOK'
  BY <1>1, <1>3 DEF FilterInv, TypeOK
<1>5. WalkInv'
  <2>1. /\ Len(Child) = j - i + 1
        /\ \A k \in 1..(j - i + 1) : Child[k] = text[i + k - 1]
    BY <1>1, ChildFacts DEF FilterInv
  <2>2. \A w \in BadWords : Len(w) <= j + 1 - i => ~OccursAt(w, text, i)
    BY <1>1, DescendUnfound DEF FilterInv
  <2>3. i \in Int /\ j \in Int /\ j + 1 - i = j - i + 1
    BY DEF FilterInv, TypeOK
  <2> QED BY <1>1, <1>2, <1>3, <2>1, <2>2, <2>3 DEF WalkInv, OccursAt
<1>6. HasInv' /\ MaskInv'
  BY <1>1, <1>2, <1>3 DEF FilterInv, HasInv, MaskInv, Clean, OccursAt, HasBadWord
<1>7. OnlyWordsMasked'
  BY <1>2, <1>3 DEF FilterInv, OnlyWordsMasked, OccursAt
<1> QED BY <1>2, <1>4, <1>5, <1>6, <1>7 DEF FilterInv

(* What a fresh walk from position a gives. *)
LEMMA FreshWalk ==
    ASSUME FilterInv, UNCHANGED trie, text' = text,
           NEW p \in 1..(Len(text) + 1), StartAt(p)
    PROVE  WalkInv' /\ i' = p /\ j' = p /\ node' = <<>> /\ node' \in nodes'
<1>1. i' = p /\ j' = p /\ node' = <<>>
  BY DEF StartAt
<1>2. TrieInv' /\ BadWords' = BadWords
  BY TrieKept DEF FilterInv
<1>3. \A w \in BadWords : Len(w) \in Nat \ {0}
  BY BadWordFacts DEF FilterInv
<1>4. Len(<<>>) = 0
  OBVIOUS
<1>5. WalkInv'
  BY <1>1, <1>2, <1>3, <1>4 DEF WalkInv
<1> QED BY <1>1, <1>2, <1>5 DEF TrieInv

(* HasSensitiveWord returns true and Filter starts. *)
LEMMA HasMatchStep ==
    ASSUME FilterInv, HasMatch
    PROVE  FilterInv'
<1>1. /\ UNCHANGED trie /\ UNCHANGED message /\ pc = "has" /\ pc' = "filter"
      /\ i <= Len(text) /\ j <= Len(text) /\ Child \in ends /\ StartAt(1)
  BY DEF HasMatch, CanDescend
<1>2. TrieInv' /\ BadWords' = BadWords
  BY <1>1, TrieKept DEF FilterInv
<1>3. kind' = kind /\ text' = text /\ result' = result /\ nodes' = nodes /\ ends' = ends /\ words' = words
  BY <1>1 DEF message, trie
<1>4. Len(text) \in Nat /\ i \in Nat \ {0}
  BY DEF FilterInv, TypeOK
<1>5. WalkInv' /\ i' = 1 /\ j' = 1 /\ node' = <<>> /\ node' \in nodes'
  BY <1>1, <1>3, <1>4, FreshWalk
<1>6. TypeOK'
  BY <1>1, <1>3, <1>4, <1>5 DEF FilterInv, TypeOK
<1>7. HasBadWord(text)
  BY <1>1, <1>4, MatchOccurs DEF FilterInv, HasBadWord
<1>8. HasInv' /\ MaskInv'
  BY <1>1, <1>2, <1>3, <1>5, <1>7 DEF FilterInv, HasInv, MaskInv, Clean, OccursAt, HasBadWord
<1>9. OnlyWordsMasked'
  BY <1>2, <1>3 DEF FilterInv, OnlyWordsMasked, OccursAt
<1> QED BY <1>2, <1>5, <1>6, <1>8, <1>9 DEF FilterInv

(* The outer loop goes on behind a position where no word starts. *)
LEMMA NextStep ==
    ASSUME FilterInv, HasNext \/ FilterNext
    PROVE  FilterInv'
<1>1. /\ UNCHANGED trie /\ UNCHANGED message /\ pc' = pc
      /\ pc \in {"has", "filter"}
      /\ i <= Len(text) /\ ~CanDescend /\ StartAt(i + 1)
  BY DEF HasNext, FilterNext
<1>2. TrieInv' /\ BadWords' = BadWords
  BY <1>1, TrieKept DEF FilterInv
<1>3. kind' = kind /\ text' = text /\ result' = result /\ nodes' = nodes /\ ends' = ends /\ words' = words
  BY <1>1 DEF message, trie
<1>4. Len(text) \in Nat /\ i \in Nat \ {0}
  BY DEF FilterInv, TypeOK
<1>5. WalkInv' /\ i' = i + 1 /\ j' = i + 1 /\ node' = <<>> /\ node' \in nodes'
  BY <1>1, <1>3, <1>4, FreshWalk
<1>6. TypeOK'
  BY <1>1, <1>3, <1>4, <1>5 DEF FilterInv, TypeOK
<1>7. Clean(i)
  BY <1>1, BreakIsClean DEF FilterInv
<1>8. \A p : Clean(p)' <=> Clean(p)
  BY <1>2, <1>3 DEF Clean, OccursAt
<1>9. \A p \in 1..(i' - 1) : p \in 1..(i - 1) \/ p = i
  BY <1>4, <1>5
<1>10. HasInv'
  BY <1>1, <1>7, <1>8, <1>9 DEF FilterInv, HasInv
<1>11. MaskInv'
  BY <1>1, <1>2, <1>3, <1>4, <1>5, <1>7, <1>8, <1>9
  DEF FilterInv, MaskInv, OccursAt, HasBadWord
<1>12. OnlyWordsMasked'
  BY <1>2, <1>3 DEF FilterInv, OnlyWordsMasked, OccursAt
<1> QED BY <1>2, <1>5, <1>6, <1>10, <1>11, <1>12 DEF FilterInv

(* A match is masked and the scan goes on behind it. *)
LEMMA FilterMatchStep ==
    ASSUME FilterInv, FilterMatch
    PROVE  FilterInv'
<1>1. /\ UNCHANGED trie /\ pc' = pc /\ kind' = kind /\ text' = text
      /\ pc = "filter"
      /\ i <= Len(text) /\ j <= Len(text) /\ Child \in ends
      /\ result' = Masked(i, j) /\ StartAt(j + 1)
  BY DEF FilterMatch, CanDescend
<1>2. TrieInv' /\ BadWords' = BadWords
  BY <1>1, TrieKept DEF FilterInv
<1>3. nodes' = nodes /\ ends' = ends /\ words' = words
  BY <1>1 DEF trie
<1>4. /\ Len(text) \in Nat /\ Len(result) = Len(text)
      /\ i \in Nat \ {0} /\ j \in Nat \ {0} /\ i <= j
      /\ result \in Seq(Chars) /\ Star \in Chars
  BY FilterAssumption DEF FilterInv, TypeOK
<1>5. WalkInv' /\ i' = j + 1 /\ j' = j + 1 /\ node' = <<>> /\ node' \in nodes'
  BY <1>1, <1>4, FreshWalk
<1>6. /\ result' \in Seq(Chars)
      /\ Len(result') = Len(text)
      /\ \A k \in 1..Len(text) : result'[k] = IF k \in i..j THEN Star ELSE result[k]
  BY <1>1, <1>4 DEF Masked
<1>7. TypeOK'
  BY <1>1, <1>3, <1>4, <1>5, <1>6 DEF FilterInv, TypeOK
<1>8. /\ Child \in BadWords
      /\ OccursAt(Child, text, i)
      /\ Len(Child) = j - i + 1
  BY <1>1, MatchOccurs DEF FilterInv
<1>9. \A p : Clean(p)' <=> Clean(p)
  BY <1>1, <1>2 DEF Clean, OccursAt
<1>10. HasInv'
  BY <1>1 DEF HasInv
<1>11. MaskInv'
  <2>1. \A k \in 1..Len(text') : result'[k] \in {text'[k], Star}
    BY <1>1, <1>6 DEF FilterInv, MaskInv
  <2>2. HasBadWord(text)'
    BY <1>1, <1>2 DEF FilterInv, MaskInv, HasBadWord, OccursAt
  <2>3. \A k \in i'..Len(text') : result'[k] = text'[k]
    BY <1>1, <1>4, <1>5, <1>6 DEF FilterInv, MaskInv
  <2>4. ASSUME NEW p \in 1..(i' - 1) PROVE result'[p] = Star \/ Clean(p)'
    <3>1. p \in i..j \/ p \in 1..(i - 1)
      BY <1>4, <1>5
    <3>2. p \in 1..Len(text)
      BY <1>1, <1>4, <1>5
    <3> QED BY <3>1, <3>2, <1>1, <1>6, <1>9 DEF FilterInv, MaskInv
  <2> QED BY <2>1, <2>2, <2>3, <2>4, <1>1 DEF MaskInv
<1>12. OnlyWordsMasked'
  <2> SUFFICES ASSUME NEW k \in 1..Len(text), result'[k] # text[k]
               PROVE  /\ result'[k] = Star
                      /\ \E w \in BadWords, a \in 1..k :
                            OccursAt(w, text, a) /\ k < a + Len(w)
    BY <1>1, <1>2 DEF OnlyWordsMasked, OccursAt
  <2>1. CASE k \in i..j
    <3>1. i \in 1..k /\ k < i + Len(Child)
      BY <2>1, <1>4, <1>8
    <3> QED BY <2>1, <3>1, <1>6, <1>8
  <2>2. CASE k \notin i..j
    BY <2>2, <1>6 DEF FilterInv, OnlyWordsMasked
  <2> QED BY <2>1, <2>2
<1> QED BY <1>2, <1>5, <1>7, <1>10, <1>11, <1>12 DEF FilterInv

(* Either scan is over. *)
LEMMA ReturnsStep ==
    ASSUME FilterInv, HasReturnsFalse \/ FilterReturns
    PROVE  FilterInv'
<1>1. /\ UNCHANGED trie /\ UNCHANGED message /\ UNCHANGED walk /\ pc' = "done"
      /\ pc \in {"has", "filter"} /\ i > Len(text)
  BY DEF HasReturnsFalse, FilterReturns
<1>2. TrieInv' /\ BadWords' = BadWords
  BY <1>1, TrieKept DEF FilterInv
<1>3. /\ kind' = kind /\ text' = text /\ result' = result
      /\ nodes' = nodes /\ ends' = ends /\ words' = words
      /\ i' = i /\ j' = j /\ node' = node
  BY <1>1 DEF message, trie, walk
<1>4. TypeOK'
  BY <1>1, <1>3 DEF FilterInv, TypeOK
<1>5. WalkInv' /\ HasInv'
  BY <1>1 DEF WalkInv, HasInv
<1>6. \A p : Clean(p)' <=> Clean(p)
  BY <1>2, <1>3 DEF Clean, OccursAt
<1>7. \A p \in 1..Len(text) : p \in 1..(i - 1)
  BY <1>1 DEF FilterInv, TypeOK
<1>8. \A p \in 1..Len(text) : result[p] = Star \/ Clean(p)
  BY <1>1, <1>7 DEF FilterInv, HasInv, MaskInv
<1>9. MaskInv'
  BY <1>1, <1>3, <1>6, <1>8 DEF FilterInv, MaskInv
<1>10. OnlyWordsMasked'
  BY <1>2, <1>3 DEF FilterInv, OnlyWordsMasked, OccursAt
<1> QED BY <1>2, <1>4, <1>5, <1>9, <1>10 DEF FilterInv

(* The server starts, or the handler returns. *)
LEMMA IdleStep ==
    ASSUME FilterInv, StartGrpcServer \/ Return
    PROVE  FilterInv'
<1>1. /\ UNCHANGED trie /\ pc' = "ready" /\ text' = <<>> /\ Len(text') = 0
      /\ kind' \in {"text", "other"} /\ result' \in Seq(Chars) /\ Len(result') = 0
      /\ i' = 1 /\ j' = 1 /\ node' \in nodes
  BY DEF FilterInv, TypeOK, MaskInv, TrieInv, StartGrpcServer, Return, StartAt, message, walk
<1>2. TrieInv' /\ BadWords' = BadWords
  BY <1>1, TrieKept DEF FilterInv
<1>3. TypeOK'
  BY <1>1 DEF FilterInv, TypeOK, trie
<1>4. WalkInv' /\ HasInv' /\ MaskInv' /\ OnlyWordsMasked'
  BY <1>1 DEF WalkInv, HasInv, MaskInv, OnlyWordsMasked
<1> QED BY <1>2, <1>3, <1>4 DEF FilterInv

(* FilterInv is inductive. *)
LEMMA FilterInvStep == FilterInv /\ [Next]_vars => FilterInv'
<1> SUFFICES ASSUME FilterInv, [Next]_vars PROVE FilterInv'
  OBVIOUS
<1>1. CASE Load
  BY <1>1, IdleStep, AddWordStep DEF Load
<1>2. CASE \E k \in {"text", "other"}, t \in Texts : ProcessSend(k, t)
  BY <1>2, ProcessSendStep
<1>3. CASE Scan
  BY <1>3, DescendStep, HasMatchStep, NextStep, FilterMatchStep, ReturnsStep DEF Scan
<1>4. CASE Return
  BY <1>4, IdleStep
<1>5. CASE UNCHANGED vars
  <2>1. UNCHANGED <<words, nodes, ends, pc, kind, text, result, i, j, node>>
    BY <1>5 DEF vars, trie, message, walk
  <2> QED
    BY <2>1 DEF FilterInv, TypeOK, TrieInv, WalkInv, HasInv, MaskInv, OnlyWordsMasked,
                Clean, BadWords, HasBadWord, OccursAt
<1> QED BY <1>1, <1>2, <1>3, <1>4, <1>5 DEF Next

(* FilterInv holds in every reachable state. *)
THEOREM FilterInvariant == Spec => []FilterInv
<1>1. Init => FilterInv
  BY FilterInvInit
<1>2. FilterInv /\ [Next]_vars => FilterInv'
  BY FilterInvStep
<1> QED BY <1>1, <1>2, PTL DEF Spec

(* The loops of HasSensitiveWord and Filter never index outside the        *)
(* content or the trie.                                                    *)
THEOREM FilterTypeCorrect == Spec => []TypeOK
<1>1. FilterInv => TypeOK
  BY DEF FilterInv
<1> QED BY <1>1, FilterInvariant, PTL

(* HasSensitiveWord is exact for every dictionary and content. *)
THEOREM HasSensitiveWordExact == Spec => []DetectionExact
<1>1. FilterInv => DetectionExact
  <2> SUFFICES ASSUME FilterInv PROVE DetectionExact
    OBVIOUS
  <2>1. pc = "filter" => HasBadWord(text)
    BY DEF FilterInv, MaskInv
  <2>2. pc = "has" /\ i > Len(text) => \A p \in 1..Len(text) : Clean(p)
    BY DEF FilterInv, TypeOK, HasInv
  <2>3. pc = "has" /\ i > Len(text) => ~HasBadWord(text)
    BY <2>2 DEF HasBadWord, Clean
  <2> QED BY <2>1, <2>3 DEF DetectionExact
<1> QED BY <1>1, FilterInvariant, PTL

(* Filter leaves no configured word in the content that is saved. *)
THEOREM FilterComplete == Spec => []NoWordLeft
<1>1. FilterInv => NoWordLeft
  <2> SUFFICES ASSUME FilterInv, pc = "done", kind = "text",
                      NEW w \in BadWords, NEW a \in 1..Len(result), OccursAt(w, result, a)
               PROVE  FALSE
    BY DEF NoWordLeft, HasBadWord
  <2>1. w \in Seq(Chars \ {Star}) /\ Len(w) \in Nat \ {0}
    BY BadWordFacts DEF FilterInv
  <2>2. Len(text) \in Nat /\ Len(result) = Len(text)
    BY DEF FilterInv, TypeOK
  <2>3. ASSUME NEW k \in 1..Len(w)
        PROVE  /\ a + k - 1 \in 1..Len(text)
               /\ result[a + k - 1] # Star
               /\ text[a + k - 1] = w[k]
    <3>1. a + k - 1 \in 1..Len(text) /\ result[a + k - 1] = w[k] /\ w[k] # Star
      BY <2>1, <2>2 DEF OccursAt
    <3> QED BY <3>1 DEF FilterInv, MaskInv
  <2>4. OccursAt(w, text, a)
    BY <2>2, <2>3 DEF OccursAt
  <2>5. result[a] # Star
    <3>1. 1 \in 1..Len(w) /\ a + 1 - 1 = a
      BY <2>1
    <3> QED BY <3>1, <2>3
  <2> QED BY <2>2, <2>4, <2>5 DEF FilterInv, MaskInv, Clean
<1> QED BY <1>1, FilterInvariant, PTL

(* Filter changes characters of configured words only. *)
THEOREM FilterSound == Spec => []OnlyWordsMasked
<1>1. FilterInv => OnlyWordsMasked
  BY DEF FilterInv
<1> QED BY <1>1, FilterInvariant, PTL

=============================================================================
