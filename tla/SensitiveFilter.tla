-------------------------- MODULE SensitiveFilter --------------------------
(***************************************************************************)
(* The trie of sensitive words and the two scans that ProcessSend of both  *)
(* chat handlers runs over the content of a text message:                  *)
(* HasSensitiveWord, which stops at the first match, and Filter, which     *)
(* masks every match it meets.  A trie node is identified with the path    *)
(* that leads to it, so root_ is <<>> and a child of n is Append(n, c).    *)
(* main fills the trie before the server starts and nothing changes it     *)
(* later, so concurrent calls do not meet and one call at a time is enough. *)
(***************************************************************************)
EXTENDS Integers, Sequences, FiniteSets

CONSTANTS
    Chars,     \* the characters of words and contents
    Star,      \* the mask
    Words,     \* words the configuration may list, the empty one included
    Texts,     \* contents
    MaxWords   \* bound on the number of configured words

(* A configured word with the mask character in it could be made by        *)
(* masking; the shipped configuration has none.                            *)
ASSUME FilterAssumption ==
    /\ Star \in Chars
    /\ Words \subseteq Seq(Chars \ {Star})
    /\ Texts \subseteq Seq(Chars)
    /\ MaxWords \in Nat

VARIABLES
    words,     \* what Init was given so far
    nodes,     \* the nodes of the trie
    ends,      \* those with is_end
    pc,        \* load, ready, has, filter, done
    kind,      \* msg_type: text or other
    text,      \* msg.content as received
    result,    \* msg.content as it will be saved
    i, j,      \* the loop variables, from 1
    node       \* the trie node of the walk

trie == <<words, nodes, ends>>
message == <<kind, text, result>>
walk == <<i, j, node>>
vars == <<trie, pc, message, walk>>

Init ==
    /\ words = {}
    /\ nodes = {<<>>}
    /\ ends = {}
    /\ pc = "load"
    /\ kind = "other"
    /\ text = <<>>
    /\ result = <<>>
    /\ i = 1
    /\ j = 1
    /\ node = <<>>

-----------------------------------------------------------------------------
(* main and Init.                                                          *)

Prefixes(w) == {SubSeq(w, 1, k) : k \in 0..Len(w)}

(* AddWord makes the missing nodes along the word and marks the last one.  *)
(* It returns at once on an empty word.                                    *)
AddWord(w) ==
    /\ pc = "load"
    /\ Cardinality(words) < MaxWords
    /\ words' = words \union {w}
    /\ nodes' = nodes \union Prefixes(w)
    /\ ends' = ends \union ({w} \ {<<>>})
    /\ UNCHANGED <<pc, message, walk>>

(* The gRPC server is started on the filled trie. *)
StartGrpcServer ==
    /\ pc = "load"
    /\ pc' = "ready"
    /\ UNCHANGED <<trie, message, walk>>

-----------------------------------------------------------------------------
(* ProcessSend.                                                            *)

StartAt(a) ==
    /\ i' = a
    /\ j' = a
    /\ node' = <<>>

(* Only text is filtered, and HasSensitiveWord returns false at once for   *)
(* an empty content or an empty trie.                                      *)
ProcessSend(k, t) ==
    /\ pc = "ready"
    /\ kind' = k
    /\ text' = t
    /\ result' = t
    /\ pc' = IF k = "text" /\ t # <<>> /\ nodes # {<<>>} THEN "has" ELSE "done"
    /\ StartAt(1)
    /\ UNCHANGED trie

(* The message goes on to CallMessageServiceToSave; another one comes. *)
Return ==
    /\ pc = "done"
    /\ pc' = "ready"
    /\ kind' = "other"
    /\ text' = <<>>
    /\ result' = <<>>
    /\ StartAt(1)
    /\ UNCHANGED trie

(* The node below the present one along the content. *)
Child == Append(node, text[j])

CanDescend == j <= Len(text) /\ Child \in nodes

-----------------------------------------------------------------------------
(* HasSensitiveWord.                                                       *)

HasDescend ==
    /\ pc = "has"
    /\ i <= Len(text)
    /\ CanDescend
    /\ Child \notin ends
    /\ node' = Child
    /\ j' = j + 1
    /\ UNCHANGED <<trie, pc, message, i>>

(* It returns true, and ProcessSend calls Filter. *)
HasMatch ==
    /\ pc = "has"
    /\ i <= Len(text)
    /\ CanDescend
    /\ Child \in ends
    /\ pc' = "filter"
    /\ StartAt(1)
    /\ UNCHANGED <<trie, message>>

(* Fault: the scan goes on after the failed match instead of behind its    *)
(* first character.                                                        *)
HasNextAfterMismatch ==
    /\ pc = "has"
    /\ i <= Len(text)
    /\ ~CanDescend
    /\ StartAt(IF j = i THEN i + 1 ELSE j)
    /\ UNCHANGED <<trie, pc, message>>

(* No word starts at i. *)
HasNext ==
    /\ pc = "has"
    /\ i <= Len(text)
    /\ ~CanDescend
    /\ StartAt(i + 1)
    /\ UNCHANGED <<trie, pc, message>>

(* It returns false and the content stays as it is. *)
HasReturnsFalse ==
    /\ pc = "has"
    /\ i > Len(text)
    /\ pc' = "done"
    /\ UNCHANGED <<trie, message, walk>>

-----------------------------------------------------------------------------
(* Filter.                                                                 *)

FilterDescend ==
    /\ pc = "filter"
    /\ i <= Len(text)
    /\ CanDescend
    /\ Child \notin ends
    /\ node' = Child
    /\ j' = j + 1
    /\ UNCHANGED <<trie, pc, message, i>>

Masked(a, b) == [k \in 1..Len(result) |-> IF k \in a..b THEN Star ELSE result[k]]

(* Fault: the character behind the match is masked too. *)
FilterMatchWide ==
    /\ pc = "filter"
    /\ i <= Len(text)
    /\ CanDescend
    /\ Child \in ends
    /\ result' = Masked(i, j + 1)
    /\ StartAt(j + 1)
    /\ UNCHANGED <<trie, pc, kind, text>>

(* Fault: the mask starts one character late. *)
FilterMatchShort ==
    /\ pc = "filter"
    /\ i <= Len(text)
    /\ CanDescend
    /\ Child \in ends
    /\ result' = Masked(i + 1, j)
    /\ StartAt(j + 1)
    /\ UNCHANGED <<trie, pc, kind, text>>

(* The first word that ends on the way from i is masked, and the scan goes *)
(* on behind it.                                                           *)
FilterMatch ==
    /\ pc = "filter"
    /\ i <= Len(text)
    /\ CanDescend
    /\ Child \in ends
    /\ result' = Masked(i, j)
    /\ StartAt(j + 1)
    /\ UNCHANGED <<trie, pc, kind, text>>

(* Fault: a mismatch leaves i where it is. *)
FilterNextStuck ==
    /\ pc = "filter"
    /\ i <= Len(text)
    /\ ~CanDescend
    /\ StartAt(i)
    /\ UNCHANGED <<trie, pc, message>>

FilterNext ==
    /\ pc = "filter"
    /\ i <= Len(text)
    /\ ~CanDescend
    /\ StartAt(i + 1)
    /\ UNCHANGED <<trie, pc, message>>

(* Fault: one iteration too many. *)
FilterReturnsLate ==
    /\ pc = "filter"
    /\ i > Len(text)
    /\ pc' = IF i > Len(text) + 2 THEN "done" ELSE pc
    /\ StartAt(i + 1)
    /\ UNCHANGED <<trie, message>>

FilterReturns ==
    /\ pc = "filter"
    /\ i > Len(text)
    /\ pc' = "done"
    /\ UNCHANGED <<trie, message, walk>>

-----------------------------------------------------------------------------
Load == StartGrpcServer \/ \E w \in Words : AddWord(w)

Scan ==
    \/ HasDescend \/ HasMatch \/ HasNext \/ HasReturnsFalse
    \/ FilterDescend \/ FilterMatch \/ FilterNext \/ FilterReturns

Next ==
    \/ Load
    \/ \E k \in {"text", "other"}, t \in Texts : ProcessSend(k, t)
    \/ Scan
    \/ Return

Spec == Init /\ [][Next]_vars

(* The thread that runs a handler is not stopped inside a loop. *)
FairSpec == Spec /\ WF_vars(Scan)

-----------------------------------------------------------------------------
(* Indices stay where text[j], result[k] and the nodes of the walk exist. *)
TypeOK ==
    /\ words \subseteq Words
    /\ nodes \subseteq Seq(Chars)
    /\ ends \subseteq nodes
    /\ pc \in {"load", "ready", "has", "filter", "done"}
    /\ kind \in {"text", "other"}
    /\ text \in Seq(Chars)
    /\ result \in Seq(Chars)
    /\ Len(result) = Len(text)
    /\ i \in 1..(Len(text) + 1)
    /\ j \in i..(Len(text) + 1)
    /\ node \in nodes

(* Word w stands in t from position a on. *)
OccursAt(w, t, a) ==
    /\ a + Len(w) - 1 <= Len(t)
    /\ \A k \in 1..Len(w) : t[a + k - 1] = w[k]

BadWords == words \ {<<>>}

HasBadWord(t) == \E w \in BadWords, a \in 1..Len(t) : OccursAt(w, t, a)

(* HasSensitiveWord is exact: Filter is called only for contents with a    *)
(* configured word in them, and the scan runs off the end, to return       *)
(* false, only when no configured word stands in the content, whatever     *)
(* words share prefixes or overlap.                                        *)
DetectionExact ==
    /\ pc = "filter" => HasBadWord(text)
    /\ pc = "has" /\ i > Len(text) => ~HasBadWord(text)

(* No configured word is left in the content that is saved, not even one   *)
(* that overlaps a masked one or that contains one as its prefix.          *)
NoWordLeft == pc = "done" /\ kind = "text" => ~HasBadWord(result)

(* Only characters of a configured word are changed. *)
OnlyWordsMasked ==
    \A k \in 1..Len(text) :
        result[k] # text[k] =>
            /\ result[k] = Star
            /\ \E w \in BadWords, a \in 1..k :
                  /\ OccursAt(w, text, a)
                  /\ k < a + Len(w)

(* Both scans end. *)
ScanEnds == pc \in {"has", "filter"} ~> pc = "done"

=============================================================================
