---------------------------- MODULE ConfigLoader ----------------------------
(***************************************************************************)
(* ConfigManager: Load reads a file in a subset of YAML line by line and   *)
(* flattens it into config_map_, from which the getters answer.  Where a   *)
(* line belongs is kept in two stacks, of the keys of the maps it is in    *)
(* and of their indentations; list items are numbered by a counter for     *)
(* each list.                                                              *)
(*                                                                         *)
(* A line of the file is its leading spaces and a sequence of tokens: the  *)
(* marks "- ", ":", a quote, a "#" that follows a space, and words (a "#"  *)
(* without a space before it is a part of a word).  Keys are single words  *)
(* without a dot, so that a flattened key is the sequence of its parts.    *)
(* The file is any sequence of lines an author may write; `file' holds     *)
(* what was read of it so far.                                             *)
(***************************************************************************)
EXTENDS Integers, SequencesExt, FiniteSetsExt

CONSTANTS
    Entries,    \* what an author may write in a line (see Text)
    MaxLines,   \* bound: lines of the file
    None,       \* the default a getter is called with
    Decimal(_), \* std::to_string of the number of an item
    Numerals,   \* the words of digits that std::stoi accepts
    Stoi(_)     \* the number of such a word

DASH == "- "
COLON == ":"
QUOTE == "'"
HASH == "#"

ASSUME ConfigAssumption ==
    /\ MaxLines \in Nat
    /\ \A w \in Numerals : Stoi(w) \in Nat
    /\ \A n \in 0..MaxLines : Decimal(n) \in Numerals /\ Stoi(Decimal(n)) = n
    /\ \A e \in Entries :
          /\ e.kind \in {"map", "scalar", "item", "text", "blank"}
          /\ e.indent \in Nat
          /\ {e.quoted, e.comment} \subseteq BOOLEAN
          /\ e.key \in STRING /\ e.value \in Seq(STRING)
          /\ e.key \notin {DASH, COLON, QUOTE, HASH}
          /\ e.kind \in {"scalar", "item"} => e.quoted \/ e.value # <<>>
          /\ \A i \in DOMAIN e.value : e.value[i] # QUOTE
          /\ ~e.quoted => \A i \in DOMAIN e.value : e.value[i] # HASH

VARIABLES
    phase,          \* of Load: new, reading, loaded, failed
    file,           \* the entries of the lines read
    key_stack,
    indent_stack,
    list_counters,
    config_map_

vars == <<phase, file, key_stack, indent_stack, list_counters, config_map_>>

Init ==
    /\ phase = "new"
    /\ file = <<>>
    /\ key_stack = <<>>
    /\ indent_stack = <<>>
    /\ list_counters = <<>>
    /\ config_map_ = <<>>

-----------------------------------------------------------------------------
(* Lines, as the author writes them and as the loader takes them apart.    *)

(* The line of an entry.  A value may contain a colon and may be quoted; a *)
(* comment may follow.  Outside of quotes a HASH begins the comment,       *)
(* within them an author means it as a part of the value.                  *)
Text(e) ==
    LET value == IF e.quoted THEN <<QUOTE>> \o e.value \o <<QUOTE>> ELSE e.value
        body == CASE e.kind = "map" -> <<e.key, COLON>>
                  [] e.kind = "scalar" -> <<e.key, COLON>> \o value
                  [] e.kind = "item" -> <<DASH>> \o value
                  [] e.kind = "text" -> <<e.key>>
                  [] e.kind = "blank" -> <<>>
    IN  IF e.comment THEN body \o <<HASH, "comment", COLON>> ELSE body

(* Positions of a token in a line. *)
Positions(tokens, t) == {i \in DOMAIN tokens : tokens[i] = t}

(* The line is cut at the first HASH, inside of quotes as well. *)
StripInlineComment(tokens) ==
    LET hashes == Positions(tokens, HASH)
    IN  IF hashes = {} THEN tokens ELSE SubSeq(tokens, 1, Min(hashes) - 1)

Unquote(tokens) ==
    IF Len(tokens) >= 2 /\ Head(tokens) = QUOTE /\ Last(tokens) = QUOTE
    THEN SubSeq(tokens, 2, Len(tokens) - 1)
    ELSE tokens

(* StartsWith(content, "- "): a dash at the end of the line is trimmed to  *)
(* one without a space.                                                    *)
IsItem(content) == Len(content) >= 2 /\ Head(content) = DASH

(* content.find(':'). *)
ColonAt(content) == Min(Positions(content, COLON))

Key(content) == content[ColonAt(content) - 1]

Rest(content) == SubSeq(content, ColonAt(content) + 1, Len(content))

IsKeyed(content) ==
    /\ ~IsItem(content)
    /\ Positions(content, COLON) # {}
    /\ ColonAt(content) > 1

-----------------------------------------------------------------------------
(* Load.                                                                   *)

(* The file is opened or not; the map is empty in any case. *)
Load ==
    /\ phase = "new"
    /\ config_map_' = <<>>
    /\ phase' \in {"reading", "failed"}
    /\ UNCHANGED <<file, key_stack, indent_stack, list_counters>>

(* getline succeeds; the comment is stripped. *)
GetLine(e, content) ==
    /\ phase = "reading"
    /\ Len(file) < MaxLines
    /\ content = StripInlineComment(Text(e))
    /\ file' = Append(file, e)
    /\ UNCHANGED phase

BlankLine(e) ==
    /\ GetLine(e, <<>>)
    /\ UNCHANGED <<key_stack, indent_stack, list_counters, config_map_>>

(* Fault: only one map is closed by a line. *)
KeptAllButOne(indent) ==
    LET n == Len(indent_stack)
    IN  IF n > 0 /\ indent < indent_stack[n] THEN n - 1 ELSE n

(* The maps that stay open for a line of this indentation: the loop pops   *)
(* while the innermost one is indented deeper.                             *)
Kept(indent) ==
    Max({n \in 0..Len(indent_stack) : n = 0 \/ indent_stack[n] <= indent})

(* JoinKeys(key_stack) after the loop. *)
Prefix(e) == SubSeq(key_stack, 1, Kept(e.indent))

(* What the loop leaves of the stacks. *)
PopStacks(e) ==
    /\ indent_stack' = SubSeq(indent_stack, 1, Kept(e.indent))
    /\ key_stack' = Prefix(e)

(* f[k] = v, for an unordered_map f. *)
Put(f, k, v) == [x \in DOMAIN f \union {k} |-> IF x = k THEN v ELSE f[x]]

Store(key, value) == config_map_' = Put(config_map_, key, value)

(* Fault: the counter is set by the first item and not advanced. *)
NextIndexStuck(prefix) ==
    IF prefix \in DOMAIN list_counters THEN 1 ELSE 0

(* The number of the next item of a list. *)
NextIndex(prefix) ==
    IF prefix \in DOMAIN list_counters THEN list_counters[prefix] ELSE 0

(* "- value": numbered within its list. *)
ListItem(e) ==
    \E content \in {StripInlineComment(Text(e))} :
        /\ GetLine(e, content)
        /\ IsItem(content)
        /\ Prefix(e) # <<>>
        /\ LET idx == NextIndex(Prefix(e))
           IN  /\ list_counters' = Put(list_counters, Prefix(e), idx + 1)
               /\ Store(Append(Prefix(e), Decimal(idx)), Unquote(Tail(content)))
        /\ PopStacks(e)

(* An item outside of any map, a line without a colon, or with nothing in  *)
(* front of it, says nothing, but closes maps as any other line.           *)
IgnoredLine(e) ==
    \E content \in {StripInlineComment(Text(e))} :
        /\ GetLine(e, content)
        /\ content # <<>>
        /\ ~IsKeyed(content)
        /\ IsItem(content) => Prefix(e) = <<>>
        /\ PopStacks(e)
        /\ UNCHANGED <<list_counters, config_map_>>

(* "key:" opens a map. *)
MapStart(e) ==
    \E content \in {StripInlineComment(Text(e))} :
        /\ GetLine(e, content)
        /\ IsKeyed(content)
        /\ Rest(content) = <<>>
        /\ key_stack' = Append(Prefix(e), Key(content))
        /\ indent_stack' = Append(SubSeq(indent_stack, 1, Kept(e.indent)), e.indent)
        /\ UNCHANGED <<list_counters, config_map_>>

(* "key: value". *)
Scalar(e) ==
    \E content \in {StripInlineComment(Text(e))} :
        /\ GetLine(e, content)
        /\ IsKeyed(content)
        /\ Rest(content) # <<>>
        /\ Store(Append(Prefix(e), Key(content)), Unquote(Rest(content)))
        /\ PopStacks(e)
        /\ UNCHANGED list_counters

EndOfFile ==
    /\ phase = "reading"
    /\ phase' = "loaded"
    /\ UNCHANGED <<file, key_stack, indent_stack, list_counters, config_map_>>

Next ==
    \/ Load
    \/ \E e \in Entries :
          BlankLine(e) \/ ListItem(e) \/ IgnoredLine(e) \/ MapStart(e) \/ Scalar(e)
    \/ EndOfFile

Spec == Init /\ [][Next]_vars

-----------------------------------------------------------------------------
(* The getters.                                                            *)

GetString(key, default) ==
    IF key \in DOMAIN config_map_ THEN config_map_[key] ELSE default

(* The words of a set, sorted by their numbers; in any order where two     *)
(* words, such as 1 and 01, have the same number.                          *)
SortByIndex(words) ==
    CHOOSE s \in [1..Cardinality(words) -> words] :
        /\ \A w \in words : \E i \in DOMAIN s : s[i] = w
        /\ \A i, j \in DOMAIN s : i < j => Stoi(s[i]) <= Stoi(s[j])

(* The values stored under prefix.n for numerals n, in their order. *)
GetStringList(prefix) ==
    LET suffixes == {w \in Numerals : Append(prefix, w) \in DOMAIN config_map_}
        order == SortByIndex(suffixes)
    IN  [i \in DOMAIN order |-> config_map_[Append(prefix, order[i])]]

-----------------------------------------------------------------------------
(* What the file says, read as YAML.                                       *)

(* Lines with content, and those that open a map. *)
Says == {i \in DOMAIN file : file[i].kind # "blank"}
Maps == {i \in DOMAIN file : file[i].kind = "map"}

(* Line k lies within the map that line j opens: it is indented deeper, or *)
(* it is an item of a list that stands below its key.                      *)
Within(k, j) ==
    \/ file[k].indent > file[j].indent
    \/ file[k].indent = file[j].indent /\ file[k].kind = "item"

(* Lines in the order in which they were read. *)
Ascending(S) ==
    CHOOSE s \in [1..Cardinality(S) -> S] :
        \A i, j \in 1..Cardinality(S) : i < j => s[i] < s[j]

(* The maps line i is in: no line since they were opened lies outside. *)
Ancestors(i) ==
    {j \in Maps : j < i /\ \A k \in Says : j < k /\ k <= i => Within(k, j)}

(* The flattened key of the map line i is in. *)
Place(i) ==
    LET order == Ascending(Ancestors(i))
    IN  [n \in DOMAIN order |-> file[order[n]].key]

(* Items before line i in its list. *)
ItemsBefore(i) ==
    Cardinality({j \in Says : j < i /\ file[j].kind = "item" /\ Place(j) = Place(i)})

(* The lines that give a value, and the keys they give it to. *)
Settings ==
    {i \in Says : \/ file[i].kind = "scalar"
                  \/ file[i].kind = "item" /\ Place(i) # <<>>}

KeyOf(i) ==
    Append(Place(i), IF file[i].kind = "item" THEN Decimal(ItemsBefore(i)) ELSE file[i].key)

(* The flattened file: of lines that set the same key the last one counts. *)
Flattened ==
    [key \in {KeyOf(i) : i \in Settings} |->
        file[Max({i \in Settings : KeyOf(i) = key})].value]

(* A key or an ill-formed line at the indentation of a map that is open    *)
(* before it: its sibling.                                                 *)
HasSibling ==
    \E i \in Says, j \in Maps :
        /\ j < i
        /\ file[i].indent = file[j].indent
        /\ file[i].kind # "item"
        /\ \A k \in Says : j < k /\ k < i => file[k].indent >= file[j].indent

(* A value StripInlineComment does not cut. *)
Whole(value) == Positions(value, HASH) = {}

(* While no map has a sibling, what was read is flattened as the comment   *)
(* on top of config_manager.cpp says, whatever lines are skipped or        *)
(* commented, however many maps a line closes, and whichever key is set    *)
(* again: GetString finds every key of the file and no other, with its     *)
(* value.  The exception is a quoted value with a HASH, of which           *)
(* StripInlineComment leaves the quote and what stands before: its key is  *)
(* found and the other values are right.  Every file of the repository has *)
(* siblings: see NestingByIndentation.                                     *)
NestedRight ==
    ~HasSibling =>
        /\ DOMAIN config_map_ = DOMAIN Flattened
        /\ \A key \in DOMAIN Flattened :
              Whole(Flattened[key]) => GetString(key, None) = Flattened[key]

(* Maps with a key that is a number: GetStringList takes its value for an  *)
(* item.                                                                   *)
Numbered ==
    {Place(i) : i \in {j \in Settings : file[j].kind = "scalar" /\ file[j].key \in Numerals}}

(* While no map has a sibling, GetStringList returns the items of a list   *)
(* in the order of their lines, also when the list is continued after the  *)
(* map was closed and opened again or an item was cut at a HASH in its     *)
(* quotes, and never those of another list.                                *)
ListsInOrder ==
    ~HasSibling =>
        \A m \in {Place(i) : i \in Says} \ Numbered :
            LET items == {i \in Settings : file[i].kind = "item" /\ Place(i) = m}
                order == Ascending(items)
            IN  /\ DOMAIN GetStringList(m) = DOMAIN order
                /\ \A n \in DOMAIN order :
                      Whole(file[order[n]].value) =>
                          GetStringList(m)[n] = file[order[n]].value

(* Nested maps by indentation, as the comment on top of config_manager.cpp *)
(* and config_manager_test.cpp have it, for every file without repeated    *)
(* lines.                                                                  *)
NestingByIndentation ==
    phase = "loaded" /\ IsInjective(file) => config_map_ = Flattened

=============================================================================
