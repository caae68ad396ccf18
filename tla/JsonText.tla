------------------------------ MODULE JsonText ------------------------------
(***************************************************************************)
(* The JSON of the model's answers (src/src/json_utils.cpp): JsonParser is  *)
(* recursive descent over one text; its call stack is the stack of open     *)
(* containers and its place in a function is the mode.  The parsers a text  *)
(* is given to, and the brace scanner of the planner                        *)
(* (src/src/micro/manager.cpp), read the same text in lock-step, one        *)
(* character a step, so that what they make of it can be compared.          *)
(* White space is skipped between tokens; "lit" is a number, true, false or *)
(* null; "ctl" is a character below 0x20, "n" one that is an escape after a *)
(* backslash (it stands for ctl), "x" one that is not.                      *)
(***************************************************************************)
EXTENDS Integers, Sequences, FiniteSets

CONSTANTS
  MaxDepth,           \* kMaxDepth
  Needle,             \* the key extract_top_level_json_value asks for
  Agent,              \* the key "agent"
  Requirements,       \* what a schema's "required" may hold once extracted
  Outside, Inside,    \* bounds: the characters outside and inside quotes
  MaxLen              \* and the length of a text

Quote == "quote"
Backslash == "backslash"
Chars == {"{", "}", "[", "]", ",", ":", "lit", Quote, Backslash, "n", "x", "ctl"}

ASSUME TextAssumption ==
  /\ MaxDepth \in Nat \ {0}
  /\ Outside \subseteq Chars /\ Inside \subseteq Chars
  /\ {Needle, Agent} \subseteq Seq(Chars)
  /\ Requirements \subseteq SUBSET Seq(Chars)
  /\ MaxLen \in Nat

VARIABLES
  text,               \* what was read
  doc,                \* parse_document_value
  keys,               \* parse_top_level_object_keys
  member,             \* extract_top_level_member_value
  list,               \* parse_document_string_array
  raw,                \* parse_string over json_escape of the text
  split,              \* split_top_level_array_objects
  name,               \* the top-level key being read
  names,              \* the keys of parse_top_level_object_keys
  from,               \* where the needle's value begins, 0 before
  upto,               \* and where it ends
  item, items,        \* the string being read and the strings of the array
  content,            \* the string parse_string makes of json_escape
  required,           \* required_keys
  verdict             \* history: doc has read part of a document, a whole one,
                      \* or refused the text as too deep

vars == <<text, doc, keys, member, list, raw, split, name, names, from, upto,
          item, items, content, required, verdict>>

-----------------------------------------------------------------------------
(* Escaping quotes and control characters only. *)
EscapeNoBackslash(c) ==
  CASE c = "ctl" -> <<Backslash, "n">>
    [] c = Quote -> <<Backslash, c>>
    [] OTHER -> <<c>>

Escape(c) ==
  CASE c = "ctl" -> <<Backslash, "n">>
    [] c \in {Quote, Backslash} -> <<Backslash, c>>
    [] OTHER -> <<c>>

Unescape(c) == IF c = "n" THEN "ctl" ELSE c

(* What parse_string appends to its result when it reads c. *)
Heard(mode, c) ==
  CASE mode \in {"text", "keyText"} /\ c \notin {Quote, Backslash, "ctl"} -> <<c>>
    [] mode \in {"escape", "keyEscape"} /\ c \in {Quote, Backslash, "n"}
         -> <<Unescape(c)>>
    [] OTHER -> <<>>

Goes(p, mode) == [p EXCEPT !.mode = mode]
Fails(p) == Goes(p, "failed")
AfterValue(stack) == IF stack = <<>> THEN "end" ELSE "after"

Opens(p, kind) ==
  [mode |-> IF kind = "object" THEN "firstKey" ELSE "first",
   stack |-> Append(p.stack, kind)]

Closes(p) ==
  LET rest == SubSeq(p.stack, 1, Len(p.stack) - 1)
  IN [mode |-> AfterValue(rest), stack |-> rest]

(* A cap off by one. *)
ValueTooDeep(p, c, room) ==
  IF Len(p.stack) > MaxDepth + room THEN Fails(p)
  ELSE CASE c = "{" -> Opens(p, "object")
         [] c = "[" -> Opens(p, "array")
         [] c = Quote -> Goes(p, "text")
         [] c = "lit" -> Goes(p, AfterValue(p.stack))
         [] OTHER -> Fails(p)

(* parse_value at a depth of room containers less than the stack's. *)
Value(p, c, room) ==
  IF Len(p.stack) >= MaxDepth + room THEN Fails(p)
  ELSE CASE c = "{" -> Opens(p, "object")
         [] c = "[" -> Opens(p, "array")
         [] c = Quote -> Goes(p, "text")
         [] c = "lit" -> Goes(p, AfterValue(p.stack))
         [] OTHER -> Fails(p)

Key(p, c) == IF c = Quote THEN Goes(p, "keyText") ELSE Fails(p)

Within(p, c, closed, escape) ==
  CASE c = Quote -> Goes(p, closed)
    [] c = Backslash -> Goes(p, escape)
    [] c = "ctl" -> Fails(p)
    [] OTHER -> p

Escaped(p, c, inside) ==
  IF c \in {Quote, Backslash, "n"} THEN Goes(p, inside) ELSE Fails(p)

After(p, c) ==
  LET kind == p.stack[Len(p.stack)]
  IN CASE c = IF kind = "object" THEN "}" ELSE "]" -> Closes(p)
       [] c = "," -> Goes(p, IF kind = "object" THEN "key" ELSE "value")
       [] OTHER -> Fails(p)

(* One character of the recursive descent; room is the number of containers
   the entry function opened without counting them in depth_. *)
Step(p, c, room) ==
  CASE p.mode = "document" -> IF c \in {"{", "["} THEN Value(p, c, room) ELSE Fails(p)
    [] p.mode = "object" -> IF c = "{" THEN Opens(p, "object") ELSE Fails(p)
    [] p.mode = "array" -> IF c = "[" THEN Opens(p, "array") ELSE Fails(p)
    [] p.mode = "value" -> Value(p, c, room)
    [] p.mode = "first" -> IF c = "]" THEN Closes(p) ELSE Value(p, c, room)
    [] p.mode = "key" -> Key(p, c)
    [] p.mode = "firstKey" -> IF c = "}" THEN Closes(p) ELSE Key(p, c)
    [] p.mode = "keyText" -> Within(p, c, "colon", "keyEscape")
    [] p.mode = "keyEscape" -> Escaped(p, c, "keyText")
    [] p.mode = "colon" -> IF c = ":" THEN Goes(p, "value") ELSE Fails(p)
    [] p.mode = "text" -> Within(p, c, AfterValue(p.stack), "escape")
    [] p.mode = "escape" -> Escaped(p, c, "text")
    [] p.mode = "after" -> After(p, c)
    [] OTHER -> p

-----------------------------------------------------------------------------
(* parse_document_value: nothing but white space may follow. *)
DocStep(p, c) == IF p.mode = "end" THEN Fails(p) ELSE Step(p, c, 0)

(* Returning when a member is read and the closing brace is not. *)
KeysStepEager(p, c) ==
  LET q == Step(p, c, 1)
  IN IF q.mode = "after" /\ q.stack = <<"object">> THEN Goes(q, "end") ELSE q

(* parse_top_level_object_keys returns at the closing brace. *)
KeysStep(p, c) == Step(p, c, 1)

(* extract_top_level_member_value returns when the needle's value is read. *)
MemberStep(p, c) ==
  LET q == Step(p, c, 1)
  IN IF p.mode = "end" THEN p
     ELSE CASE from # 0 /\ q.mode = "after" /\ q.stack = <<"object">> -> Goes(q, "end")
            [] q.mode = "end" -> Fails(q)
            [] OTHER -> q

(* parse_document_string_array calls parse_string and never parse_value. *)
ListStep(p, c) ==
  CASE p.mode = "end" -> Fails(p)
    [] p.mode \in {"value", "first"} /\ c \in {"{", "[", "lit"} -> Fails(p)
    [] OTHER -> Step(p, c, 1)

RawStep(p, c) ==
  LET e == Escape(c)
  IN IF Len(e) = 1 THEN Step(p, e[1], 0) ELSE Step(Step(p, e[1], 0), e[2], 0)

RawHeard(p, c) ==
  LET e == Escape(c)
  IN IF Len(e) = 1 THEN Heard(p.mode, e[1])
     ELSE Heard(p.mode, e[1]) \o Heard(Step(p, e[1], 0).mode, e[2])

(* split_top_level_array_objects knows strings and braces, no more. *)
SplitBrace(s, c, at) ==
  LET whole == s.depth = 1 /\ s.start # 0
  IN CASE c = "{" -> [s EXCEPT !.depth = @ + 1,
                               !.start = IF s.depth = 0 THEN at ELSE @]
       [] c = "}" -> [s EXCEPT !.depth = @ - 1,
                               !.start = IF whole THEN 0 ELSE @,
                               !.pieces = IF whole THEN @ \cup {<<s.start, at>>} ELSE @]
       [] c = Quote -> [s EXCEPT !.mode = "quoted"]
       [] OTHER -> s

(* A scanner that knows no escapes. *)
SplitNoEscapes(s, c, at) ==
  CASE s.mode = "quoted" -> IF c = Quote THEN [s EXCEPT !.mode = "plain"] ELSE s
    [] OTHER -> SplitBrace(s, c, at)

SplitStep(s, c, at) ==
  CASE s.mode = "escaped" -> [s EXCEPT !.mode = "quoted"]
    [] s.mode = "quoted" ->
         [s EXCEPT !.mode = CASE c = Backslash -> "escaped"
                              [] c = Quote -> "plain"
                              [] OTHER -> "quoted"]
    [] OTHER -> SplitBrace(s, c, at)

(* extract_required_schema_keys: an array that is not all strings counts for
   nothing there, while extract_string_array_field keeps items. *)
RequiredKeys == IF list.mode = "end" THEN {items[i] : i \in DOMAIN items} ELSE {}

TopKey(p) == Len(p.stack) = 1 /\ p.mode \in {"keyText", "keyEscape"}
TopColon(p, c) == Len(p.stack) = 1 /\ p.mode = "colon" /\ c = ":"

(* json_object_satisfies_required_schema at the end of an answer. *)
Satisfies == /\ keys.mode = "end"
             /\ (IF required = {} THEN {Agent} ELSE required) \subseteq names

Init ==
  /\ text = <<>>
  /\ doc = [mode |-> "document", stack |-> <<>>]
  /\ keys = [mode |-> "object", stack |-> <<>>] /\ member = keys
  /\ list = [mode |-> "array", stack |-> <<>>]
  /\ raw = [mode |-> "text", stack |-> <<>>]
  /\ split = [mode |-> "plain", depth |-> 0, start |-> 0, pieces |-> {}]
  /\ name = <<>> /\ names = {} /\ from = 0 /\ upto = 0
  /\ item = <<>> /\ items = <<>> /\ content = <<>>
  /\ required \in Requirements
  /\ verdict = "part"

(* The full parser stands before a value it refuses whatever it is. *)
AtCap == doc.mode \in {"value", "first"} /\ Len(doc.stack) >= MaxDepth

Read(c) ==
  LET at == Len(text) + 1
  IN /\ Len(text) < MaxLen
     /\ \E p \in {doc, keys, member, list} : p.mode \notin {"end", "failed"}
     /\ text' = Append(text, c)
     /\ doc' = DocStep(doc, c)
     /\ keys' = KeysStep(keys, c)
     /\ member' = MemberStep(member, c)
     /\ list' = ListStep(list, c)
     /\ raw' = RawStep(raw, c)
     /\ content' = content \o RawHeard(raw, c)
     /\ split' = SplitStep(split, c, at)
     /\ name' = IF keys.mode \in {"key", "firstKey"} THEN <<>>
                ELSE IF TopKey(keys) THEN name \o Heard(keys.mode, c) ELSE name
     /\ names' = IF TopColon(keys, c) THEN names \cup {name} ELSE names
     /\ from' = IF TopColon(member, c) /\ name = Needle THEN at + 1 ELSE from
     /\ upto' = IF member.mode # "end" /\ member'.mode = "end" THEN at ELSE upto
     /\ item' = IF list.mode = "text" /\ c = Quote THEN <<>>
                ELSE item \o Heard(list.mode, c)
     /\ items' = IF list.mode = "text" /\ c = Quote THEN Append(items, item)
                 ELSE items
     /\ verdict' = CASE doc'.mode = "end" -> "whole"
                     [] AtCap /\ doc'.mode = "failed" -> "deep"
                     [] OTHER -> verdict
     /\ UNCHANGED required

Next == \E c \in IF split.mode # "plain" THEN Inside ELSE Outside : Read(c)

Spec == Init /\ [][Next]_vars
-----------------------------------------------------------------------------
(* An answer that is not JSON is stored as the string {"raw":"..."}: whatever
   the answer, the string does not end early, breaks no row, and reads back as
   the answer. *)
RawReadsBack == raw.mode = "text" /\ content = text

(* An answer cut in the middle passes no check of its schema: what passes begins
   with an object that the full parser reads to its end, or refuses for its depth
   alone.  The answer is whole as well only if no text follows that object: to
   this the check is blind.  And the value of a required key can be extracted,
   though keys and values are read by two parsers that stop at other places. *)
CheckedAnswerIsWhole ==
  Satisfies =>
    /\ verdict # "part"
    /\ doc.mode = "failed" \/ doc.mode = "end"
    /\ Needle \in names => member.mode = "end" /\ from # 0
=============================================================================
