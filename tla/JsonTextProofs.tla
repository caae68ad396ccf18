--------------------------- MODULE JsonTextProofs ---------------------------
(***************************************************************************)
(* What holds of JsonText for every text, however long, and every cap on    *)
(* the nesting.  The parsers of the keys and of a member and the full       *)
(* parser walk the same text in the same way as long as none has given up;  *)
(* Agree says so, and the three theorems that compare them follow from it.  *)
(***************************************************************************)
EXTENDS JsonText, FiniteSetTheorems, TLAPS

Kinds == {"object", "array"}
Modes == {"document", "object", "array", "value", "first", "key", "firstKey",
          "keyText", "keyEscape", "colon", "text", "escape", "after", "end",
          "failed"}
Config == [mode : Modes, stack : Seq(Kinds)]

(* What the place in a function says of the open containers. *)
Shape(p) ==
  /\ p.mode \in {"document", "object", "array", "end"} => p.stack = <<>>
  /\ p.mode \in {"key", "firstKey", "keyText", "keyEscape", "colon"} =>
       p.stack # <<>> /\ p.stack[Len(p.stack)] = "object"
  /\ p.mode = "first" => p.stack # <<>> /\ p.stack[Len(p.stack)] = "array"
  /\ p.mode \in {"value", "after"} => p.stack # <<>>

-----------------------------------------------------------------------------
(* Opening a container makes the stack one longer and leaves the place that
   parse_value takes up next. *)
LEMMA OpensShape ==
  ASSUME NEW p \in Config, NEW k \in Kinds
  PROVE  /\ Opens(p, k) \in Config /\ Shape(Opens(p, k))
         /\ Len(Opens(p, k).stack) = Len(p.stack) + 1
BY DEF Opens, Config, Kinds, Modes, Shape

(* Closing one takes it off again. *)
LEMMA ClosesShape ==
  ASSUME NEW p \in Config, p.stack # <<>>
  PROVE  /\ Closes(p) \in Config /\ Shape(Closes(p))
         /\ Len(Closes(p).stack) = Len(p.stack) - 1
<1>1. p.stack \in Seq(Kinds) /\ Len(p.stack) \in Nat \ {0}
  BY DEF Config
<1> DEFINE rest == SubSeq(p.stack, 1, Len(p.stack) - 1)
<1>2. rest \in Seq(Kinds) /\ Len(rest) = Len(p.stack) - 1
  BY <1>1
<1>3. Closes(p) = [mode |-> AfterValue(rest), stack |-> rest]
  BY DEF Closes
<1>4. AfterValue(rest) \in {"end", "after"} /\ (AfterValue(rest) = "end" <=> rest = <<>>)
  BY DEF AfterValue
<1> QED BY <1>2, <1>3, <1>4 DEF Config, Modes, Shape

(* Going on in the same container changes the place only. *)
LEMMA GoesShape ==
  ASSUME NEW p \in Config, NEW m \in Modes
  PROVE  Goes(p, m) \in Config /\ Goes(p, m).mode = m /\ Goes(p, m).stack = p.stack
BY DEF Goes, Config

(* Whatever parse_value meets, the parser stays a well-formed one. *)
LEMMA ValueShape ==
  ASSUME NEW p \in Config, NEW c \in Chars, NEW room \in Nat
  PROVE  Value(p, c, room) \in Config /\ Shape(Value(p, c, room))
<1>1. \A k \in Kinds : Opens(p, k) \in Config /\ Shape(Opens(p, k))
  BY OpensShape
<1>2. \A m \in Modes : Goes(p, m) \in Config /\ Goes(p, m).mode = m /\ Goes(p, m).stack = p.stack
  BY GoesShape
<1>3. AfterValue(p.stack) \in {"end", "after"} /\ (AfterValue(p.stack) = "end" <=> p.stack = <<>>)
  BY DEF AfterValue
<1>4. \A m \in {"failed", "text"} : Goes(p, m) \in Config /\ Shape(Goes(p, m))
  BY <1>2 DEF Shape, Modes
<1>5. Goes(p, AfterValue(p.stack)) \in Config /\ Shape(Goes(p, AfterValue(p.stack)))
  BY <1>2, <1>3 DEF Shape, Modes
<1>6. Value(p, c, room) \in {Opens(p, "object"), Opens(p, "array"), Goes(p, "failed"),
                              Goes(p, "text"), Goes(p, AfterValue(p.stack))}
  BY DEF Value, Fails, Quote
<1> QED BY <1>1, <1>4, <1>5, <1>6 DEF Kinds

(* What parse_object and parse_array accept after a value. *)
LEMMA AfterIs ==
  ASSUME NEW p \in Config, NEW c
  PROVE  /\ Len(p.stack) > 0 /\ p.stack[Len(p.stack)] = "object" =>
              After(p, c) = IF c = "}" THEN Closes(p)
                            ELSE IF c = "," THEN Goes(p, "key") ELSE Fails(p)
         /\ Len(p.stack) > 0 /\ p.stack[Len(p.stack)] = "array" =>
              After(p, c) = IF c = "]" THEN Closes(p)
                            ELSE IF c = "," THEN Goes(p, "value") ELSE Fails(p)
BY DEF After

(* A character of the descent leaves a place that fits the containers. *)
LEMMA StepShape ==
  ASSUME NEW p \in Config, NEW c \in Chars, NEW room \in Nat, Shape(p)
  PROVE  Step(p, c, room) \in Config /\ Shape(Step(p, c, room))
<1> DEFINE Good(q) == q \in Config /\ Shape(q)
<1>1. p.mode \in Modes /\ p.stack \in Seq(Kinds)
  BY DEF Config
<1>2. Good(Opens(p, "object")) /\ Good(Opens(p, "array"))
  BY OpensShape DEF Kinds
<1>3. \A m \in Modes : Goes(p, m) \in Config /\ Goes(p, m).mode = m /\ Goes(p, m).stack = p.stack
  BY GoesShape
<1>4. p.stack # <<>> => Good(Closes(p))
  BY ClosesShape
<1>5. Good(Value(p, c, room))
  BY ValueShape
<1>6. Good(Goes(p, AfterValue(p.stack)))
  BY <1>3 DEF AfterValue, Shape, Modes
<1>7. Good(Fails(p)) /\ Good(Goes(p, "text")) /\ Good(Goes(p, "escape"))
  BY <1>3 DEF Fails, Shape, Modes
<1>8. p.stack # <<>> => Good(Goes(p, "value"))
  BY <1>3 DEF Shape, Modes
<1>9. p.stack # <<>> /\ p.stack[Len(p.stack)] = "object" =>
        /\ Good(Goes(p, "key")) /\ Good(Goes(p, "keyText"))
        /\ Good(Goes(p, "keyEscape")) /\ Good(Goes(p, "colon"))
  BY <1>3 DEF Shape, Modes
<1> HIDE DEF Good
<1>10. Good(p)
  BY DEF Good
<1>11. CASE p.mode \in {"document", "object", "array", "value", "first"}
  <2>1. p.mode = "first" => p.stack # <<>>
    BY DEF Shape
  <2>2. \/ Step(p, c, room) \in {Value(p, c, room), Fails(p), Opens(p, "object"), Opens(p, "array")}
        \/ p.mode = "first" /\ Step(p, c, room) = Closes(p)
    BY <1>11 DEF Step
  <2>3. Good(Step(p, c, room))
    BY <1>2, <1>4, <1>5, <1>7, <2>1, <2>2
  <2> QED BY <2>3 DEF Good
<1>12. CASE p.mode \in {"key", "firstKey", "keyText", "keyEscape", "colon"}
  <2>1. p.stack # <<>> /\ p.stack[Len(p.stack)] = "object"
    BY <1>12 DEF Shape
  <2>2. Good(Key(p, c)) /\ Good(Escaped(p, c, "keyText")) /\ Good(Within(p, c, "colon", "keyEscape"))
    BY <1>7, <1>9, <1>10, <2>1 DEF Key, Within, Escaped
  <2>3. Step(p, c, room) \in {Key(p, c), Escaped(p, c, "keyText"), Closes(p), Goes(p, "value"),
                             Within(p, c, "colon", "keyEscape"), Fails(p)}
    BY <1>12 DEF Step
  <2>4. Good(Step(p, c, room))
    BY <1>4, <1>7, <1>8, <2>1, <2>2, <2>3
  <2> QED BY <2>4 DEF Good
<1>13. CASE p.mode \in {"text", "escape"}
  <2>1. Good(Escaped(p, c, "text")) /\ Good(Within(p, c, AfterValue(p.stack), "escape"))
    BY <1>6, <1>7, <1>10 DEF Within, Escaped
  <2>2. Good(Step(p, c, room))
    BY <1>13, <2>1 DEF Step
  <2> QED BY <2>2 DEF Good
<1>14. CASE p.mode = "after"
  <2>1. p.stack # <<>> /\ Len(p.stack) > 0 /\ p.stack[Len(p.stack)] \in Kinds
    BY <1>1, <1>14 DEF Shape
  <2>2. Good(After(p, c))
    BY <1>4, <1>7, <1>8, <1>9, <2>1, AfterIs DEF Kinds
  <2>3. Step(p, c, room) = After(p, c)
    BY <1>14 DEF Step
  <2> QED BY <2>2, <2>3 DEF Good
<1>15. CASE p.mode \in {"end", "failed"}
  <2>1. Step(p, c, room) = p
    BY <1>15 DEF Step
  <2> QED BY <2>1
<1> QED BY <1>1, <1>11, <1>12, <1>13, <1>14, <1>15 DEF Modes

-----------------------------------------------------------------------------
InText == {"text", "keyText"}
InEscape == {"escape", "keyEscape"}

(* What a character c that is not refused makes of p outside strings. *)
Moved(p, c, q) ==
  \/ c = "{" /\ q = Opens(p, "object")
  \/ c = "[" /\ q = Opens(p, "array")
  \/ /\ c = "}" /\ q = Closes(p)
     /\ p.stack # <<>> /\ p.stack[Len(p.stack)] = "object"
     /\ p.mode \in {"firstKey", "after"}
  \/ /\ c = "]" /\ q = Closes(p)
     /\ p.stack # <<>> /\ p.stack[Len(p.stack)] = "array"
     /\ p.mode \in {"first", "after"}
  \/ /\ c = Quote /\ q.stack = p.stack
     /\ q.mode = IF p.mode \in {"key", "firstKey"} THEN "keyText" ELSE "text"
  \/ c = ":" /\ p.mode = "colon" /\ q.mode = "value" /\ q.stack = p.stack
  \/ c = "," /\ p.mode = "after" /\ q.mode \in {"value", "key"} /\ q.stack = p.stack
  \/ c = "lit" /\ q.mode = AfterValue(p.stack) /\ q.stack = p.stack

(* Outside texts, a character that is not refused makes one of the moves of Moved. *)
LEMMA Moves ==
  ASSUME NEW p \in Config, NEW c \in Chars, NEW room \in Nat, Shape(p),
         p.mode \notin InText \cup InEscape \cup {"end", "failed"},
         Step(p, c, room).mode # "failed"
  PROVE  Moved(p, c, Step(p, c, room))
<1> DEFINE q == Step(p, c, room)
<1>1. p.mode \in Modes /\ p.stack \in Seq(Kinds)
  BY DEF Config
<1>2. \A m \in Modes : Goes(p, m) \in Config /\ Goes(p, m).mode = m /\ Goes(p, m).stack = p.stack
  BY GoesShape
<1>3. Fails(p).mode = "failed"
  BY <1>2 DEF Fails, Modes
<1>4. AfterValue(p.stack) \in {"end", "after"}
  BY DEF AfterValue
<1>5. Value(p, c, room).mode # "failed" =>
        \/ c = "{" /\ Value(p, c, room) = Opens(p, "object")
        \/ c = "[" /\ Value(p, c, room) = Opens(p, "array")
        \/ c = Quote /\ Value(p, c, room) = Goes(p, "text")
        \/ c = "lit" /\ Value(p, c, room) = Goes(p, AfterValue(p.stack))
  BY <1>3 DEF Value, Quote
<1>6. Key(p, c).mode # "failed" => c = Quote /\ Key(p, c) = Goes(p, "keyText")
  BY <1>3 DEF Key
<1>7. CASE p.mode \in {"document", "object", "array", "value"}
  <2>1. \/ q = Value(p, c, room)
        \/ c = "{" /\ q = Opens(p, "object")
        \/ c = "[" /\ q = Opens(p, "array")
    BY <1>3, <1>7 DEF Step
  <2> QED BY ZenonT(40), <1>2, <1>4, <1>5, <1>7, <2>1 DEF Moved, Modes
<1>8. CASE p.mode = "first"
  <2>1. q = IF c = "]" THEN Closes(p) ELSE Value(p, c, room)
    BY <1>8 DEF Step
  <2>2. p.stack # <<>> /\ p.stack[Len(p.stack)] = "array"
    BY <1>8 DEF Shape
  <2> QED BY ZenonT(40), <1>2, <1>4, <1>5, <1>8, <2>1, <2>2 DEF Moved, Modes
<1>9. CASE p.mode \in {"key", "firstKey"}
  <2>1. \/ q = Key(p, c)
        \/ p.mode = "firstKey" /\ c = "}" /\ q = Closes(p)
    BY <1>9 DEF Step
  <2>2. p.stack # <<>> /\ p.stack[Len(p.stack)] = "object"
    BY <1>9 DEF Shape
  <2> QED BY ZenonT(40), <1>2, <1>6, <1>9, <2>1, <2>2 DEF Moved, Modes
<1>10. CASE p.mode = "colon"
  <2>1. q = IF c = ":" THEN Goes(p, "value") ELSE Fails(p)
    BY <1>10 DEF Step
  <2> QED BY <1>2, <1>3, <1>10, <2>1 DEF Moved, Modes
<1>11. CASE p.mode = "after"
  <2>1. q = After(p, c)
    BY <1>11 DEF Step
  <2>2. p.stack # <<>> /\ Len(p.stack) > 0 /\ p.stack[Len(p.stack)] \in Kinds
    BY <1>1, <1>11 DEF Shape
  <2>3. CASE p.stack[Len(p.stack)] = "object"
    <3>1. q = IF c = "}" THEN Closes(p) ELSE IF c = "," THEN Goes(p, "key") ELSE Fails(p)
      BY <2>1, <2>2, <2>3, AfterIs
    <3> QED BY <1>2, <1>3, <1>11, <2>2, <2>3, <3>1 DEF Moved, Modes
  <2>4. CASE p.stack[Len(p.stack)] = "array"
    <3>1. q = IF c = "]" THEN Closes(p) ELSE IF c = "," THEN Goes(p, "value") ELSE Fails(p)
      BY <2>1, <2>2, <2>4, AfterIs
    <3> QED BY <1>2, <1>3, <1>11, <2>2, <2>4, <3>1 DEF Moved, Modes
  <2> QED BY <2>2, <2>3, <2>4 DEF Kinds
<1> QED BY <1>1, <1>7, <1>8, <1>9, <1>10, <1>11 DEF Modes, InText, InEscape

(* And within strings. *)
LEMMA MovesInText ==
  ASSUME NEW p \in Config, NEW c \in Chars, NEW room \in Nat, Shape(p),
         p.mode \in InText \cup InEscape, Step(p, c, room).mode # "failed"
  PROVE  LET q == Step(p, c, room)
         IN /\ q.stack = p.stack
            /\ p.mode \in InEscape => q.mode \in InText
            /\ p.mode \in InText /\ c = Backslash => q.mode \in InEscape
            /\ p.mode \in InText /\ c = Quote =>
                 q.mode = IF p.mode = "keyText" THEN "colon" ELSE AfterValue(p.stack)
            /\ p.mode \in InText /\ c \notin {Quote, Backslash} => q = p
            /\ p.mode \in {"text", "escape"} => q.mode \in {"text", "escape", AfterValue(p.stack)}
<1> DEFINE q == Step(p, c, room)
<1>1. \A m \in Modes : Goes(p, m) \in Config /\ Goes(p, m).mode = m /\ Goes(p, m).stack = p.stack
  BY GoesShape
<1>2. Fails(p).mode = "failed"
  BY <1>1 DEF Fails, Modes
<1>3. AfterValue(p.stack) \in {"end", "after"}
  BY DEF AfterValue
<1>4. CASE p.mode = "text"
  <2>1. q = Within(p, c, AfterValue(p.stack), "escape")
    BY <1>4 DEF Step
  <2> QED BY <1>1, <1>2, <1>3, <1>4, <2>1 DEF Within, InText, InEscape, Modes, Quote, Backslash
<1>5. CASE p.mode = "keyText"
  <2>1. q = Within(p, c, "colon", "keyEscape")
    BY <1>5 DEF Step
  <2> QED BY <1>1, <1>2, <1>5, <2>1 DEF Within, InText, InEscape, Modes, Quote, Backslash
<1>6. CASE p.mode = "escape"
  <2>1. q = Escaped(p, c, "text")
    BY <1>6 DEF Step
  <2> QED BY <1>1, <1>2, <1>6, <2>1 DEF Escaped, InText, InEscape, Modes
<1>7. CASE p.mode = "keyEscape"
  <2>1. q = Escaped(p, c, "keyText")
    BY <1>7 DEF Step
  <2> QED BY <1>1, <1>2, <1>7, <2>1 DEF Escaped, InText, InEscape, Modes
<1> QED BY <1>4, <1>5, <1>6, <1>7 DEF InText, InEscape

(* The places a bracket leads to. *)
LEMMA PlaceAfterBracket ==
  ASSUME NEW p \in Config
  PROVE  /\ \A k \in Kinds : Opens(p, k).mode \in {"firstKey", "first"}
         /\ Closes(p).mode \in {"end", "after"}
<1>1. \A k \in Kinds : Opens(p, k).mode \in {"firstKey", "first"}
  BY DEF Opens
<1>2. Closes(p).mode \in {"end", "after"}
  BY DEF Closes, AfterValue
<1> QED BY <1>1, <1>2

(* No character nests deeper than the cap and the containers that do not count. *)
LEMMA StepDepth ==
  ASSUME NEW p \in Config, NEW c \in Chars, NEW room \in Nat, Shape(p),
         Len(p.stack) <= MaxDepth + room, Step(p, c, room).mode # "failed"
  PROVE  Len(Step(p, c, room).stack) <= MaxDepth + room
<1> DEFINE q == Step(p, c, room)
<1>1. p.mode \in Modes /\ p.stack \in Seq(Kinds) /\ MaxDepth \in Nat \ {0}
  BY TextAssumption DEF Config
<1>2. CASE p.mode \in {"end", "failed"}
  <2>1. q = p
    BY <1>2 DEF Step
  <2> QED BY <2>1
<1>3. CASE p.mode \in InText \cup InEscape
  BY <1>3, MovesInText
<1>4. CASE p.mode \notin InText \cup InEscape \cup {"end", "failed"}
  <2>1. CASE c \in {"{", "["} /\ (q = Opens(p, "object") \/ q = Opens(p, "array"))
    <3>1. Len(q.stack) = Len(p.stack) + 1
      BY <2>1, OpensShape DEF Kinds
    <3>2. Fails(p).mode = "failed"
      BY GoesShape DEF Fails, Modes
    <3>3. CASE p.mode \in {"object", "array"}
      <4>1. p.stack = <<>>
        BY <3>3 DEF Shape
      <4> QED BY <1>1, <3>1, <4>1
    <3>4. CASE p.mode \in {"document", "value", "first"}
      <4>1. q = Value(p, c, room)
        BY <2>1, <3>4 DEF Step
      <4>2. ~(Len(p.stack) >= MaxDepth + room)
        BY <3>2, <4>1 DEF Value
      <4> QED BY <1>1, <3>1, <4>2
    <3>5. CASE p.mode \in {"key", "firstKey"}
      <4>1. q = Key(p, c)
        BY <2>1, <3>5 DEF Step
      <4> QED BY <2>1, <3>2, <4>1 DEF Key, Quote
    <3>6. CASE p.mode = "colon"
      <4>1. q = Fails(p)
        BY <2>1, <3>6 DEF Step
      <4> QED BY <3>2, <4>1
    <3>7. CASE p.mode = "after"
      <4>1. q = After(p, c)
        BY <3>7 DEF Step
      <4>2. p.stack # <<>> /\ Len(p.stack) > 0 /\ p.stack[Len(p.stack)] \in Kinds
        BY <1>1, <3>7 DEF Shape
      <4>3. q = Fails(p)
        BY <2>1, <4>1, <4>2, AfterIs DEF Kinds
      <4> QED BY <3>2, <4>3
    <3> QED BY <1>1, <1>4, <3>3, <3>4, <3>5, <3>6, <3>7 DEF Modes, InText, InEscape
  <2>2. CASE p.stack # <<>> /\ q = Closes(p)
    <3>1. Len(q.stack) = Len(p.stack) - 1
      BY <2>2, ClosesShape
    <3> QED BY <1>1, <3>1
  <2>3. CASE q.stack = p.stack
    BY <2>3
  <2>4. Moved(p, c, q)
    BY <1>4, Moves
  <2> QED BY <2>1, <2>2, <2>3, <2>4 DEF Moved
<1> QED BY <1>2, <1>3, <1>4

-----------------------------------------------------------------------------
(* The scanner counts the objects that are open. *)
Objects(p) == {i \in 1..Len(p.stack) : p.stack[i] = "object"}

(* The objects open in a parser can be counted. *)
LEMMA ObjectsFinite ==
  ASSUME NEW p \in Config
  PROVE  /\ IsFiniteSet(Objects(p)) /\ Cardinality(Objects(p)) \in Nat
         /\ Objects(p) \subseteq 1..Len(p.stack)
<1>1. IsFiniteSet(1..Len(p.stack)) /\ Objects(p) \subseteq 1..Len(p.stack)
  BY FS_Interval DEF Objects, Config
<1> QED BY <1>1, FS_Subset, FS_CardinalityType

(* Only opening an object changes their number ... *)
LEMMA OpensCount ==
  ASSUME NEW p \in Config
  PROVE  /\ Cardinality(Objects(Opens(p, "object"))) = Cardinality(Objects(p)) + 1
         /\ Cardinality(Objects(Opens(p, "array"))) = Cardinality(Objects(p))
<1>1. p.stack \in Seq(Kinds)
  BY DEF Config
<1>2. Objects(Opens(p, "object")) = Objects(p) \cup {Len(p.stack) + 1}
  BY <1>1 DEF Objects, Opens, Kinds
<1>3. Objects(Opens(p, "array")) = Objects(p)
  BY <1>1 DEF Objects, Opens, Kinds
<1>4. Len(p.stack) + 1 \notin Objects(p)
  BY <1>1 DEF Objects
<1> QED BY <1>2, <1>3, <1>4, ObjectsFinite, FS_AddElement

(* ... and only closing one changes it back. *)
LEMMA ClosesCount ==
  ASSUME NEW p \in Config, p.stack # <<>>
  PROVE  /\ p.stack[Len(p.stack)] = "object" =>
              /\ Cardinality(Objects(Closes(p))) = Cardinality(Objects(p)) - 1
              /\ Cardinality(Objects(p)) > 0
         /\ p.stack[Len(p.stack)] = "array" =>
              Cardinality(Objects(Closes(p))) = Cardinality(Objects(p))
<1>1. p.stack \in Seq(Kinds) /\ Len(p.stack) \in Nat \ {0}
  BY DEF Config
<1>2. Objects(Closes(p)) = Objects(p) \ {Len(p.stack)}
  BY <1>1 DEF Objects, Closes
<1>3. p.stack[Len(p.stack)] = "object" => Len(p.stack) \in Objects(p)
  BY <1>1 DEF Objects
<1>4. p.stack[Len(p.stack)] = "array" => Len(p.stack) \notin Objects(p)
  BY DEF Objects
<1>5. CASE p.stack[Len(p.stack)] = "object"
  <2>1. /\ Cardinality(Objects(Closes(p))) = Cardinality(Objects(p)) - 1
        /\ Cardinality(Objects(Closes(p))) \in Nat
    BY <1>2, <1>3, <1>5, ObjectsFinite, FS_RemoveElement, ClosesShape
  <2> QED BY <1>5, <2>1, ObjectsFinite
<1>6. CASE p.stack[Len(p.stack)] = "array"
  <2>1. Objects(Closes(p)) = Objects(p)
    BY <1>2, <1>4, <1>6
  <2> QED BY <1>6, <2>1
<1> QED BY <1>1, <1>5, <1>6 DEF Kinds

Scanner == [mode : {"plain", "quoted", "escaped"}, depth : Int, start : Nat,
            pieces : SUBSET (Nat \X Nat)]

(* The brace scanner is where a parser is. *)
Follows(p, s) ==
  /\ p.mode \in InText <=> s.mode = "quoted"
  /\ p.mode \in InEscape <=> s.mode = "escaped"
  /\ s.depth = Cardinality(Objects(p))
  /\ s.start # 0 <=> s.depth > 0

(* The brace scanner stays within its type on every character. *)
LEMMA ScannerTypes ==
  ASSUME NEW s \in Scanner, NEW c, NEW at \in Nat
  PROVE  SplitStep(s, c, at) \in Scanner
<1>0. s.depth \in Int /\ s.start \in Nat /\ s.pieces \in SUBSET (Nat \X Nat)
  BY DEF Scanner
<1>4. \A d \in Int, i \in Nat : [s EXCEPT !.depth = d, !.start = i] \in Scanner
  BY DEF Scanner
<1>1. SplitBrace(s, c, at) \in Scanner
  <2> DEFINE whole == s.depth = 1 /\ s.start # 0
  <2>1. CASE c = "{"
    <3>1. SplitBrace(s, c, at) = [s EXCEPT !.depth = @ + 1, !.start = IF s.depth = 0 THEN at ELSE @]
      BY <2>1 DEF SplitBrace, Quote
    <3>2. s.depth + 1 \in Int /\ (IF s.depth = 0 THEN at ELSE s.start) \in Nat
      BY <1>0
    <3> QED BY <1>4, <3>1, <3>2
  <2>2. CASE c = "}"
    <3>1. SplitBrace(s, c, at) =
            [s EXCEPT !.depth = @ - 1, !.start = IF whole THEN 0 ELSE @,
                      !.pieces = IF whole THEN @ \cup {<<s.start, at>>} ELSE @]
      BY <2>2 DEF SplitBrace, Quote
    <3>2. s.pieces \cup {<<s.start, at>>} \in SUBSET (Nat \X Nat)
      BY <1>0
    <3> DEFINE d == s.depth - 1
               i == IF whole THEN 0 ELSE s.start
               ps == IF whole THEN s.pieces \cup {<<s.start, at>>} ELSE s.pieces
    <3>3. d \in Int /\ i \in Nat /\ ps \in SUBSET (Nat \X Nat)
      BY <1>0, <3>2
    <3>4. SplitBrace(s, c, at) = [s EXCEPT !.depth = d, !.start = i, !.pieces = ps]
      BY <3>1
    <3> HIDE DEF d, i, ps
    <3>5. [s EXCEPT !.depth = d, !.start = i, !.pieces = ps] \in Scanner
      BY <3>3 DEF Scanner
    <3> QED BY <3>4, <3>5
  <2>3. CASE c = Quote
    <3>1. SplitBrace(s, c, at) = [s EXCEPT !.mode = "quoted"]
      BY <2>3 DEF SplitBrace, Quote
    <3> QED BY <3>1 DEF Scanner
  <2>4. CASE c \notin {"{", "}", Quote}
    BY <2>4 DEF SplitBrace, Quote
  <2> QED BY <2>1, <2>2, <2>3, <2>4
<1>2. \A m \in {"plain", "quoted", "escaped"} : [s EXCEPT !.mode = m] \in Scanner
  BY DEF Scanner
<1>3. \/ SplitStep(s, c, at) = SplitBrace(s, c, at)
      \/ \E m \in {"plain", "quoted", "escaped"} : SplitStep(s, c, at) = [s EXCEPT !.mode = m]
  BY DEF SplitStep
<1> QED BY <1>1, <1>2, <1>3

(* On a character the parser accepts, the scanner goes on agreeing with it on the
   depth, on being within a text and on having a piece begun. *)
LEMMA ScannerFollows ==
  ASSUME NEW p \in Config, NEW c \in Chars, NEW s \in Scanner, NEW at \in Nat \ {0},
         Shape(p), Follows(p, s), p.mode \notin {"end", "failed"},
         Step(p, c, 0).mode # "failed"
  PROVE  Follows(Step(p, c, 0), SplitStep(s, c, at))
<1> DEFINE q == Step(p, c, 0)
           t == SplitStep(s, c, at)
<1>1. s.mode \in {"plain", "quoted", "escaped"} /\ s.depth \in Int /\ s.start \in Nat
  BY DEF Scanner
<1>2. Cardinality(Objects(p)) \in Nat
  BY ObjectsFinite
<1>3. q.stack = p.stack => Cardinality(Objects(q)) = Cardinality(Objects(p))
  BY DEF Objects
<1>4. CASE p.mode \in InText \cup InEscape
  <2>1. q.stack = p.stack /\ t.depth = s.depth /\ t.start = s.start
    BY <1>4, MovesInText DEF SplitStep, Follows, Scanner
  <2>2. CASE p.mode \in InEscape
    <3>1. q.mode \in InText /\ t.mode = "quoted"
      BY <1>1, <2>2, MovesInText DEF SplitStep, Follows, Scanner
    <3> QED BY <1>3, <2>1, <3>1 DEF Follows, InText, InEscape
  <2>3. CASE p.mode \in InText /\ c = Backslash
    <3>1. q.mode \in InEscape
      BY <2>3, MovesInText
    <3>2. t.mode = "escaped"
      BY <1>1, <2>3 DEF SplitStep, Follows, Scanner, Quote, Backslash
    <3> QED BY <1>3, <2>1, <3>1, <3>2 DEF Follows, InText, InEscape
  <2>4. CASE p.mode \in InText /\ c = Quote
    <3>1. q.mode \notin InText \cup InEscape
      BY <2>4, MovesInText DEF AfterValue, InText, InEscape
    <3>2. t.mode = "plain"
      BY <1>1, <2>4 DEF SplitStep, Follows, Scanner, Quote, Backslash
    <3> QED BY <1>3, <2>1, <3>1, <3>2 DEF Follows
  <2>5. CASE p.mode \in InText /\ c \notin {Quote, Backslash}
    <3>1. q = p
      BY <2>5, MovesInText
    <3>2. t.mode = "quoted"
      BY <1>1, <2>5 DEF SplitStep, Follows, Scanner
    <3> QED BY <1>3, <2>1, <2>5, <3>1, <3>2 DEF Follows
  <2> QED BY <1>4, <2>2, <2>3, <2>4, <2>5
<1>5. CASE p.mode \notin InText \cup InEscape
  <2>1. s.mode = "plain" /\ t = SplitBrace(s, c, at)
    BY <1>1, <1>5 DEF Follows, SplitStep
  <2>2. CASE c = "{" /\ q = Opens(p, "object")
    <3>1. q.mode \notin InText \cup InEscape /\ Cardinality(Objects(q)) = Cardinality(Objects(p)) + 1
      BY <2>2, OpensCount, PlaceAfterBracket DEF Kinds, InText, InEscape
    <3>2. t = [s EXCEPT !.depth = @ + 1, !.start = IF s.depth = 0 THEN at ELSE @]
      BY <2>1, <2>2 DEF SplitBrace, Quote
    <3> QED BY <1>1, <1>2, <2>1, <3>1, <3>2 DEF Follows, Scanner
  <2>3. CASE c = "[" /\ q = Opens(p, "array")
    <3>1. q.mode \notin InText \cup InEscape /\ Cardinality(Objects(q)) = Cardinality(Objects(p))
      BY <2>3, OpensCount, PlaceAfterBracket DEF Kinds, InText, InEscape
    <3>2. t = s
      BY <2>1, <2>3 DEF SplitBrace, Quote
    <3> QED BY <1>1, <2>1, <3>1, <3>2 DEF Follows
  <2>4. CASE c = "}" /\ q = Closes(p) /\ p.stack # <<>> /\ p.stack[Len(p.stack)] = "object"
    <3>1. /\ q.mode \notin InText \cup InEscape
          /\ Cardinality(Objects(q)) = Cardinality(Objects(p)) - 1
          /\ Cardinality(Objects(p)) > 0
      BY <2>4, ClosesCount, PlaceAfterBracket DEF InText, InEscape
    <3> DEFINE whole == s.depth = 1 /\ s.start # 0
    <3>2. t = [s EXCEPT !.depth = @ - 1, !.start = IF whole THEN 0 ELSE @,
                        !.pieces = IF whole THEN @ \cup {<<s.start, at>>} ELSE @]
      BY <2>1, <2>4 DEF SplitBrace, Quote
    <3>3. t.depth = s.depth - 1 /\ t.mode = "plain" /\ t.start = IF whole THEN 0 ELSE s.start
      BY <2>1, <3>2 DEF Scanner
    <3>4. s.depth = Cardinality(Objects(p)) /\ (s.start # 0 <=> s.depth > 0)
      BY DEF Follows
    <3>5. t.start # 0 <=> t.depth > 0
      BY <1>1, <1>2, <3>1, <3>3, <3>4
    <3> QED BY <3>1, <3>3, <3>4, <3>5 DEF Follows
  <2>5. CASE c = "]" /\ q = Closes(p) /\ p.stack # <<>> /\ p.stack[Len(p.stack)] = "array"
    <3>1. q.mode \notin InText \cup InEscape /\ Cardinality(Objects(q)) = Cardinality(Objects(p))
      BY <2>5, ClosesCount, PlaceAfterBracket DEF InText, InEscape
    <3>2. t = s
      BY <2>1, <2>5 DEF SplitBrace, Quote
    <3> QED BY <2>1, <3>1, <3>2 DEF Follows
  <2>6. CASE c = Quote /\ q.mode \in InText /\ q.stack = p.stack
    <3>1. t = [s EXCEPT !.mode = "quoted"]
      BY <2>1, <2>6 DEF SplitBrace, Quote
    <3> QED BY <1>3, <2>6, <3>1 DEF Follows, Scanner, InText, InEscape
  <2>7. CASE c \in {":", ",", "lit"} /\ q.stack = p.stack /\ q.mode \in {"value", "key", "after", "end"}
    <3>1. t = s
      BY <2>1, <2>7 DEF SplitBrace, Quote
    <3> QED BY <1>3, <2>1, <2>7, <3>1 DEF Follows, InText, InEscape
  <2>8. Moved(p, c, q)
    BY <1>5, Moves
  <2>9. AfterValue(p.stack) \in {"end", "after"}
    BY DEF AfterValue
  <2> QED BY <2>2, <2>3, <2>4, <2>5, <2>6, <2>7, <2>8, <2>9 DEF Moved, InText
<1> QED BY <1>4, <1>5

-----------------------------------------------------------------------------
(* A refused text leaves a well-formed parser. *)
LEMMA FailsMode ==
  ASSUME NEW p \in Config
  PROVE  Fails(p) \in Config /\ Fails(p).mode = "failed" /\ Shape(Fails(p))
BY GoesShape DEF Fails, Modes, Shape

(* A parser that is done, or has failed, reads no further. *)
LEMMA StepStays ==
  ASSUME NEW p, p.mode \in {"end", "failed"}, NEW c, NEW room
  PROVE  Step(p, c, room) = p
BY DEF Step

(* The uncounted container is all that tells the full parser from the others. *)
LEMMA Rooms ==
  ASSUME NEW p \in Config, NEW c
  PROVE  Step(p, c, 0) = Step(p, c, 1) \/ Step(p, c, 0).mode = "failed"
<1>1. p.mode \in Modes /\ Len(p.stack) \in Nat /\ MaxDepth \in Nat
  BY TextAssumption DEF Config
<1>2. Value(p, c, 0) = Value(p, c, 1) \/ Value(p, c, 0) = Fails(p)
  <2>1. CASE Len(p.stack) >= MaxDepth
    <3>1. Len(p.stack) >= MaxDepth + 0
      BY <1>1, <2>1
    <3> QED BY <3>1 DEF Value
  <2>2. CASE ~(Len(p.stack) >= MaxDepth)
    <3>1. ~(Len(p.stack) >= MaxDepth + 0) /\ ~(Len(p.stack) >= MaxDepth + 1)
      BY <1>1, <2>2
    <3> QED BY <3>1 DEF Value
  <2> QED BY <2>1, <2>2
<1>3. Fails(p).mode = "failed"
  BY FailsMode
<1>4. CASE p.mode \in {"document", "value", "first"}
  <2>1. \/ Step(p, c, 0) = Value(p, c, 0) /\ Step(p, c, 1) = Value(p, c, 1)
        \/ Step(p, c, 0) = Step(p, c, 1)
    BY <1>4 DEF Step
  <2> QED BY <1>2, <1>3, <2>1
<1>5. CASE p.mode \notin {"document", "value", "first"}
  <2>1. Step(p, c, 0) = Step(p, c, 1)
    BY <1>1, <1>5 DEF Step
  <2> QED BY <2>1
<1> QED BY <1>4, <1>5

(* Closing, written out. *)
LEMMA ClosesIs ==
  ASSUME NEW p
  PROVE  /\ Closes(p).stack = SubSeq(p.stack, 1, Len(p.stack) - 1)
         /\ Closes(p).mode = AfterValue(Closes(p).stack)
BY DEF Closes

(* An object that has been opened first stays at the bottom of the stack. *)
LEMMA FirstKept ==
  ASSUME NEW p \in Config, NEW c \in Chars, Shape(p),
         p.stack # <<>>, p.stack[1] = "object",
         p.mode \notin {"end", "failed"}, Step(p, c, 1).mode \notin {"end", "failed"}
  PROVE  Step(p, c, 1).stack # <<>> /\ Step(p, c, 1).stack[1] = "object"
<1> DEFINE q == Step(p, c, 1)
<1>1. p.stack \in Seq(Kinds) /\ Len(p.stack) > 0
  BY DEF Config
<1>2. CASE p.mode \in InText \cup InEscape
  BY <1>2, MovesInText
<1>3. CASE p.mode \notin InText \cup InEscape
  <2>1. Moved(p, c, q)
    BY <1>3, Moves
  <2>2. CASE q = Opens(p, "object") \/ q = Opens(p, "array")
    BY <1>1, <2>2 DEF Opens, Kinds
  <2>3. CASE q = Closes(p)
    <3>1. q.stack = SubSeq(p.stack, 1, Len(p.stack) - 1) /\ q.mode = AfterValue(q.stack)
      BY <2>3, ClosesIs
    <3>2. q.stack # <<>>
      BY <3>1 DEF AfterValue
    <3> QED BY <1>1, <3>1, <3>2
  <2>4. CASE q.stack = p.stack
    BY <2>4
  <2> QED BY <2>1, <2>2, <2>3, <2>4 DEF Moved
<1> QED BY <1>2, <1>3

Running(p) == p.mode \notin {"end", "failed"}
InValue(p) ==
  p.stack # <<>> /\ (Len(p.stack) = 1 => p.mode \in {"value", "text", "escape"})

(* A member's value is read to its end, and only then is the parser back in the
   top-level object. *)
LEMMA ValueIsRead ==
  ASSUME NEW p \in Config, NEW c \in Chars, Shape(p), p.stack[1] = "object",
         Running(p), InValue(p), Step(p, c, 1).mode # "failed"
  PROVE  LET q == Step(p, c, 1)
         IN \/ q.mode = "after" /\ q.stack = <<"object">>
            \/ Running(q) /\ InValue(q)
<1> DEFINE q == Step(p, c, 1)
<1>1. p.stack \in Seq(Kinds) /\ Len(p.stack) \in Nat \ {0} /\ p.stack # <<>>
  BY DEF Config, InValue
<1>2. Len(p.stack) = 1 => p.stack = <<"object">>
  BY <1>1
<1>3. CASE p.mode \in InText \cup InEscape
  <2>1. q.stack = p.stack
    BY <1>3, MovesInText
  <2>2. AfterValue(p.stack) = "after"
    BY <1>1 DEF AfterValue
  <2>3. Running(q)
    BY <1>3, <2>2, MovesInText DEF Running, InText, InEscape
  <2>4. Len(p.stack) = 1 => q.mode \in {"text", "escape", "after"}
    BY <1>3, <2>2, MovesInText DEF InValue, InText, InEscape
  <2> QED BY <1>1, <1>2, <2>1, <2>3, <2>4 DEF InValue
<1>4. CASE p.mode \notin InText \cup InEscape
  <2>1. Moved(p, c, q)
    BY <1>4, Moves DEF Running
  <2>2. CASE q = Opens(p, "object") \/ q = Opens(p, "array")
    <3>1. Len(q.stack) = Len(p.stack) + 1 /\ q.mode \in {"first", "firstKey"} /\ q \in Config
      BY <2>2, OpensShape, PlaceAfterBracket DEF Kinds
    <3>2. q.stack # <<>> /\ Len(q.stack) # 1
      BY <1>1, <3>1 DEF Config
    <3>3. q.mode \notin {"end", "failed"}
      BY <3>1
    <3> QED BY <3>2, <3>3 DEF Running, InValue
  <2>3. CASE q = Closes(p) /\ p.mode \in {"first", "firstKey", "after"}
    <3>0. Len(p.stack) # 1
      BY <2>3 DEF InValue
    <3>7. \A n \in Nat \ {0} : n # 1 => n > 1
      OBVIOUS
    <3>1. Len(p.stack) > 1
      BY <1>1, <3>0, <3>7, Zenon
    <3>2. q.stack = SubSeq(p.stack, 1, Len(p.stack) - 1) /\ q.mode = AfterValue(q.stack)
      BY <2>3, ClosesIs
    <3>3. q.stack \in Seq(Kinds) /\ Len(q.stack) = Len(p.stack) - 1
      BY <2>3, ClosesShape, <1>1 DEF Config
    <3>6. q.stack[1] = "object"
      BY <1>1, <3>1, <3>2
    <3>4. q.mode = "after" /\ q.stack # <<>>
      BY <3>1, <3>2, <3>3, <1>1 DEF AfterValue
    <3>5. Len(q.stack) = 1 => q.stack = <<"object">>
      BY <3>3, <3>6
    <3> QED BY <3>4, <3>5 DEF Running, InValue
  <2>4. CASE q.stack = p.stack /\ q.mode = IF p.mode \in {"key", "firstKey"} THEN "keyText" ELSE "text"
    <3>1. Len(p.stack) = 1 => p.mode = "value"
      BY <1>4 DEF InValue, InText, InEscape
    <3> QED BY <1>1, <2>4, <3>1 DEF Running, InValue
  <2>5. CASE q.stack = p.stack /\ p.mode \in {"colon", "after"} /\ q.mode \in {"value", "key"}
    BY <1>1, <2>5 DEF Running, InValue
  <2>6. CASE q.stack = p.stack /\ q.mode = AfterValue(p.stack)
    <3>1. q.mode = "after"
      BY <1>1, <2>6 DEF AfterValue
    <3> QED BY <1>1, <1>2, <2>6, <3>1 DEF Running, InValue
  <2> QED BY <2>1, <2>2, <2>3, <2>4, <2>5, <2>6 DEF Moved
<1> QED BY <1>3, <1>4

-----------------------------------------------------------------------------
Types ==
  /\ text \in Seq(Chars) /\ content \in Seq(Chars)
  /\ doc \in Config /\ keys \in Config
  /\ split \in Scanner /\ from \in Nat
  /\ Shape(doc) /\ Shape(keys)

ScannerInPlace == doc.mode # "failed" => Follows(doc, split)

DepthOK ==
  /\ doc.mode # "failed" => Len(doc.stack) <= MaxDepth
  /\ keys.mode # "failed" => Len(keys.stack) <= MaxDepth + 1

RawInside == raw = [mode |-> "text", stack |-> <<>>] /\ content = text

(* The parser of the keys and the full parser are at one place. *)
Agree ==
  \/ doc.mode = "failed" \/ keys.mode = "failed"
  \/ doc = keys
  \/ doc.mode = "document" /\ keys.mode = "object"

(* So are the parser of a member, until it has its answer, and that of the keys. *)
MemberAgrees ==
  /\ Running(member) => member = keys
  /\ member.mode = "end" => from # 0
  /\ member.mode = "failed" => keys.mode = "failed" \/ (keys.mode = "end" /\ Needle \notin names)
  /\ Running(member) /\ from = 0 => Needle \notin names
  /\ Running(member) /\ from # 0 => InValue(member)

KeysInObject ==
  keys.mode \notin {"object", "end", "failed"} =>
    keys.stack # <<>> /\ keys.stack[1] = "object"

(* The full parser refuses no earlier than the parser of the keys, unless it has
   read a whole document or met its cap. *)
RefusesLate ==
  /\ doc.mode = "failed" /\ keys.mode # "failed" => verdict # "part"
  /\ doc.mode = "end" => verdict = "whole"

IInv ==
  /\ Types /\ ScannerInPlace /\ DepthOK /\ RawInside
  /\ Agree /\ RefusesLate /\ MemberAgrees /\ KeysInObject

(* The parsers begin in agreement. *)
LEMMA InitInv == Init => IInv
<1> SUFFICES ASSUME Init PROVE IInv
  OBVIOUS
<1> USE DEF Init
<1>1. Types
  BY DEF Types, Config, Modes, Shape, Scanner
<1>2. ScannerInPlace
  <2>1. Objects(doc) = {}
    BY DEF Objects
  <2>2. Cardinality(Objects(doc)) = 0
    BY <2>1, FS_EmptySet
  <2> QED BY <2>2 DEF ScannerInPlace, Follows, InText, InEscape
<1>3. DepthOK
  BY TextAssumption DEF DepthOK
<1>4. RawInside
  BY DEF RawInside
<1>5. Agree
  BY DEF Agree
<1>6. MemberAgrees
  BY DEF MemberAgrees, Running
<1>7. KeysInObject
  BY DEF KeysInObject
<1>8. RefusesLate
  BY DEF RefusesLate
<1> QED BY <1>1, <1>2, <1>3, <1>4, <1>5, <1>6, <1>7, <1>8 DEF IInv

(* What a step makes of the full parser and of the parser of the keys. *)
LEMMA ReadTypes ==
  ASSUME IInv, NEW c \in Chars, Read(c)
  PROVE  /\ doc' \in Config /\ Shape(doc') /\ keys' \in Config /\ Shape(keys')
         /\ split' \in Scanner /\ from' \in Nat /\ text' \in Seq(Chars)
         /\ keys' = Step(keys, c, 1)
         /\ doc'.mode # "failed" => Running(doc) /\ doc' = Step(doc, c, 0)
<1>1. /\ text \in Seq(Chars) /\ doc \in Config /\ keys \in Config /\ split \in Scanner
      /\ from \in Nat /\ Shape(doc) /\ Shape(keys)
  BY DEF IInv, Types
<1>2. text' \in Seq(Chars) /\ Len(text) + 1 \in Nat
  BY <1>1 DEF Read
<1>3. keys' = Step(keys, c, 1)
  BY DEF Read, KeysStep
<1>4. keys' \in Config /\ Shape(keys')
  BY <1>1, <1>3, StepShape
<1>5. doc' = IF doc.mode = "end" THEN Fails(doc) ELSE Step(doc, c, 0)
  BY DEF Read, DocStep
<1>6. doc' \in Config /\ Shape(doc')
  BY <1>1, <1>5, StepShape, FailsMode
<1>7. doc'.mode # "failed" => Running(doc) /\ doc' = Step(doc, c, 0)
  <2>1. doc.mode = "end" => doc'.mode = "failed"
    BY <1>1, <1>5, FailsMode
  <2>2. doc.mode = "failed" => doc'.mode = "failed"
    BY <1>5, StepStays
  <2> QED BY <1>5, <2>1, <2>2 DEF Running
<1>8. split' = SplitStep(split, c, Len(text) + 1)
  BY DEF Read
<1>9. split' \in Scanner
  BY <1>1, <1>2, <1>8, ScannerTypes
<1>10. from' \in Nat
  BY <1>1, <1>2 DEF Read
<1> QED BY <1>2, <1>3, <1>4, <1>6, <1>7, <1>9, <1>10

(* A character more of the answer keeps the escaped form readable. *)
LEMMA ReadRaw ==
  ASSUME IInv, NEW c \in Chars, Read(c)
  PROVE  RawInside'
<1> DEFINE inside == [mode |-> "text", stack |-> <<>>]
           outside == [mode |-> "escape", stack |-> <<>>]
<1>1. raw = inside /\ content = text /\ text \in Seq(Chars)
  BY DEF IInv, RawInside, Types
<1>2. /\ raw' = RawStep(inside, c) /\ content' = text \o RawHeard(inside, c)
      /\ text' = Append(text, c)
  BY <1>1 DEF Read
<1>3. Step(inside, Backslash, 0) = outside
  BY DEF Step, Within, Goes, Backslash, Quote
<1>4. \A e \in {Quote, Backslash, "n"} : Step(outside, e, 0) = inside
  BY DEF Step, Escaped, Goes
<1>7. text \o <<c>> = Append(text, c)
  BY <1>1
<1>5. CASE c \in {Quote, Backslash, "ctl"}
  <2>1. PICK e \in {Quote, Backslash, "n"} : Escape(c) = <<Backslash, e>> /\ Unescape(e) = c
    BY <1>5 DEF Escape, Unescape, Quote, Backslash
  <2>2. raw' = inside
    BY <1>2, <1>3, <1>4, <2>1 DEF RawStep
  <2>3. Heard("text", Backslash) = <<>> /\ Heard("escape", e) = <<c>>
    BY <2>1 DEF Heard, Backslash, Quote
  <2>4. RawHeard(inside, c) = Heard("text", Backslash) \o Heard(Step(inside, Backslash, 0).mode, e)
    BY <2>1 DEF RawHeard
  <2>5. RawHeard(inside, c) = <<>> \o <<c>>
    BY <1>3, <2>3, <2>4
  <2>6. RawHeard(inside, c) = <<c>>
    BY <2>5
  <2> QED BY <1>2, <1>7, <2>2, <2>6 DEF RawInside
<1>6. CASE c \notin {Quote, Backslash, "ctl"}
  <2>1. Escape(c) = <<c>>
    BY <1>6 DEF Escape
  <2>2. raw' = inside
    BY <1>2, <1>6, <2>1 DEF RawStep, Step, Within
  <2>3. RawHeard(inside, c) = <<c>>
    BY <1>6, <2>1 DEF RawHeard, Heard
  <2> QED BY <1>2, <1>7, <2>2, <2>3 DEF RawInside
<1> QED BY <1>5, <1>6

(* A character more keeps the scanner in step with the full parser. *)
LEMMA ReadScanner ==
  ASSUME IInv, NEW c \in Chars, Read(c)
  PROVE  ScannerInPlace'
<1> SUFFICES ASSUME doc'.mode # "failed" PROVE Follows(doc', split')
  BY DEF ScannerInPlace, Follows, Objects
<1>1. Running(doc) /\ doc' = Step(doc, c, 0)
  BY ReadTypes
<1>2. doc \in Config /\ Shape(doc) /\ split \in Scanner /\ Len(text) + 1 \in Nat \ {0}
  BY DEF IInv, Types
<1>3. Follows(doc, split)
  BY <1>1 DEF IInv, ScannerInPlace, Running
<1>4. split' = SplitStep(split, c, Len(text) + 1)
  BY DEF Read
<1> QED BY <1>1, <1>2, <1>3, <1>4, ScannerFollows DEF Running

(* A character more keeps every recursion within the cap. *)
LEMMA ReadDepth ==
  ASSUME IInv, NEW c \in Chars, Read(c)
  PROVE  DepthOK'
<1>1. doc \in Config /\ Shape(doc) /\ keys \in Config /\ Shape(keys) /\ MaxDepth \in Nat
  BY TextAssumption DEF IInv, Types
<1>2. ASSUME doc'.mode # "failed" PROVE Len(doc'.stack) <= MaxDepth
  <2>1. doc' = Step(doc, c, 0) /\ doc.mode # "failed"
    BY <1>2, ReadTypes DEF Running
  <2>2. Len(doc.stack) <= MaxDepth + 0
    BY <1>1, <2>1 DEF IInv, DepthOK
  <2>3. Len(doc'.stack) <= MaxDepth + 0
    BY <1>1, <1>2, <2>1, <2>2, StepDepth
  <2> QED BY <1>1, <2>3
<1>3. ASSUME keys'.mode # "failed" PROVE Len(keys'.stack) <= MaxDepth + 1
  <2>1. keys' = Step(keys, c, 1)
    BY ReadTypes
  <2>2. keys.mode # "failed"
    BY <1>3, <2>1, StepStays
  <2>3. Len(keys.stack) <= MaxDepth + 1
    BY <2>2 DEF IInv, DepthOK
  <2>4. Len(Step(keys, c, 1).stack) <= MaxDepth + 1
    BY <1>1, <1>3, <2>1, <2>3, StepDepth
  <2> QED BY <2>1, <2>4
<1> QED BY <1>2, <1>3 DEF DepthOK

(* A character more keeps the two parsers of the required keys in agreement. *)
LEMMA ReadAgrees ==
  ASSUME IInv, NEW c \in Chars, Read(c)
  PROVE  Agree'
<1> SUFFICES ASSUME doc'.mode # "failed", keys'.mode # "failed"
             PROVE  doc' = keys' \/ (doc'.mode = "document" /\ keys'.mode = "object")
  BY DEF Agree
<1>1. doc \in Config /\ Shape(doc) /\ keys \in Config /\ Shape(keys)
  BY DEF IInv, Types
<1>2. Running(doc) /\ doc' = Step(doc, c, 0) /\ keys' = Step(keys, c, 1)
  BY ReadTypes
<1>3. keys.mode # "failed"
  BY <1>2, StepStays
<1>4. CASE doc = keys
  BY <1>1, <1>2, <1>4, Rooms
<1>5. CASE doc.mode = "document" /\ keys.mode = "object"
  <2>1. doc.stack = <<>> /\ keys.stack = <<>>
    BY <1>1, <1>5 DEF Shape
  <2>2. keys' = IF c = "{" THEN Opens(keys, "object") ELSE Fails(keys)
    BY <1>2, <1>5 DEF Step
  <2>3. c = "{" /\ keys' = Opens(keys, "object")
    BY <1>1, <2>2, FailsMode
  <2>4. doc' = Value(doc, c, 0)
    BY <1>2, <1>5, <2>3 DEF Step
  <2>5. doc' = Fails(doc) \/ doc' = Opens(doc, "object")
    BY <2>3, <2>4 DEF Value, Quote
  <2>6. doc' = Opens(doc, "object")
    BY <1>1, <2>5, FailsMode
  <2>7. Opens(doc, "object") = Opens(keys, "object")
    BY <2>1 DEF Opens
  <2> QED BY <2>3, <2>6, <2>7
<1> QED BY <1>2, <1>3, <1>4, <1>5 DEF IInv, Agree, Running

(* Below the cap an entry point that counts one level less reads the same. *)
LEMMA RoomsBelow ==
  ASSUME NEW p \in Config, NEW c \in Chars,
         p.mode \in {"document", "value", "first"} => Len(p.stack) < MaxDepth
  PROVE  Step(p, c, 0) = Step(p, c, 1)
<1>1. Len(p.stack) \in Nat /\ MaxDepth \in Nat
  BY TextAssumption DEF Config
<1>2. CASE p.mode \in {"document", "value", "first"}
  <2>1. ~ (Len(p.stack) >= MaxDepth + 0) /\ ~ (Len(p.stack) >= MaxDepth + 1)
    BY <1>1, <1>2
  <2>2. Value(p, c, 0) = Value(p, c, 1)
    BY <2>1 DEF Value
  <2> QED BY <1>2, <2>2 DEF Step
<1>3. CASE p.mode \notin {"document", "value", "first"}
  BY <1>3 DEF Step
<1> QED BY <1>2, <1>3

(* A character more is not refused by the full parser alone, but at its cap or
   behind a whole document. *)
LEMMA ReadRefuses ==
  ASSUME IInv, NEW c \in Chars, Read(c)
  PROVE  RefusesLate'
<1>1. doc \in Config /\ Shape(doc) /\ keys \in Config /\ Shape(keys)
  BY DEF IInv, Types
<1>2. /\ doc' = IF doc.mode = "end" THEN Fails(doc) ELSE Step(doc, c, 0)
      /\ keys' = Step(keys, c, 1)
      /\ doc'.mode = "end" => verdict' = "whole"
      /\ doc'.mode = "failed" => verdict' = IF AtCap THEN "deep" ELSE verdict
  BY DEF Read, DocStep, KeysStep
<1>3. ASSUME doc'.mode = "failed", keys'.mode # "failed"
      PROVE  verdict' # "part"
  <2>1. keys.mode # "failed"
    BY <1>2, <1>3, StepStays
  <2>2. CASE doc.mode \in {"end", "failed"} \/ AtCap
    BY <1>2, <1>3, <2>1, <2>2 DEF IInv, RefusesLate
  <2>3. CASE doc.mode \notin {"end", "failed"} /\ ~ AtCap
    <3>1. doc.mode = "document" => Len(doc.stack) < MaxDepth
      BY <1>1, TextAssumption DEF Shape
    <3>2. Len(doc.stack) \in Nat /\ MaxDepth \in Nat
      BY <1>1, TextAssumption DEF Config
    <3>3. Step(doc, c, 0) = Step(doc, c, 1)
      BY <1>1, <2>3, <3>1, <3>2, RoomsBelow DEF AtCap
    <3>4. CASE doc = keys
      BY <1>2, <1>3, <2>3, <3>3, <3>4
    <3>5. CASE doc.mode = "document" /\ keys.mode = "object"
      <4>1. keys' = IF c = "{" THEN Opens(keys, "object") ELSE Fails(keys)
        BY <1>2, <3>5 DEF Step
      <4>2. c = "{"
        BY <1>1, <1>3, <4>1, FailsMode
      <4>3. doc' = Value(doc, c, 0)
        BY <1>2, <3>5, <4>2 DEF Step
      <4>4. ~ (Len(doc.stack) >= MaxDepth + 0)
        BY <3>1, <3>2, <3>5
      <4>5. doc' = Opens(doc, "object")
        BY <4>2, <4>3, <4>4 DEF Value, Quote
      <4>6. Opens(doc, "object").mode = "firstKey"
        BY DEF Opens
      <4> QED BY <1>3, <4>5, <4>6
    <3> QED BY <2>1, <2>3, <3>4, <3>5 DEF IInv, Agree
  <2> QED BY <2>2, <2>3
<1> QED BY <1>2, <1>3 DEF RefusesLate

(* A character more keeps the reader of the keys inside the object it opened. *)
LEMMA ReadKeysInObject ==
  ASSUME IInv, NEW c \in Chars, Read(c)
  PROVE  KeysInObject'
<1> SUFFICES ASSUME keys'.mode \notin {"object", "end", "failed"}
             PROVE  keys'.stack # <<>> /\ keys'.stack[1] = "object"
  BY DEF KeysInObject
<1>1. keys \in Config /\ Shape(keys) /\ keys' = Step(keys, c, 1)
  BY ReadTypes DEF IInv, Types
<1>2. keys.mode \notin {"end", "failed"}
  BY <1>1, StepStays
<1>3. CASE keys.mode = "object"
  <2>1. keys.stack = <<>>
    BY <1>3 DEF IInv, Types, Shape
  <2>2. keys' = Opens(keys, "object")
    BY <1>1, <1>3, FailsMode DEF Step
  <2>3. keys'.stack = Append(<<>>, "object")
    BY <2>1, <2>2 DEF Opens
  <2> QED BY <2>3
<1>4. CASE keys.mode # "object"
  <2>1. keys.stack # <<>> /\ keys.stack[1] = "object"
    BY <1>2, <1>4 DEF IInv, KeysInObject
  <2> QED BY <1>1, <1>2, <2>1, FirstKept
<1> QED BY <1>3, <1>4

(* A character more keeps the extractor of a member in step with the reader of keys. *)
LEMMA ReadMember ==
  ASSUME IInv, NEW c \in Chars, Read(c)
  PROVE  MemberAgrees'
<1> DEFINE q == Step(member, c, 1)
<1>1. keys \in Config /\ Shape(keys) /\ keys' = Step(keys, c, 1) /\ from \in Nat
  BY ReadTypes DEF IInv, Types
<1>2. MemberAgrees
  BY DEF IInv
<1>3. member' = MemberStep(member, c)
  BY DEF Read
<1>4. from' = IF TopColon(member, c) /\ name = Needle THEN Len(text) + 2 ELSE from
  BY DEF Read, IInv, Types
<1>5. names' = IF TopColon(keys, c) THEN names \cup {name} ELSE names
  BY DEF Read
<1>6. CASE member.mode = "end"
  <2>1. member' = member
    BY <1>3, <1>6 DEF MemberStep
  <2>2. from' = from
    BY <1>4, <1>6 DEF TopColon
  <2> QED BY <1>2, <1>6, <2>1, <2>2 DEF MemberAgrees, Running
<1>7. CASE member.mode = "failed"
  <2>1. q = member
    BY <1>7, StepStays
  <2>2. member' = member
    BY <1>3, <1>7, <2>1 DEF MemberStep
  <2>3. keys.mode \in {"end", "failed"}
    BY <1>2, <1>7 DEF MemberAgrees
  <2>4. keys' = keys /\ names' = names
    BY <1>1, <1>5, <2>3, StepStays DEF TopColon
  <2> QED BY <1>2, <1>7, <2>2, <2>4 DEF MemberAgrees, Running
<1>8. CASE Running(member) /\ from = 0
  <2>1. member = keys /\ Needle \notin names /\ keys' = q
    BY <1>1, <1>2, <1>8 DEF MemberAgrees
  <2>2. member' = IF q.mode = "end" THEN Fails(q) ELSE q
    BY <1>3, <1>8 DEF MemberStep, Running
  <2>3. Fails(q).mode = "failed"
    BY <1>1, <2>1, StepShape, FailsMode
  <2>4. CASE TopColon(member, c)
    <3>1. q = Goes(member, "value")
      BY <2>4 DEF TopColon, Step
    <3>2. q.mode = "value" /\ q.stack = member.stack /\ Len(q.stack) = 1
      BY <1>1, <2>1, <2>4, <3>1, GoesShape DEF TopColon, Modes
    <3>3. member' = q /\ Running(q) /\ q.stack # <<>>
      BY <2>2, <3>2 DEF Running
    <3>4. CASE name = Needle
      <4>1. from' # 0
        BY <1>4, <2>4, <3>4 DEF IInv, Types
      <4> QED BY <2>1, <3>2, <3>3, <4>1 DEF MemberAgrees, Running, InValue
    <3>5. CASE name # Needle
      <4>1. from' = 0 /\ Needle \notin names'
        BY <1>4, <1>5, <1>8, <2>1, <3>5
      <4> QED BY <2>1, <3>2, <3>3, <4>1 DEF MemberAgrees, Running
    <3> QED BY <3>4, <3>5
  <2>5. CASE ~TopColon(member, c)
    <3>1. from' = 0 /\ names' = names
      BY <1>4, <1>5, <1>8, <2>1, <2>5
    <3> QED BY <2>1, <2>2, <2>3, <3>1 DEF MemberAgrees, Running
  <2> QED BY <2>4, <2>5
<1>9. CASE Running(member) /\ from # 0
  <2>1. member = keys /\ InValue(member) /\ keys' = q
    BY <1>1, <1>2, <1>9 DEF MemberAgrees
  <2>2. ~TopColon(member, c)
    BY <2>1 DEF InValue, TopColon
  <2>3. from' # 0
    BY <1>4, <1>9, <2>2
  <2>4. member.stack[1] = "object"
    <3>1. member.mode # "object"
      BY <1>1, <2>1 DEF InValue, Shape
    <3> QED BY <1>9, <2>1, <3>1 DEF IInv, KeysInObject, Running
  <2>5. CASE q.mode = "failed"
    <3>1. member' = q
      BY <1>3, <1>9, <2>5 DEF MemberStep, Running
    <3> QED BY <2>1, <2>5, <3>1 DEF MemberAgrees, Running
  <2>6. CASE q.mode = "after" /\ q.stack = <<"object">>
    <3>1. member' = Goes(q, "end")
      BY <1>3, <1>9, <2>6 DEF MemberStep, Running
    <3>2. member'.mode = "end"
      BY <1>1, <2>1, <3>1, StepShape, GoesShape DEF Modes
    <3> QED BY <2>3, <3>2 DEF MemberAgrees, Running
  <2>7. CASE Running(q) /\ InValue(q) /\ ~(q.mode = "after" /\ q.stack = <<"object">>)
    <3>1. member' = q
      BY <1>3, <1>9, <2>7 DEF MemberStep, Running
    <3> QED BY <2>1, <2>3, <2>7, <3>1 DEF MemberAgrees, Running, InValue
  <2> QED BY <1>1, <1>9, <2>1, <2>4, <2>5, <2>6, <2>7, ValueIsRead
<1> QED BY <1>6, <1>7, <1>8, <1>9 DEF Running

(* The invariant of the parsers is inductive. *)
LEMMA StepInv == IInv /\ [Next]_vars => IInv'
<1> SUFFICES ASSUME IInv, [Next]_vars PROVE IInv'
  OBVIOUS
<1>1. CASE Next
  <2>1. PICK c \in Chars : Read(c)
    BY <1>1, TextAssumption DEF Next
  <2>2. /\ RawInside' /\ ScannerInPlace' /\ DepthOK' /\ Agree'
        /\ RefusesLate' /\ MemberAgrees' /\ KeysInObject'
    BY <2>1, ReadRaw, ReadScanner, ReadDepth, ReadAgrees, ReadRefuses, ReadMember, ReadKeysInObject
  <2>3. Types'
    BY <2>1, <2>2, ReadTypes DEF Types, RawInside
  <2> QED BY <2>2, <2>3 DEF IInv
<1>2. CASE UNCHANGED vars
  BY <1>2 DEF IInv, Types, ScannerInPlace, DepthOK, RawInside, Agree, RefusesLate, MemberAgrees,
       KeysInObject, vars, Follows, Objects, Shape, Running, InValue
<1> QED BY <1>1, <1>2

(* The parsers that read one answer, character by character, stay in agreement. *)
THEOREM ParsersInv == Spec => []IInv
BY InitInv, StepInv, PTL DEF Spec

(* Whatever the model answers, the string json_value_or_raw wraps it in neither
   ends early nor breaks its row, and reads back as the answer. *)
THEOREM RawAlwaysReadsBack == Spec => []RawReadsBack
<1>1. IInv => RawReadsBack
  BY DEF IInv, RawInside, RawReadsBack
<1> QED BY <1>1, ParsersInv, PTL

(* For texts of any length and any cap: what
   json_object_satisfies_required_schema lets pass begins with an object that the
   full parser has read to its end or refused for its depth, and every key that was
   seen can be extracted.  Text behind that object is not looked at: of an answer
   with such text the theorem says that the object is whole, not the answer. *)
THEOREM CheckedIsWhole == Spec => []CheckedAnswerIsWhole
<1>1. IInv => CheckedAnswerIsWhole
  <2> SUFFICES ASSUME IInv, keys.mode = "end"
               PROVE  /\ verdict # "part"
                      /\ doc.mode = "failed" \/ doc.mode = "end"
                      /\ Needle \in names => member.mode = "end" /\ from # 0
    BY DEF CheckedAnswerIsWhole, Satisfies
  <2>1. doc.mode = "failed" \/ doc.mode = "end"
    BY DEF IInv, Agree
  <2>2. verdict # "part"
    BY <2>1 DEF IInv, RefusesLate
  <2>3. Needle \in names => member.mode = "end" /\ from # 0
    BY DEF IInv, MemberAgrees, Running
  <2> QED BY <2>1, <2>2, <2>3
<1> QED BY <1>1, ParsersInv, PTL

(* The cap bounds the recursion of parse_value whatever the text and whichever
   function it is given to. *)
THEOREM RecursionBounded == Spec => []DepthOK
<1>1. IInv => DepthOK
  BY DEF IInv
<1> QED BY <1>1, ParsersInv, PTL

(* split_top_level_array_objects, which counts braces and quotes, is at the same
   place as the parser of the text: within a string or not, after a backslash or
   not, and as deep in objects.  So it cuts where objects begin and end. *)
THEOREM ScannerFollowsParser == Spec => []ScannerInPlace
<1>1. IInv => ScannerInPlace
  BY DEF IInv
<1> QED BY <1>1, ParsersInv, PTL
=============================================================================
