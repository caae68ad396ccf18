----------------------------- MODULE MCJsonText -----------------------------
(***************************************************************************)
(* JsonText over every text of a small alphabet, against the grammar of     *)
(* JSON built as sets of texts: index n of a language holds its texts of    *)
(* length n.                                                                *)
(***************************************************************************)
EXTENDS JsonText, SequencesExt

CONSTANT GrammarLen   \* bound: the length of the texts of the grammar

MCNeedle == <<"n">>
MCAgent == <<"n", "n">>
MCRequirements == {{}, {<<"n">>}}
MCOutside == Chars \ {"n", "ctl", Backslash}
MCInside == {Quote, Backslash, "n", "ctl", "}"}

Lengths == [i \in 1..GrammarLen |-> i]
At(lang, n) == IF n \in 1..Len(lang) THEN lang[n] ELSE {}
Joined(left, sep, right, n) ==
  UNION {{a \o <<sep>> \o b : a \in At(left, k), b \in At(right, n - k - 1)}
           : k \in 1..n}
Around(open, lang, close, n) ==
  (IF n = 2 THEN {<<open, close>>} ELSE {})
    \cup {<<open>> \o a \o <<close>> : a \in At(lang, n - 2)}
BuildUp(Of(_, _)) ==
  FoldLeft(LAMBDA lang, n : Append(lang, Of(lang, n)), <<>>, Lengths)
CommaList(lang) == BuildUp(LAMBDA l, n : At(lang, n) \cup Joined(lang, ",", l, n))

Plain == MCInside \ {Quote, Backslash, "ctl"}
Bodies == BuildUp(LAMBDA l, n :
  LET Before(k) == IF k = 0 THEN {<<>>} ELSE At(l, k)
  IN {b \o <<c>> : b \in Before(n - 1), c \in Plain}
       \cup {b \o <<Backslash, c>> : b \in Before(n - 2), c \in {Quote, Backslash, "n"}})
Strings == [n \in 1..GrammarLen |-> Around(Quote, Bodies, Quote, n)]

Nested(lang) ==
  [n \in 1..GrammarLen |->
     Around("[", CommaList(lang), "]", n)
       \cup Around("{", CommaList([m \in 1..GrammarLen |-> Joined(Strings, ":", lang, m)]),
                    "}", n)]
Deeper(values, d) ==
  LET nested == Nested(values)
  IN [n \in 1..GrammarLen |-> nested[n] \cup Strings[n]
                             \cup (IF n = 1 THEN {<<"lit">>} ELSE {})]
Values == FoldLeft(Deeper, [n \in 1..GrammarLen |-> {}], [d \in 1..MaxDepth |-> d])

Documents == UNION {{v \in Values[n] : v[1] \in {"{", "["}} : n \in 1..GrammarLen}
StringArrays == UNION {Around("[", CommaList(Strings), "]", n) : n \in 1..GrammarLen}
AllValues == UNION {Values[n] : n \in 1..GrammarLen}
Beginnings == UNION {Prefixes(v) : v \in Documents}

(* What stands between the quotes of a text without escapes. *)
Quoted ==
  LET Q == {i \in DOMAIN text : text[i] = Quote}
      Before(i) == {k \in Q : k < i}
  IN {SubSeq(text, i + 1, j - 1) : <<i, j>> \in
        {<<i, j>> \in Q \X Q : Cardinality(Before(i)) % 2 = 0 /\ Before(j) = Before(i) \cup {i}}}

(* The parser accepts exactly the documents of the grammar no deeper than its
   cap, gives up only where no such document can follow, and the required keys of
   a schema are those of an array of strings of the grammar or none. *)
DocumentExact ==
  Len(text) <= GrammarLen =>
    /\ doc.mode = "end" <=> text \in Documents
    /\ doc.mode = "failed" => text \notin Beginnings
    /\ list.mode = "end" <=> text \in StringArrays
    /\ list.mode = "end" /\ Backslash \notin Range(text) => RequiredKeys = Quoted

(* The pieces the planner's scanner cuts an accepted value into are objects of
   the grammar, whole, in one piece each and apart from each other, and the value
   extracted for a key is a value of the grammar. *)
PiecesAreObjects ==
  /\ doc.mode = "end" =>
       /\ \A p \in split.pieces :
            p[2] - p[1] < GrammarLen => SubSeq(text, p[1], p[2]) \in Documents
       /\ \A p, q \in split.pieces : p = q \/ p[2] < q[1] \/ q[2] < p[1]
  /\ member.mode = "end" /\ upto - from < GrammarLen =>
       SubSeq(text, from, upto) \in AllValues
=============================================================================
