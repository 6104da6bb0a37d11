------------------------------ MODULE TreeText ------------------------------
(***************************************************************************)
(* The text of scene files: the tree of nodes and attributes that          *)
(* scn_save builds, written by ts_text_save and read by ts_text_load of    *)
(* libs/treestor, and what is left of a scene when the disk is full.       *)
(*                                                                         *)
(* A text is a sequence of LEXEMES: runs of characters that the scanner    *)
(* treats alike, such as "kd", "05" or " ".  A number is the text that %g  *)
(* prints of it, to six digits; that it loses the rest is not modelled.    *)
(***************************************************************************)
EXTENDS Integers, Sequences, SequencesExt, FiniteSetsExt

CONSTANTS
  Letters, Digits,  \* lexemes of letters, and of digits
  Scenes,           \* the trees of some scenes
  NoScene,          \* an empty scene, after a file that cannot be read
  MaxElems          \* 31: the elements of an array that are kept

VARIABLES
  disk,      \* the text on the disk
  saved,     \* history: the scene that was saved last
  whole,     \* history: and all of its text was written
  shown      \* the scene after an open

textVars == <<disk, saved, whole, shown>>

Blanks == {" ", "\t", "\n"}
Quote  == "\""

-----------------------------------------------------------------------------
(* Values: strings, numbers, vectors of numbers, arrays of anything else.  *)

StrVal(s)   == [type |-> "string", text |-> s]
NumVal(s)   == [type |-> "number", text |-> s]
VecVal(s)   == [type |-> "vector", text |-> s]
ArrVal(s)   == [type |-> "array", text |-> s]
NoValue  == [type |-> "none", text |-> <<>>]

Attr(name, val)         == [name |-> <<name>>, val |-> val]
Node(name, attrs, kids) == [name |-> name, attrs |-> attrs, kids |-> kids]

-----------------------------------------------------------------------------
(* Writing: ts_text_save, print_attr and value_to_str.                     *)

Tabs(n) == [i \in 1 .. n |-> "\t"]

\* The elements with a comma and a blank between them.
Listed(texts) ==
  FlattenSeq([i \in DOMAIN texts |-> IF i = 1 THEN texts[i] ELSE <<",", " ">> \o texts[i]])

Printed(v) ==
  CASE v.type = "string" -> <<Quote>> \o v.text \o <<Quote>>
    [] v.type = "number" -> v.text
    [] v.type = "vector" -> <<"[">> \o Listed(v.text) \o <<"]">>

AttrText(a, level, inline) ==
  IF inline THEN <<" ">> \o a.name \o <<" ", "=", " ">> \o Printed(a.val) \o <<" ">>
  ELSE Tabs(level + 1) \o a.name \o <<" ", "=", " ">> \o Printed(a.val) \o <<"\n">>

\* A node of at most one attribute and no children is one line.
RECURSIVE NodeText(_, _)
NodeText(n, level) ==
  LET inline == n.kids = <<>> /\ Len(n.attrs) <= 1 IN
  Tabs(level) \o n.name \o <<" ", "{">> \o (IF inline THEN <<>> ELSE <<"\n">>)
  \o FlattenSeq([i \in DOMAIN n.attrs |-> AttrText(n.attrs[i], level, inline)])
  \o FlattenSeq([i \in DOMAIN n.kids |-> NodeText(n.kids[i], level + 1)])
  \o (IF inline THEN <<>> ELSE Tabs(level)) \o <<"}", "\n">>

-----------------------------------------------------------------------------
(* Scanning: next_token, with the text f from position i on.               *)

\* The first position from i on whose lexeme is not in S.
After(f, i, S) == Min({j \in i .. Len(f) : f[j] \notin S} \cup {Len(f) + 1})

\* The first position from i on with the lexeme c.
Find(f, i, c) == Min({j \in i .. Len(f) : f[j] = c} \cup {Len(f) + 1})

\* Blanks, and comments to the end of their line.
RECURSIVE SkipBlanks(_, _)
SkipBlanks(f, i) ==
  LET j == After(f, i, Blanks)
  IN IF j <= Len(f) /\ f[j] = "#" THEN SkipBlanks(f, Find(f, j, "\n")) ELSE j

Token(type, text, next) == [type |-> type, text |-> text, next |-> next]
Between(type, f, i, j)  == Token(type, SubSeq(f, i, j - 1), j)

\* Digits after an optional sign or in place of it, and at most one dot.
NumberEnd(f, i) ==
  LET j == After(f, i, Digits)
  IN IF j <= Len(f) /\ f[j] = "." THEN After(f, j + 1, Digits) ELSE j

NextToken(f, i) ==
  LET b == SkipBlanks(f, i) IN
  CASE b > Len(f) -> Token("eof", <<>>, b)
    [] b <= Len(f) /\ f[b] \in Digits \cup {"-", "+"} ->
         Between("number", f, b, NumberEnd(f, b + 1))
    [] b <= Len(f) /\ f[b] \in Letters ->
         Between("id", f, b, After(f, b + 1, Letters \cup Digits \cup {"_"}))
    [] b <= Len(f) /\ f[b] = Quote ->
         LET e == Find(f, b + 1, Quote) IN
         IF e > Len(f) THEN Token("eof", <<>>, e)
         ELSE Token("string", SubSeq(f, b + 1, e - 1), e + 1)
    [] OTHER -> Token("symbol", <<f[b]>>, b + 1)

\* All tokens from position i on, the end of the file as the last one.
RECURSIVE Tokens(_, _)
Tokens(f, i) ==
  LET t == NextToken(f, i)
  IN IF t.type = "eof" THEN <<t>> ELSE <<t>> \o Tokens(f, t.next)

-----------------------------------------------------------------------------
(* Parsing the tokens ts.  What is after the last one is the end as well.  *)
(* Every reader gives [ok, what was read, the next token].                 *)

Tok(ts, i) == ts[IF i <= Len(ts) THEN i ELSE Len(ts)]
IsEnd(ts, i)       == Tok(ts, i).type = "eof"
IsSymbol(ts, i, c) == Tok(ts, i).type = "symbol" /\ Tok(ts, i).text = <<c>>

Failed       == [ok |-> FALSE, val |-> NoValue, next |-> 0]
Got(v, next) == [ok |-> TRUE, val |-> v, next |-> next]

\* ts_set_value_arr: no arrays of one element.
MakeArray(elems, next) ==
  IF Len(elems) <= 1 THEN Failed
  ELSE Got(IF \A i \in DOMAIN elems : elems[i].type = "number"
           THEN VecVal([i \in DOMAIN elems |-> elems[i].text]) ELSE ArrVal(elems), next)

RECURSIVE ReadValue(_, _), ReadArray(_, _, _, _), AfterElement(_, _, _, _)

\* read_value, from its first token on.  A symbol that begins no value gets a
\* message, and an attribute without a value.
ReadValue(ts, i) ==
  CASE Tok(ts, i).type = "number" -> Got(NumVal(Tok(ts, i).text), i + 1)
    [] IsSymbol(ts, i, "[") -> ReadArray(ts, i + 1, "]", <<>>)
    [] IsSymbol(ts, i, "{") -> ReadArray(ts, i + 1, "}", <<>>)
    [] Tok(ts, i).type = "symbol" /\ Tok(ts, i).text \notin {<<"[">>, <<"{">>} -> Got(NoValue, i + 1)
    [] Tok(ts, i).type \in {"id", "string", "eof"} -> Got(StrVal(Tok(ts, i).text), i + 1)

\* read_array: the end of the file ends an array as well.
ReadArray(ts, i, end, elems) ==
  IF IsEnd(ts, i) THEN MakeArray(elems, i) ELSE AfterElement(ts, ReadValue(ts, i), end, elems)

\* The element v is followed by a comma or by the end symbol.
AfterElement(ts, v, end, elems) ==
  LET more == IF Len(elems) < MaxElems THEN Append(elems, v.val) ELSE elems IN
  CASE ~ v.ok -> Failed
    [] v.ok /\ IsSymbol(ts, v.next, end) -> MakeArray(more, v.next + 1)
    [] v.ok /\ IsSymbol(ts, v.next, ",") -> ReadArray(ts, v.next + 1, end, more)
    [] OTHER -> Failed

WithAttr(n, name, v) == [n EXCEPT !.attrs = Append(@, [name |-> name, val |-> v])]
WithKid(n, kid)      == [n EXCEPT !.kids = Append(@, kid)]

\* Mutant: a node ends where the file ends.
NodeEnd_Lenient(ts, i) == IsSymbol(ts, i, "}") \/ IsEnd(ts, i)

\* read_node: the closing brace of a node.
NodeEnd(ts, i) == IsSymbol(ts, i, "}")

\* read_node, from token i on; n is what was read so far.  Then what is after
\* the attribute name and value v, and after the child c.
RECURSIVE ParseNode(_, _, _), AfterAttr(_, _, _, _), AfterKid(_, _, _)
ParseNode(ts, i, n) ==
  CASE Tok(ts, i).type # "id" ->
         IF NodeEnd(ts, i) THEN Got(n, i + 1) ELSE Failed
    [] Tok(ts, i).type = "id" /\ IsSymbol(ts, i + 1, "=") ->
         IF IsEnd(ts, i + 2) THEN Failed
         ELSE AfterAttr(ts, n, Tok(ts, i).text, ReadValue(ts, i + 2))
    [] Tok(ts, i).type = "id" /\ IsSymbol(ts, i + 1, "{") ->
         AfterKid(ts, n, ParseNode(ts, i + 2, Node(Tok(ts, i).text, <<>>, <<>>)))
    [] OTHER -> Failed

AfterAttr(ts, n, name, v) ==
  IF v.ok THEN ParseNode(ts, v.next, WithAttr(n, name, v.val)) ELSE Failed

AfterKid(ts, n, c) ==
  IF c.ok THEN ParseNode(ts, c.next, WithKid(n, c.val)) ELSE Failed

\* ts_text_load; what follows the root is never looked at.
Root(ts) ==
  IF Tok(ts, 1).type = "id" /\ IsSymbol(ts, 2, "{")
  THEN ParseNode(ts, 3, Node(Tok(ts, 1).text, <<>>, <<>>)) ELSE Failed

TextLoad(f) == Root(Tokens(f, 1))

-----------------------------------------------------------------------------
(* Saving and opening (tbn_callback).                                      *)

TextInit == disk = <<>> /\ saved = NoScene /\ whole = FALSE /\ shown = NoScene

\* The user has made the scene t, and saves it.
SaveScene(t) ==
  /\ disk' = NodeText(t, 0) /\ saved' = t /\ whole' = TRUE
  /\ shown' = NoScene

\* The file is truncated first; the disk is full after n lexemes.
SaveCut(t, n) ==
  /\ n < Len(NodeText(t, 0))
  /\ disk' = SubSeq(NodeText(t, 0), 1, n) /\ saved' = t /\ whole' = FALSE
  /\ shown' = NoScene

\* The scene is cleared before the file is read.
OpenScene ==
  /\ LET r == TextLoad(disk)
     IN shown' = IF r.ok /\ r.val.name = <<"rrscene">> THEN r.val ELSE NoScene
  /\ UNCHANGED <<disk, saved, whole>>

TextNext ==
  \/ \E t \in Scenes : SaveScene(t) \/ \E n \in 0 .. Len(NodeText(t, 0)) : SaveCut(t, n)
  \/ OpenScene

TextSpec == TextInit /\ [][TextNext]_textVars

-----------------------------------------------------------------------------
(* Properties.                                                             *)

RECURSIVE Attrs(_)
Attrs(n) == Range(n.attrs) \cup UNION {Attrs(k) : k \in Range(n.kids)}

Texts(v) == IF v.type = "vector" THEN Range(v.text) ELSE {v.text}

Exponents(n) == \E a \in Attrs(n) : a.val.type # "string" /\ \E s \in Texts(a.val) : "e" \in Range(s)
Quotes(n)    == \E a \in Attrs(n) : a.val.type = "string" /\ Quote \in Range(a.val.text)

\* What opens is what was saved: a file whose writing was cut short is refused
\* and never taken for a smaller scene, and a whole one opens if no number has
\* an exponent.  Strings with quotes are left out, the writer does not mark them.
OpensAsSaved ==
  disk # <<>> /\ ~ Quotes(saved) =>
    LET r == TextLoad(disk) IN
    /\ whole /\ ~ Exponents(saved) => r.ok
    /\ r.ok => r.val = saved

\* The manual: attributes can be strings in double quotes, numbers, or
\* vectors in square brackets.  So a file that was written with attributes
\* of these kinds, whatever the numbers, is read again.
NumbersAreRead == whole => TextLoad(disk).ok
=============================================================================
