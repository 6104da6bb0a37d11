------------------------------ MODULE TextBox -------------------------------
(***************************************************************************)
(* The text box of the toolkit (rtk.c): a buffer that grows, the length of *)
(* the text in it, a cursor, and the keys that edit it.                    *)
(*                                                                         *)
(* rtk_set_text replaces the text and its buffer, but not the length: from *)
(* then on the box edits a text of another length than the one it has,     *)
(* unless the two happen to be equal.  An edit that would reach outside    *)
(* the buffer in such a state is left out: C does not say what it does.    *)
(* The scroll position never leaves zero and is left out.                  *)
(***************************************************************************)
EXTENDS Integers, Sequences, SequencesExt

CONSTANTS
  Chars,    \* printable characters
  Nul,      \* the end of a string
  Junk,     \* what realloc leaves in memory
  Shown,    \* texts that the owner shows
  MaxLen    \* bound on the length of what is typed

ASSUME TextBoxAssumption ==
  /\ Nul \notin Chars /\ Junk \notin Chars /\ Nul # Junk
  /\ Shown \subseteq Seq(Chars) /\ <<>> \in Shown
  /\ MaxLen \in Nat

VARIABLES
  bufsz,    \* bytes of the buffer
  text,     \* the buffer
  len,      \* tb->len, the length that the keys believe
  cursor,
  told      \* what the callback, or the owner himself, read or set last

boxVars == <<bufsz, text, len, cursor, told>>

Bytes == Chars \cup {Nul, Junk}

\* The string at the start of a buffer.
StrLen(t, n) ==
  IF \E i \in 0 .. n - 1 : t[i] = Nul
  THEN CHOOSE i \in 0 .. n - 1 : t[i] = Nul /\ \A j \in 0 .. i - 1 : t[j] # Nul
  ELSE n
Str(t, n) == [i \in 1 .. StrLen(t, n) |-> t[i - 1]]

Strdup(s) == [i \in 0 .. Len(s) |-> IF i < Len(s) THEN s[i + 1] ELSE Nul]

Memmove(t, dst, src, n) ==
  [i \in DOMAIN t |-> IF i \in dst .. dst + n - 1 THEN t[i - dst + src] ELSE t[i]]

-----------------------------------------------------------------------------
(* rtk_set_text, called by select_material.                                *)

Show(str) ==
  /\ text' = Strdup(str)
  /\ bufsz' = Len(str) + 1
  /\ cursor' = 0
  /\ told' = str
  /\ UNCHANGED len

-----------------------------------------------------------------------------
(* on_textbox_key.                                                         *)

\* The last byte that a key writes; Nul stands for BACKSPACE and DEL.
Reaches(key) ==
  IF key \in Chars THEN len + 1 ELSE IF cursor < len THEN len ELSE len - 1

\* Mutant: the buffer grows a byte too late.
Room_Late(key) == IF key \in Chars /\ len >= bufsz THEN 2 * bufsz ELSE bufsz

\* The size of the buffer that a key is handled in.
Room(key) == IF key \in Chars /\ len >= bufsz - 1 THEN 2 * bufsz ELSE bufsz

Fits(key) == Reaches(key) < Room(key)

\* The owner is called back and reads the text.
Notify == told' = Str(text', bufsz')

Typed(c) ==
  /\ c \in Chars /\ Fits(c)
  /\ len < MaxLen
  /\ bufsz' = Room(c)
  /\ LET t == [i \in 0 .. Room(c) - 1 |-> IF i < bufsz THEN text[i] ELSE Junk] IN
     text' = IF len = 0 \/ cursor >= len
             THEN [t EXCEPT ![len] = c, ![len + 1] = Nul]
             ELSE [Memmove(t, cursor + 1, cursor, len - cursor + 1) EXCEPT ![cursor] = c]
  /\ len' = len + 1
  /\ cursor' = cursor + 1
  /\ Notify

\* Mutant: the end of the string stays where it was.
Erased_NoEnd == Memmove(text, cursor - 1, cursor, len - cursor)

Erased ==
  IF cursor < len THEN Memmove(text, cursor - 1, cursor, len - cursor + 1)
                  ELSE [text EXCEPT ![cursor - 1] = Nul]

BackspaceKey ==
  /\ cursor > 0 /\ Fits(Nul)
  /\ text' = Erased
  /\ cursor' = cursor - 1
  /\ len' = len - 1
  /\ UNCHANGED bufsz
  /\ Notify

DeleteKey ==
  /\ cursor < len /\ Fits(Nul)
  /\ text' = [Memmove(text, cursor, cursor + 1, len - cursor) EXCEPT ![len - 1] = Nul]
  /\ len' = len - 1
  /\ UNCHANGED <<bufsz, cursor>>
  /\ Notify

\* HOME, END, LEFT and RIGHT.
Move ==
  /\ cursor' \in {0, len} \cup {i \in {cursor - 1, cursor + 1} : i \in 0 .. len}
  /\ UNCHANGED <<bufsz, text, len, told>>

Key == (\E c \in Chars : Typed(c)) \/ BackspaceKey \/ DeleteKey \/ Move

BoxInit ==
  /\ bufsz = 1 /\ text = Strdup(<<>>)
  /\ len = 0 /\ cursor = 0 /\ told = <<>>

BoxNext == (\E str \in Shown : Show(str)) \/ Key

BoxSpec == BoxInit /\ [][BoxNext]_boxVars

-----------------------------------------------------------------------------
(* Properties.                                                             *)

BoxTypeOK ==
  /\ bufsz \in Nat \ {0}
  /\ text \in [0 .. bufsz - 1 -> Bytes]
  /\ len \in Nat /\ cursor \in 0 .. len
  /\ told \in Seq(Bytes)

\* The length is that of the text.
Honest ==
  /\ len < bufsz /\ text[len] = Nul
  /\ \A i \in 0 .. len - 1 : text[i] \in Chars

\* While the length is right no key reads or writes outside the buffer,
\* whatever was typed, erased and shown before (rtk.c:1189).
EditsFit == Honest => \A key \in Chars \cup {Nul} : Fits(key)

Line == INSTANCE LineEditor WITH line <- Str(text, bufsz), at <- cursor

\* While the length is right the keys are those of a line editor, whose owner
\* knows the text after each of them, and the length stays right: only
\* rtk_set_text can make it wrong (rtk.c:216).
EditsLikeALineEditor ==
  [][Key /\ Honest => Honest' /\ (Line!Edit \/ UNCHANGED <<text, cursor, told>>)]_boxVars
=============================================================================
