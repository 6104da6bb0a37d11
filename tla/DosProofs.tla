----------------------------- MODULE DosProofs ------------------------------
(***************************************************************************)
(* Proofs about the DOS build: the keyboard driver (KbdRing), for any      *)
(* keys, any tables of scan codes, any size of the ring and any            *)
(* interleaving with kb_getkey, and the screen update (DosScreen), for any *)
(* screen, any rectangles and any place of the mouse.                      *)
(*                                                                         *)
(* Whenever the keyboard is silent the driver knows what each key did      *)
(* last; in between, the bytes on the wire say what it has not heard. For  *)
(* the ring, the invariant says how far a press that drops the oldest key  *)
(* can have moved the index that kb_getkey has read. For the screen, it    *)
(* says where in video memory the mouse cursor is and what its saved       *)
(* background shows.                                                       *)
(***************************************************************************)
EXTENDS KbdRing, DosScreen, SequenceTheorems, TLAPS

-----------------------------------------------------------------------------
(* The keyboard: what the bytes on the wire say.                           *)

\* What the key states will be once the keyboard has been heard.
After(k, make) == IF make THEN keystate \cup {Name(k)} ELSE keystate \ {Name(k)}

LastByte(k, make) == IF make THEN k.code ELSE k.code + 128

Announced(k, make) ==
  /\ latest = After(k, make)
  /\ \/ ext = FALSE /\ wire = Bytes(k, make)
     \/ ext = TRUE /\ k.ext /\ wire = <<LastByte(k, make)>>

Silent == wire = <<>> /\ keystate = latest /\ ext = FALSE

WireInv == Silent \/ \E k \in Switches, make \in BOOLEAN : Announced(k, make)

\* A key of which the last movement was downwards has a switch that is down.
HeldInv == \A s \in latest : \E k \in held : Name(k) = s

-----------------------------------------------------------------------------
(* Scan codes.                                                             *)

\* The last byte of a code is no prefix, tells presses from releases, and
\* names the key together with the prefix.
LEMMA LastByteIs ==
  ASSUME NEW k \in Switches, NEW make \in BOOLEAN
  PROVE  /\ LastByte(k, make) # Prefix
         /\ (LastByte(k, make) < 128) <=> (make = TRUE)
         /\ LastByte(k, make) % 128 = k.code
<1>1. k.code \in 0 .. 127 /\ k.code # 96
  BY KbdAssumption DEF Switches
<1> DEFINE c == k.code
<1> HIDE DEF c
<1>2. c \in 0 .. 127 /\ c # 96
  BY <1>1 DEF c
<1>3. CASE make = TRUE
  <2>1. LastByte(k, make) = c
    BY <1>3 DEF LastByte, c
  <2> QED BY <1>2, <1>3, <2>1, SMT DEF Prefix, c
<1>4. CASE make = FALSE
  <2>1. LastByte(k, make) = c + 128
    BY <1>4 DEF LastByte, c
  <2>2. c + 128 # Prefix /\ ~(c + 128 < 128) /\ (c + 128) % 128 = c
    BY <1>2, SMT DEF Prefix
  <2> QED BY <1>4, <2>1, <2>2 DEF c
<1> QED BY <1>3, <1>4

\* The tables name a key for every code that is sent.
LEMMA NameType == ASSUME NEW k \in Switches PROVE Name(k) \in Keys
<1>1. Scantbl \in [Codes -> Keys] /\ ScantblExt \in [ExtCodes -> Keys]
  BY KbdAssumption
<1> QED BY <1>1 DEF Name, KeyOf, Switches

LEMMA BytesAre ==
  ASSUME NEW k \in Switches, NEW make \in BOOLEAN
  PROVE  /\ k.ext => Bytes(k, make) = <<Prefix, LastByte(k, make)>>
         /\ ~ k.ext => Bytes(k, make) = <<LastByte(k, make)>>
<1> DEFINE b == LastByte(k, make)
<1>1. Bytes(k, make) = (IF k.ext THEN <<Prefix>> ELSE <<>>) \o <<b>>
  BY DEF Bytes, LastByte
<1> HIDE DEF b
<1>2. <<Prefix>> \o <<b>> = <<Prefix, b>> /\ <<>> \o <<b>> = <<b>>
  <2> DEFINE S == {Prefix, b}
             p == <<Prefix>>
             q == <<b>>
             r2 == <<Prefix, b>>
  <2>1. /\ p \in Seq(S) /\ Len(p) = 1 /\ p[1] = Prefix
        /\ q \in Seq(S) /\ Len(q) = 1 /\ q[1] = b
        /\ r2 \in Seq(S) /\ Len(r2) = 2 /\ r2[1] = Prefix /\ r2[2] = b
    OBVIOUS
  <2>2. <<>> \o q = q
    BY <2>1, ConcatEmptySeq
  <2> HIDE DEF p, q, r2, S
  <2>3. /\ p \o q \in Seq(S) /\ Len(p \o q) = 2
        /\ \A i \in 1 .. 2 : (p \o q)[i] = r2[i]
    BY <2>1, ConcatProperties
  <2>4. p \o q = r2
    BY <2>1, <2>3, SeqEqual
  <2> QED BY <2>2, <2>4 DEF p, q, r2
<1>3. CASE k.ext
  BY <1>1, <1>2, <1>3 DEF b
<1>4. CASE ~ k.ext
  BY <1>1, <1>2, <1>4 DEF b
<1> QED BY <1>3, <1>4

\* A prefix is on the wire or has been heard.
LEMMA ExtIs ==
  ASSUME NEW k \in Switches, NEW make \in BOOLEAN, Announced(k, make),
         wire = <<LastByte(k, make)>>
  PROVE  ext = k.ext
<1>1. k.ext \in BOOLEAN
  BY DEF Switches
<1>2. k.ext => wire # Bytes(k, make)
  BY BytesAre
<1>3. CASE ext = FALSE /\ wire = Bytes(k, make)
  <2>1. ~ k.ext
    BY <1>2, <1>3
  <2> QED BY <1>1, <1>3, <2>1, Zenon
<1>4. CASE ext = TRUE /\ k.ext
  BY <1>1, <1>4, Zenon
<1> QED BY <1>3, <1>4 DEF Announced

-----------------------------------------------------------------------------
(* The steps.                                                              *)

\* The keyboard speaks only when it is silent.
LEMMA KeyboardKeeps ==
  ASSUME WireInv, NEW k \in Switches, KeyDown(k) \/ KeyRepeats(k) \/ KeyUp(k)
  PROVE  WireInv'
<1>1. wire = <<>>
  BY DEF KeyDown, KeyRepeats, KeyUp
<1>2. Silent
  <2>1. ASSUME NEW j \in Switches, NEW make \in BOOLEAN, Announced(j, make)
        PROVE  FALSE
    <3>1. wire = <<Prefix, LastByte(j, make)>> \/ wire = <<LastByte(j, make)>>
      BY <2>1, BytesAre DEF Announced
    <3> QED BY <1>1, <3>1
  <2> QED BY <2>1 DEF WireInv
<1>3. CASE KeyDown(k) \/ KeyRepeats(k)
  <2>1. wire' = Bytes(k, TRUE) /\ latest' = keystate \cup {Name(k)} /\ keystate' = keystate /\ ext' = FALSE
    BY <1>2, <1>3 DEF KeyDown, KeyRepeats, Silent, decoder
  <2>2. Announced(k, TRUE)'
    BY <2>1 DEF Announced, After, Bytes, Name
  <2> QED BY <2>2 DEF WireInv
<1>4. CASE KeyUp(k)
  <2>1. wire' = Bytes(k, FALSE) /\ latest' = keystate \ {Name(k)} /\ keystate' = keystate /\ ext' = FALSE
    BY <1>2, <1>4 DEF KeyUp, Silent, decoder
  <2>2. Announced(k, FALSE)'
    BY <2>1 DEF Announced, After, Bytes, Name
  <2> QED BY <2>2 DEF WireInv
<1> QED BY <1>3, <1>4

\* The handler hears one byte.
LEMMA InterruptKeeps ==
  ASSUME WireInv, Interrupt
  PROVE  WireInv'
<1> DEFINE byte == Head(wire)
<1>1. /\ wire # <<>> /\ wire' = Tail(wire) /\ ext' = (byte = Prefix) /\ latest' = latest
  BY DEF Interrupt, ExtAfter
<1>2. PICK k \in Switches, make \in BOOLEAN : Announced(k, make)
  BY <1>1 DEF WireInv, Silent
<1>3. /\ LastByte(k, make) # Prefix /\ (LastByte(k, make) < 128 <=> make = TRUE)
      /\ LastByte(k, make) % 128 = k.code
  BY LastByteIs
<1>4. CASE wire = <<Prefix, LastByte(k, make)>> /\ ext = FALSE /\ k.ext
  <2>1. byte = Prefix /\ Tail(wire) = <<LastByte(k, make)>>
    BY <1>4
  <2>2. keystate' = keystate /\ ext' = TRUE
    BY <1>1, <2>1 DEF Interrupt
  <2>3. Announced(k, make)'
    BY <1>1, <1>2, <1>4, <2>1, <2>2 DEF Announced, After, LastByte, Name
  <2> QED BY <2>3 DEF WireInv
<1>5. CASE wire = <<LastByte(k, make)>> /\ (k.ext <=> ext)
  <2>1. byte = LastByte(k, make) /\ Tail(wire) = <<>>
    BY <1>5
  <2>2. KeyOf(byte % 128, ext) = Name(k)
    <3>1. ext = k.ext
      BY <1>5, <1>2, ExtIs
    <3> QED BY <1>3, <2>1, <3>1 DEF Name
  <2>3. keystate' = IF byte < 128 THEN keystate \cup {KeyOf(byte % 128, ext)}
                                  ELSE keystate \ {KeyOf(byte % 128, ext)}
    BY <1>3, <2>1 DEF Interrupt
  <2>4. keystate' = After(k, make)
    BY <1>3, <2>1, <2>2, <2>3 DEF After
  <2>5. Silent'
    BY <1>1, <1>2, <1>3, <2>1, <2>4 DEF Silent, Announced
  <2> QED BY <2>5 DEF WireInv
<1>6. \/ wire = <<Prefix, LastByte(k, make)>> /\ ext = FALSE /\ k.ext
      \/ wire = <<LastByte(k, make)>> /\ (k.ext <=> ext)
  BY <1>2, BytesAre DEF Announced
<1> QED BY <1>4, <1>5, <1>6

\* kb_getkey hears none.
LEMMA GetKeyKeeps ==
  ASSUME WireInv, GetKey \/ UNCHANGED vars
  PROVE  WireInv'
<1>1. UNCHANGED <<keystate, ext, latest, wire>>
  BY DEF GetKey, GetKeyTest, GetKeyFetch, GetKeyStore, vars, decoder, keyboard
<1>2. CASE Silent
  BY <1>1, <1>2 DEF WireInv, Silent
<1>3. CASE \E k \in Switches, make \in BOOLEAN : Announced(k, make)
  <2>1. PICK k \in Switches, make \in BOOLEAN : Announced(k, make)
    BY <1>3
  <2>2. Announced(k, make)'
    BY <1>1, <2>1 DEF Announced, After, Bytes, LastByte, Name
  <2> QED BY <2>2 DEF WireInv
<1> QED BY <1>2, <1>3 DEF WireInv

\* What the switches did.
LEMMA HeldKeeps ==
  ASSUME HeldInv, [Next]_vars
  PROVE  HeldInv'
<1>1. ASSUME NEW k \in Switches, KeyDown(k) \/ KeyRepeats(k) PROVE HeldInv'
  <2>1. latest' = latest \cup {Name(k)} /\ held \subseteq held' /\ k \in held'
    BY <1>1 DEF KeyDown, KeyRepeats
  <2> QED BY <2>1 DEF HeldInv, Name
<1>2. ASSUME NEW k \in Switches, KeyUp(k) PROVE HeldInv'
  <2>1. latest' = latest \ {Name(k)} /\ held' = held \ {k}
    BY <1>2 DEF KeyUp
  <2> QED BY <2>1 DEF HeldInv, Name
<1>3. CASE Interrupt \/ GetKey \/ UNCHANGED vars
  <2>1. UNCHANGED <<held, latest>>
    BY <1>3 DEF Interrupt, GetKey, GetKeyTest, GetKeyFetch, GetKeyStore, vars, keyboard
  <2> QED BY <2>1 DEF HeldInv, Name
<1> QED BY <1>1, <1>2, <1>3 DEF Next

\* Whenever the keyboard is silent the driver knows what each key did last, and
\* takes none to be down without a switch that is.
THEOREM DriverKnowsKeys == Spec => []KnowsWhatIsDown
<1>1. Init => WireInv /\ HeldInv
  BY DEF Init, WireInv, Silent, HeldInv
<1>2. ASSUME WireInv, HeldInv, [Next]_vars
      PROVE  WireInv' /\ HeldInv'
  BY <1>2, KeyboardKeeps, InterruptKeeps, GetKeyKeeps, HeldKeeps DEF Next
<1>3. WireInv /\ HeldInv => KnowsWhatIsDown
  <2>1. ASSUME wire = <<>>, NEW k \in Switches, NEW make \in BOOLEAN, Announced(k, make)
        PROVE  FALSE
    <3>1. wire = <<Prefix, LastByte(k, make)>> \/ wire = <<LastByte(k, make)>>
      BY <2>1, BytesAre DEF Announced
    <3> QED BY <2>1, <3>1
  <2> QED BY <2>1 DEF WireInv, HeldInv, Silent, KnowsWhatIsDown
<1> QED BY <1>1, <1>2, <1>3, PTL DEF Spec

-----------------------------------------------------------------------------
(* The indices of the ring.                                               *)

\* One round of the ring at most: the remainder subtracts its size or nothing.
LEMMA ModIs ==
  ASSUME NEW n \in Nat \ {0}, NEW x \in 0 .. 2 * n - 1
  PROVE  x % n = IF x < n THEN x ELSE x - n
  BY SMT

LEMMA SizeIs == BufSize \in Nat \ {0} /\ BufSize >= 2
<1>1. BufSize \in Nat \ {0, 1}
  BY KbdAssumption, Zenon
<1> QED BY <1>1, SMT

LEMMA AdvanceIs ==
  ASSUME NEW i \in Slots
  PROVE  /\ Advance(i) \in Slots
         /\ Advance(i) = IF i + 1 = BufSize THEN 0 ELSE i + 1
<1> DEFINE x == i + 1
<1>1. x \in 0 .. 2 * BufSize - 1 /\ x <= BufSize /\ x >= 1 /\ Advance(i) = x % BufSize
  BY SizeIs, SMT DEF Slots, Advance
<1> HIDE DEF x
<1>2. x % BufSize = IF x < BufSize THEN x ELSE x - BufSize
  BY <1>1, SizeIs, ModIs
<1>3. Advance(i) \in Slots /\ Advance(i) = IF x = BufSize THEN 0 ELSE x
  BY <1>1, <1>2, SizeIs, SMT DEF Slots
<1> QED BY <1>3 DEF x

\* The slot of the j-th key from slot i, and the number of keys from slot i up to w.
SlotOf(i, j)  == (i + j - 1) % BufSize
Between(i, w) == (w + BufSize - i) % BufSize

LEMMA SlotIs ==
  ASSUME NEW i \in Slots, NEW j \in 1 .. BufSize
  PROVE  /\ SlotOf(i, j) \in Slots
         /\ SlotOf(i, j) = IF i + j - 1 < BufSize THEN i + j - 1 ELSE i + j - 1 - BufSize
<1> DEFINE x == i + j - 1
<1>1. x \in 0 .. 2 * BufSize - 1
  BY SizeIs, SMT DEF Slots
<1>2. SlotOf(i, j) = x % BufSize
  BY DEF SlotOf
<1> HIDE DEF x
<1>3. x % BufSize = IF x < BufSize THEN x ELSE x - BufSize
  BY <1>1, SizeIs, ModIs
<1> QED BY <1>1, <1>2, <1>3, SizeIs, SMT DEF Slots, x

LEMMA BetweenIs ==
  ASSUME NEW i \in Slots, NEW w \in Slots
  PROVE  /\ Between(i, w) \in 0 .. BufSize - 1
         /\ Between(i, w) = IF i <= w THEN w - i ELSE w + BufSize - i
<1> DEFINE x == w + BufSize - i
<1>1. x \in 0 .. 2 * BufSize - 1
  BY SizeIs, SMT DEF Slots
<1>2. Between(i, w) = x % BufSize
  BY DEF Between
<1> HIDE DEF x
<1>3. x % BufSize = IF x < BufSize THEN x ELSE x - BufSize
  BY <1>1, SizeIs, ModIs
<1> QED BY <1>1, <1>2, <1>3, SizeIs, SMT DEF Slots, x

\* The indices move: the number of keys changes by one, and the ring is full when
\* the write index is about to reach the oldest key.
LEMMA BetweenSteps ==
  ASSUME NEW i \in Slots, NEW w \in Slots
  PROVE  /\ Between(i, w) = 0 <=> i = w
         /\ Advance(w) = i <=> Between(i, w) = BufSize - 1
         /\ i # w => Between(Advance(i), w) = Between(i, w) - 1
         /\ Advance(w) # i => Between(i, Advance(w)) = Between(i, w) + 1
         /\ Advance(w) = i => i # w /\ Between(Advance(i), Advance(w)) = BufSize - 1
<1>1. Advance(i) \in Slots /\ Advance(w) \in Slots
  BY AdvanceIs
<1>2. /\ Advance(i) = IF i + 1 = BufSize THEN 0 ELSE i + 1
      /\ Advance(w) = IF w + 1 = BufSize THEN 0 ELSE w + 1
  BY AdvanceIs
<1>3. /\ Between(i, w) = IF i <= w THEN w - i ELSE w + BufSize - i
      /\ Between(Advance(i), w) = IF Advance(i) <= w THEN w - Advance(i) ELSE w + BufSize - Advance(i)
      /\ Between(i, Advance(w)) = IF i <= Advance(w) THEN Advance(w) - i ELSE Advance(w) + BufSize - i
      /\ Between(Advance(i), Advance(w)) = IF Advance(i) <= Advance(w) THEN Advance(w) - Advance(i) ELSE Advance(w) + BufSize - Advance(i)
  BY <1>1, BetweenIs
<1> DEFINE a == Advance(i)
           b == Advance(w)
<1> HIDE DEF a, b
<1> QED BY <1>1, <1>2, <1>3, SizeIs, SMT DEF Slots

\* The keys of a ring b from slot i up to w.
KeysOf(b, i, w) == [j \in 1 .. Between(i, w) |-> b[SlotOf(i, j)]]

Rings == [Slots -> Keys \cup {NoKey}]

LEMMA KeysOfIs ==
  ASSUME NEW b \in Rings, NEW i \in Slots, NEW w \in Slots
  PROVE  /\ KeysOf(b, i, w) \in Seq(Keys \cup {NoKey})
         /\ Len(KeysOf(b, i, w)) = Between(i, w)
         /\ Between(i, w) \in Nat
         /\ \A j \in 1 .. Between(i, w) : KeysOf(b, i, w)[j] = b[SlotOf(i, j)]
<1>1. Between(i, w) \in 0 .. BufSize - 1
  BY BetweenIs
<1>2. \A j \in 1 .. Between(i, w) : SlotOf(i, j) \in Slots
  BY <1>1, SlotIs, SizeIs, SMT
<1>3. Between(i, w) \in Nat
  BY <1>1, SizeIs, SMT
<1>4. \A j \in 1 .. Between(i, w) : b[SlotOf(i, j)] \in Keys \cup {NoKey}
  BY <1>2 DEF Rings
<1> DEFINE n == Between(i, w)
<1> HIDE DEF n
<1> QED BY <1>3, <1>4 DEF KeysOf, n

\* A press is the newest key.
LEMMA PressAppends ==
  ASSUME NEW b \in Rings, NEW i \in Slots, NEW w \in Slots, NEW k \in Keys, Advance(w) # i
  PROVE  KeysOf([b EXCEPT ![w] = k], i, Advance(w)) = Append(KeysOf(b, i, w), k)
<1> DEFINE c == [b EXCEPT ![w] = k]
           n == Between(i, w)
           s == KeysOf(b, i, w)
           t == KeysOf(c, i, Advance(w))
<1>1. c \in Rings /\ Advance(w) \in Slots
  BY AdvanceIs DEF Rings
<1>2. n \in Nat /\ n < BufSize - 1 /\ Between(i, Advance(w)) = n + 1
  BY BetweenIs, BetweenSteps, SizeIs, SMT
<1>3. /\ s \in Seq(Keys \cup {NoKey}) /\ Len(s) = n
      /\ \A j \in 1 .. n : s[j] = b[SlotOf(i, j)]
  BY KeysOfIs
<1>4. /\ t \in Seq(Keys \cup {NoKey}) /\ Len(t) = n + 1
      /\ \A j \in 1 .. n + 1 : t[j] = c[SlotOf(i, j)]
  <2> HIDE DEF c
  <2> QED BY <1>1, <1>2, KeysOfIs
<1>5. \A j \in 1 .. n : SlotOf(i, j) \in Slots /\ SlotOf(i, j) # w
  <2> SUFFICES ASSUME NEW j \in 1 .. n PROVE SlotOf(i, j) \in Slots /\ SlotOf(i, j) # w
    OBVIOUS
  <2>1. j \in 1 .. BufSize
    BY <1>2, SizeIs, SMT
  <2>2. n = IF i <= w THEN w - i ELSE w + BufSize - i
    BY BetweenIs
  <2> HIDE DEF n
  <2>3. /\ SlotOf(i, j) \in Slots
        /\ SlotOf(i, j) = IF i + j - 1 < BufSize THEN i + j - 1 ELSE i + j - 1 - BufSize
    BY <2>1, SlotIs
  <2> QED BY <1>2, <2>1, <2>2, <2>3, SizeIs, SMT DEF Slots
<1>6. SlotOf(i, n + 1) = w
  <2>1. n + 1 \in 1 .. BufSize
    BY <1>2, SizeIs, SMT
  <2>2. n = IF i <= w THEN w - i ELSE w + BufSize - i
    BY BetweenIs
  <2> HIDE DEF n
  <2>3. SlotOf(i, n + 1) = IF i + (n + 1) - 1 < BufSize THEN i + (n + 1) - 1 ELSE i + (n + 1) - 1 - BufSize
    BY <2>1, SlotIs
  <2> QED BY <1>2, <2>2, <2>3, SizeIs, SMT DEF Slots
<1>7. (\A j \in 1 .. n : t[j] = s[j]) /\ t[n + 1] = k
  <2>1. \A x \in Slots : c[x] = IF x = w THEN k ELSE b[x]
    BY DEF Rings
  <2> HIDE DEF c, n, s, t
  <2>2. ASSUME NEW j \in 1 .. n PROVE t[j] = s[j]
    <3>1. j \in 1 .. n + 1
      BY <1>2, SMT
    <3> QED BY <1>3, <1>4, <1>5, <2>1, <3>1
  <2>3. n + 1 \in 1 .. n + 1
    BY <1>2, SMT
  <2> QED BY <1>4, <1>6, <2>1, <2>2, <2>3
<1> HIDE DEF c, n, s, t
<1>8. t = Append(s, k)
  BY <1>2, <1>3, <1>4, <1>7, SMT
<1> QED BY <1>8 DEF c, s, t

\* Advancing the read index takes the oldest key.
LEMMA AdvanceTakes ==
  ASSUME NEW b \in Rings, NEW i \in Slots, NEW w \in Slots, i # w
  PROVE  /\ KeysOf(b, i, w) # <<>>
         /\ Head(KeysOf(b, i, w)) = b[i]
         /\ KeysOf(b, Advance(i), w) = Tail(KeysOf(b, i, w))
<1> DEFINE n == Between(i, w)
           s == KeysOf(b, i, w)
           t == KeysOf(b, Advance(i), w)
<1>1. Advance(i) \in Slots /\ Advance(i) = IF i + 1 = BufSize THEN 0 ELSE i + 1
  BY AdvanceIs
<1>2. n \in Nat \ {0} /\ n < BufSize /\ Between(Advance(i), w) = n - 1
  BY BetweenIs, BetweenSteps, SizeIs, SMT
<1>3. /\ s \in Seq(Keys \cup {NoKey}) /\ Len(s) = n
      /\ \A j \in 1 .. n : s[j] = b[SlotOf(i, j)]
  BY KeysOfIs
<1>4. /\ t \in Seq(Keys \cup {NoKey}) /\ Len(t) = n - 1
      /\ \A j \in 1 .. n - 1 : t[j] = b[SlotOf(Advance(i), j)]
  BY <1>1, <1>2, KeysOfIs
<1>5. SlotOf(i, 1) = i
  <2>1. 1 \in 1 .. BufSize
    BY SizeIs, SMT
  <2>2. SlotOf(i, 1) = IF i + 1 - 1 < BufSize THEN i + 1 - 1 ELSE i + 1 - 1 - BufSize
    BY <2>1, SlotIs
  <2> QED BY <2>2, SizeIs, SMT DEF Slots
<1>6. ASSUME NEW j \in 1 .. n - 1
      PROVE  SlotOf(Advance(i), j) = SlotOf(i, j + 1)
  <2>1. j \in 1 .. BufSize /\ j + 1 \in 1 .. BufSize
    BY <1>2, SizeIs, SMT
  <2>2. SlotOf(Advance(i), j) = IF Advance(i) + j - 1 < BufSize THEN Advance(i) + j - 1
                                                                ELSE Advance(i) + j - 1 - BufSize
    BY <1>1, <2>1, SlotIs
  <2>3. SlotOf(i, j + 1) = IF i + (j + 1) - 1 < BufSize THEN i + (j + 1) - 1
                                                       ELSE i + (j + 1) - 1 - BufSize
    BY <2>1, SlotIs
  <2> QED BY <1>1, <2>1, <2>2, <2>3, SizeIs, SMT DEF Slots
<1> HIDE DEF n, s, t
<1>7. \A j \in 1 .. n - 1 : t[j] = s[j + 1]
  <2> SUFFICES ASSUME NEW j \in 1 .. n - 1 PROVE t[j] = s[j + 1]
    OBVIOUS
  <2>1. j + 1 \in 1 .. n
    BY <1>2, SMT
  <2> QED BY <1>3, <1>4, <1>6, <2>1
<1>8. s # <<>> /\ Head(s) = b[i] /\ t = Tail(s)
  <2>1. s # <<>> /\ Head(s) = s[1]
    BY <1>2, <1>3, SMT
  <2>2. s[1] = b[i]
    <3>1. 1 \in 1 .. n
      BY <1>2, SMT
    <3> QED BY <1>3, <1>5, <3>1
  <2>3. t = Tail(s)
    <3>1. /\ Tail(s) \in Seq(Keys \cup {NoKey}) /\ Len(Tail(s)) = n - 1
          /\ \A j \in 1 .. n - 1 : Tail(s)[j] = s[j + 1]
      BY <1>2, <1>3, <2>1, HeadTailProperties
    <3> QED BY <1>4, <1>7, <3>1, SeqEqual
  <2> QED BY <2>1, <2>2, <2>3
<1> QED BY <1>8 DEF s, t

-----------------------------------------------------------------------------
(* A call of kb_getkey and the presses that interrupt it.                  *)

\* No press dropped a key since the call began: its copy of the read index is
\* right, and it holds a key to take.
Untouched == r = ridx /\ due = Stored(ridx) /\ due >= 1

\* One press dropped the oldest key, and the ring is full.
Dropped ==
  /\ burst = 1 /\ ridx = Advance(r)
  /\ due = BufSize - 1 /\ Stored(ridx) = BufSize - 1

CallInv ==
  /\ due <= BufSize - 1 + burst
  /\ pc = "idle" => due = 0
  /\ pc # "idle" => Untouched \/ (env = Rushed /\ (RushedBurst <= 1 => Dropped))

KbdInv == WireInv /\ TypeOK /\ CallInv

\* The handler stores key k.
Press(k) ==
  /\ \/ pc = "idle"
     \/ burst < Burst /\ (env = Rushed \/ Advance(widx) # ridx)
  /\ burst' = IF pc = "idle" THEN 0 ELSE burst + 1
  /\ buffer' = [buffer EXCEPT ![widx] = k]
  /\ widx' = Advance(widx)
  /\ ridx' = IF Advance(widx) = ridx THEN Advance(ridx) ELSE ridx
  /\ due' = IF pc = "idle" \/ Advance(widx) = ridx THEN due ELSE due + 1
  /\ UNCHANGED <<env, reader>>

LEMMA StoredIs == \A i : Stored(i) = Between(i, widx) /\ Stored(i)' = Between(i', widx')
  BY DEF Stored, Between

\* Each byte stores one key or none.
LEMMA InterruptIs ==
  ASSUME WireInv, TypeOK, Interrupt
  PROVE  /\ UNCHANGED <<ring, counts, reader>> \/ \E k \in Keys : Press(k)
         /\ keystate' \subseteq Keys /\ numPressed' \in Nat /\ ext' \in BOOLEAN
         /\ UNCHANGED <<held, latest>>
<1> DEFINE byte == Head(wire)
           key  == KeyOf(byte % 128, ext)
<1>1. wire # <<>> /\ UNCHANGED <<held, latest>> /\ ext' = (byte = Prefix) /\ UNCHANGED reader
  BY DEF Interrupt, ExtAfter
<1>2. CASE byte = Prefix
  <2>1. UNCHANGED <<ring, keystate, numPressed, counts>>
    BY <1>2 DEF Interrupt
  <2> QED BY <1>1, <2>1 DEF TypeOK
<1>3. CASE byte # Prefix
  <2>1. PICK k \in Switches, make \in BOOLEAN : Announced(k, make)
    BY <1>1 DEF WireInv, Silent
  <2>2. \/ wire = <<Prefix, LastByte(k, make)>>
        \/ wire = <<LastByte(k, make)>>
    BY <2>1, BytesAre DEF Announced
  <2>3. byte = LastByte(k, make) /\ ext = k.ext
    BY <1>3, <2>1, <2>2, ExtIs
  <2>4. key = Name(k) /\ Name(k) \in Keys
    BY <2>3, LastByteIs, NameType DEF Name
  <2>5. /\ numPressed' = IF byte < 128 THEN numPressed + 1
                         ELSE IF numPressed > 0 THEN numPressed - 1 ELSE 0
        /\ keystate' = IF byte < 128 THEN keystate \cup {Name(k)} ELSE keystate \ {Name(k)}
    BY <1>3, <2>4, Zenon DEF Interrupt
  <2>6. keystate' \subseteq Keys /\ numPressed' \in Nat
    <3>1. numPressed \in Nat /\ keystate \subseteq Keys
      BY DEF TypeOK
    <3>2. numPressed' \in {numPressed + 1, IF numPressed > 0 THEN numPressed - 1 ELSE 0}
      BY <2>5
    <3>3. numPressed' \in Nat
      BY <3>1, <3>2, SMT
    <3> QED BY <2>4, <2>5, <3>1, <3>3
  <2>7. UNCHANGED <<ring, counts>> \/ Press(Name(k))
    <3>1. CASE Appends(key, byte < 128)
      BY <1>1, <1>3, <2>4, <3>1, Zenon DEF Interrupt, Press, ReadAfter
    <3>2. CASE ~ Appends(key, byte < 128)
      BY <1>3, <3>2, Zenon DEF Interrupt
    <3> QED BY <3>1, <3>2
  <2> QED BY <1>1, <2>4, <2>6, <2>7
<1> QED BY <1>2, <1>3

LEMMA BurstIs == Burst \in Nat
<1>1. CalmBurst \in Nat /\ RushedBurst \in Nat
  BY KbdAssumption, Zenon
<1> QED BY <1>1 DEF Burst

\* A press keeps what a call relies on.
LEMMA PressKeeps ==
  ASSUME TypeOK, CallInv, NEW k \in Keys, Press(k), Burst' = Burst
  PROVE  /\ buffer' \in [Slots -> Keys \cup {NoKey}] /\ widx' \in Slots /\ ridx' \in Slots
         /\ burst' \in 0 .. Burst /\ due' \in Nat
         /\ CallInv'
<1>1. /\ widx \in Slots /\ ridx \in Slots /\ r \in Slots /\ burst \in Nat /\ due \in Nat
      /\ burst <= Burst /\ buffer \in [Slots -> Keys \cup {NoKey}]
  BY BurstIs, SizeIs, SMT DEF TypeOK
<1>2. widx' = Advance(widx) /\ widx' \in Slots /\ Advance(ridx) \in Slots
  BY <1>1, AdvanceIs DEF Press
<1>3. buffer' \in [Slots -> Keys \cup {NoKey}] /\ ridx' \in Slots
  BY <1>1, <1>2 DEF Press
<1>4. burst' \in 0 .. Burst /\ due' \in Nat /\ due' <= BufSize - 1 + burst'
  <2>1. CASE pc = "idle"
    BY <1>1, <2>1, BurstIs, SizeIs, SMT DEF Press, CallInv
  <2>2. CASE pc # "idle"
    BY <1>1, <2>2, BurstIs, SizeIs, SMT DEF Press, CallInv
  <2> QED BY <2>1, <2>2
<1>5. ASSUME pc = "idle" PROVE CallInv'
  BY <1>4, <1>5 DEF Press, CallInv, reader
<1>6. ASSUME pc # "idle" PROVE CallInv'
  <2>1. pc' = pc /\ r' = r /\ env' = env /\ burst' = burst + 1 /\ burst < Burst
        /\ (env = Rushed \/ Advance(widx) # ridx)
    BY <1>6 DEF Press, reader
  <2>2. CASE Untouched /\ Advance(widx) # ridx
    <3>1. ridx' = ridx /\ due' = due + 1
      BY <1>6, <2>2 DEF Press
    <3>2. Stored(ridx)' = Stored(ridx) + 1
      BY <1>1, <1>2, <2>2, <3>1, StoredIs, BetweenSteps
    <3>3. Untouched'
      BY <1>1, <2>1, <2>2, <3>1, <3>2, SMT DEF Untouched
    <3> QED BY <1>4, <1>6, <2>1, <3>3 DEF CallInv
  <2>3. CASE Untouched /\ Advance(widx) = ridx
    <3>1. env = Rushed /\ ridx' = Advance(ridx) /\ due' = due
      BY <1>6, <2>1, <2>3 DEF Press
    <3>2. Stored(ridx) = BufSize - 1 /\ Stored(ridx)' = BufSize - 1
      BY <1>1, <1>2, <2>3, <3>1, StoredIs, BetweenSteps
    <3>3. RushedBurst <= 1 => burst' = 1
      <4>1. Burst = RushedBurst
        BY <3>1, KbdAssumption DEF Burst
      <4> QED BY <1>1, <2>1, <4>1, BurstIs, SMT
    <3>4. RushedBurst <= 1 => Dropped'
      BY <2>1, <2>3, <3>1, <3>2, <3>3 DEF Untouched, Dropped, Advance
    <3> QED BY <1>4, <1>6, <2>1, <3>1, <3>4 DEF CallInv
  <2>4. CASE ~ Untouched
    <3>1. env = Rushed /\ (RushedBurst <= 1 => Dropped)
      BY <1>6, <2>4 DEF CallInv
    <3>2. ~(RushedBurst <= 1)
      <4>1. Burst = RushedBurst
        BY <3>1, KbdAssumption DEF Burst
      <4> QED BY <1>1, <2>1, <3>1, <4>1, BurstIs, SMT DEF Dropped
    <3> QED BY <1>4, <1>6, <2>1, <3>1, <3>2 DEF CallInv
  <2> QED BY <2>2, <2>3, <2>4
<1> QED BY <1>2, <1>3, <1>4, <1>5, <1>6

LEMMA KbdInitInv == Init => KbdInv
<1> SUFFICES ASSUME Init PROVE KbdInv
  OBVIOUS
<1>1. WireInv
  BY DEF Init, WireInv, Silent
<1>2. 0 \in Slots
  BY SizeIs, SMT DEF Slots
<1>3. TypeOK
  BY <1>2, BurstIs, SizeIs DEF Init, TypeOK
<1>4. CallInv
  BY SizeIs DEF Init, CallInv
<1> QED BY <1>1, <1>3, <1>4 DEF KbdInv

\* The three steps of kb_getkey.
LEMMA GetKeyCallKeeps ==
  ASSUME TypeOK, CallInv, GetKey
  PROVE  TypeOK' /\ CallInv'
<1>1. /\ widx \in Slots /\ ridx \in Slots /\ r \in Slots /\ burst \in Nat /\ due \in Nat
      /\ burst \in 0 .. Burst /\ buffer \in [Slots -> Keys \cup {NoKey}]
  BY BurstIs, SizeIs, SMT DEF TypeOK
<1>2. Burst' = Burst /\ widx' = widx /\ buffer' = buffer /\ env' = env
  BY DEF GetKey, GetKeyTest, GetKeyFetch, GetKeyStore, Burst, ring, counts
<1>3. CASE GetKeyTest
  <2>1. Stored(ridx) \in Nat /\ Stored(ridx) >= 1 /\ Stored(ridx) <= BufSize - 1
    BY <1>1, <1>3, StoredIs, BetweenIs, BetweenSteps, SizeIs, SMT DEF GetKeyTest
  <2>2. r' = ridx /\ ridx' = ridx /\ due' = Stored(ridx) /\ pc' = "tested" /\ burst' = burst
    BY <1>3 DEF GetKeyTest, ring
  <2>3. Stored(ridx)' = Stored(ridx)
    BY <1>2, <2>2 DEF Stored
  <2>4. due' \in 0 .. BufSize + Burst /\ due' <= BufSize - 1 + burst'
    BY <1>1, <2>1, <2>2, BurstIs, SizeIs, SMT
  <2>5. TypeOK'
    BY <1>1, <1>2, <1>3, <2>2, <2>4 DEF TypeOK, GetKeyTest, decoder, keyboard
  <2>6. CallInv'
    BY <2>1, <2>2, <2>3, <2>4 DEF CallInv, Untouched
  <2> QED BY <2>5, <2>6
<1>4. CASE GetKeyFetch
  <2>1. r' \in {r, ridx} /\ ridx' = ridx /\ due' = due /\ burst' = burst /\ pc' = "fetched" /\ pc = "tested"
    BY <1>4 DEF GetKeyFetch, ring, counts
  <2>2. last' \in Keys \cup {NoKey}
    BY <1>1, <1>4, <2>1 DEF GetKeyFetch
  <2>3. TypeOK'
    BY <1>1, <1>2, <1>4, <2>1, <2>2 DEF TypeOK, GetKeyFetch, decoder, keyboard
  <2>4. Stored(ridx)' = Stored(ridx)
    BY <1>2, <2>1 DEF Stored
  <2>5. ASSUME Untouched PROVE CallInv'
    BY <1>2, <2>1, <2>4, <2>5 DEF CallInv, Untouched
  <2>6. ASSUME ~ Untouched PROVE CallInv'
    <3>1. env = Rushed /\ (RushedBurst <= 1 => Dropped)
      BY <2>1, <2>6 DEF CallInv
    <3>2. CASE r' = r
      BY <1>2, <2>1, <2>4, <3>1, <3>2 DEF CallInv, Dropped, Advance
    <3>3. CASE r' = ridx
      <4>1. Dropped => Untouched'
        BY <2>1, <2>4, <3>3, SizeIs, SMT DEF Dropped, Untouched
      <4> QED BY <1>2, <2>1, <3>1, <4>1 DEF CallInv
    <3> QED BY <2>1, <3>2, <3>3
  <2> QED BY <2>3, <2>5, <2>6
<1>5. CASE GetKeyStore
  <2>1. ridx' \in Slots /\ r' = 0 /\ burst' = 0 /\ due' = 0 /\ pc' = "idle" /\ 0 \in Slots
    BY <1>1, <1>5, AdvanceIs, SizeIs DEF GetKeyStore, Slots
  <2>2. TypeOK'
    BY <1>1, <1>2, <1>5, <2>1, BurstIs, SizeIs DEF TypeOK, GetKeyStore, decoder, keyboard
  <2> QED BY <2>1, <2>2, SizeIs DEF CallInv
<1> QED BY <1>3, <1>4, <1>5 DEF GetKey

LEMMA KbdStepInv ==
  ASSUME KbdInv, [Next]_vars
  PROVE  KbdInv'
<1> USE DEF KbdInv
<1>1. WireInv'
  BY KeyboardKeeps, InterruptKeeps, GetKeyKeeps DEF Next
<1>2. CASE (\E k \in Switches : KeyDown(k) \/ KeyRepeats(k) \/ KeyUp(k)) \/ UNCHANGED vars
  <2>1. UNCHANGED <<ring, decoder, reader, counts>> /\ held' \subseteq Switches /\ latest' \subseteq Keys
    BY <1>2, NameType DEF KeyDown, KeyRepeats, KeyUp, vars, TypeOK, keyboard
  <2>2. TypeOK' /\ CallInv'
    BY <2>1 DEF TypeOK, CallInv, Untouched, Dropped, Stored, Advance, Burst, ring, decoder, reader, counts
  <2> QED BY <1>1, <2>2
<1>3. CASE Interrupt
  <2>1. /\ UNCHANGED <<ring, counts, reader>> \/ \E k \in Keys : Press(k)
        /\ keystate' \subseteq Keys /\ numPressed' \in Nat /\ ext' \in BOOLEAN
        /\ UNCHANGED <<held, latest>>
    BY <1>3, InterruptIs
  <2>2. CASE UNCHANGED <<ring, counts, reader>>
    BY <1>1, <2>1, <2>2
      DEF TypeOK, CallInv, Untouched, Dropped, Stored, Advance, Burst, ring, reader, counts
  <2>3. ASSUME NEW k \in Keys, Press(k)
        PROVE  TypeOK' /\ CallInv'
    <3>1. Burst' = Burst /\ UNCHANGED <<env, pc, r, last>>
      BY <2>3 DEF Press, Burst, reader
    <3>2. /\ buffer' \in [Slots -> Keys \cup {NoKey}] /\ widx' \in Slots /\ ridx' \in Slots
          /\ burst' \in 0 .. Burst /\ due' \in Nat /\ CallInv'
      BY <2>3, <3>1, PressKeeps
    <3>3. due' \in Nat /\ burst' \in 0 .. Burst /\ due' <= BufSize - 1 + burst'
      BY <3>2, Zenon DEF CallInv
    <3>4. due' \in 0 .. BufSize + Burst
      <4> DEFINE b == burst'
      <4>1. due' \in Nat /\ b \in 0 .. Burst /\ due' <= BufSize - 1 + b
        BY <3>3
      <4> HIDE DEF b
      <4> QED BY <4>1, BurstIs, SizeIs, SMT
    <3> QED BY <2>1, <3>1, <3>2, <3>4 DEF TypeOK
  <2> QED BY <1>1, <2>1, <2>2, <2>3
<1>4. CASE GetKey
  BY <1>1, <1>4, GetKeyCallKeeps
<1> QED BY <1>2, <1>3, <1>4 DEF Next

LEMMA KbdInvHolds == Spec => []KbdInv
  BY KbdInitInv, KbdStepInv, PTL DEF Spec

\* The indices of the ring and the driver's variables keep their types.
THEOREM DriverKeepsTypes == Spec => []TypeOK
<1>1. KbdInv => TypeOK
  BY DEF KbdInv
<1> QED BY <1>1, KbdInvHolds, PTL

\* If at most one press may overflow the ring during a call, the call throws away
\* no key but the one it returns and the one that the handler dropped.
THEOREM OnlyDropsLost == RushedBurst <= 1 => (Spec => OnlyDropsAreLost)
<1> SUFFICES ASSUME RushedBurst <= 1 PROVE Spec => OnlyDropsAreLost
  OBVIOUS
<1>1. ASSUME KbdInv, GetKeyStore
      PROVE  Stored(ridx)' >= due - 1
  <2>1. /\ widx \in Slots /\ ridx \in Slots /\ r \in Slots /\ due \in Nat
        /\ pc # "idle" /\ widx' = widx
    BY <1>1, BurstIs, SizeIs, SMT DEF KbdInv, TypeOK, GetKeyStore
  <2>2. PICK i \in {r, ridx} : ridx' = Advance(i)
    BY <1>1 DEF GetKeyStore
  <2>3. i \in Slots /\ Advance(i) \in Slots
    BY <2>1, AdvanceIs
  <2>4. Stored(ridx)' = Between(Advance(i), widx)
    BY <2>1, <2>2, StoredIs
  <2>5. Between(Advance(i), widx) \in Nat
    BY <2>1, <2>3, BetweenIs, SizeIs, SMT
  <2>6. Untouched \/ Dropped
    BY <1>1, <2>1 DEF KbdInv, CallInv
  <2>7. due <= Stored(ridx) /\ ridx # widx
    <3>1. Stored(ridx) >= 1 /\ due = Stored(ridx)
      BY <2>6, SizeIs, SMT DEF Untouched, Dropped
    <3> QED BY <2>1, <3>1, StoredIs, BetweenSteps
  <2>8. CASE i = ridx
    <3>1. Stored(ridx)' = Stored(ridx) - 1
      BY <2>1, <2>4, <2>7, <2>8, StoredIs, BetweenSteps
    <3>2. Stored(ridx) \in Nat
      BY <2>1, StoredIs, BetweenIs, SizeIs, SMT
    <3> QED BY <2>1, <2>7, <3>1, <3>2, SMT
  <2>9. CASE i = r /\ Dropped
    <3>1. Stored(ridx)' = Stored(ridx)
      BY <2>1, <2>4, <2>9, StoredIs DEF Dropped
    <3>2. Stored(ridx) \in Nat
      BY <2>1, StoredIs, BetweenIs, SizeIs, SMT
    <3> QED BY <2>1, <2>7, <3>1, <3>2, SMT
  <2> QED BY <2>2, <2>6, <2>8, <2>9 DEF Untouched
<1> QED BY <1>1, KbdInvHolds, PTL DEF OnlyDropsAreLost

-----------------------------------------------------------------------------
(* The queue that the ring implements in the calm environment.             *)

\* Where the queue begins: kb_getkey has taken its key before it advances the index.
Front == IF pc = "fetched" THEN Advance(ridx) ELSE ridx

\* A press is an Add.
LEMMA PressIsAdd ==
  ASSUME KbdInv, env = Calm, NEW k \in Keys, Press(k)
  PROVE  Abs!Add(k)
<1>1. /\ widx \in Slots /\ ridx \in Slots /\ buffer \in Rings /\ env # Rushed /\ env' = env
      /\ pc' = pc /\ last' = last
  BY KbdAssumption, Zenon DEF KbdInv, TypeOK, Rings, Press, reader
<1>2. buffer' = [buffer EXCEPT ![widx] = k] /\ widx' = Advance(widx)
  BY DEF Press
<1>3. Front \in Slots
  BY <1>1, AdvanceIs DEF Front
<1>4. KeysFrom(Front) = KeysOf(buffer, Front, widx) /\ KeysFrom(Front)' = KeysOf(buffer', Front', widx')
  BY DEF KeysFrom, KeysOf, Stored, Between, SlotOf
<1>5. Len(KeysFrom(Front)) = Between(Front, widx) /\ Between(Front, widx) \in 0 .. BufSize - 1
  BY <1>1, <1>3, <1>4, KeysOfIs, BetweenIs
<1>6. CASE Advance(widx) # Front /\ Front' = Front
  <2>1. KeysFrom(Front)' = Append(KeysFrom(Front), k)
    <3>1. KeysOf([buffer EXCEPT ![widx] = k], Front, Advance(widx)) = Append(KeysOf(buffer, Front, widx), k)
      BY <1>1, <1>3, <1>6, PressAppends
    <3> QED BY <1>2, <1>4, <1>6, <3>1, Zenon
  <2>2. Between(Front, widx) < BufSize - 1
    BY <1>1, <1>3, <1>5, <1>6, BetweenSteps, SizeIs, SMT
  <2> QED BY <1>1, <1>5, <2>1, <2>2 DEF Abs!Add, Front
<1>7. CASE Advance(widx) = Front /\ Front' = Advance(Front)
  <2>1. Front # widx /\ Between(Front, widx) = BufSize - 1
    BY <1>1, <1>3, <1>7, BetweenSteps
  <2>2. Tail(KeysFrom(Front)) = KeysOf(buffer, Advance(Front), widx)
    BY <1>1, <1>3, <1>4, <2>1, AdvanceTakes
  <2>3. Advance(widx) # Advance(Front) /\ Advance(Front) \in Slots
    <3>1. Advance(Front) # Front
      BY <1>3, AdvanceIs, SizeIs, SMT DEF Slots
    <3> QED BY <1>3, <1>7, <3>1, AdvanceIs
  <2>4. KeysFrom(Front)' = Append(Tail(KeysFrom(Front)), k)
    <3>1. KeysOf([buffer EXCEPT ![widx] = k], Advance(Front), Advance(widx))
            = Append(KeysOf(buffer, Advance(Front), widx), k)
      BY <1>1, <2>3, PressAppends
    <3> QED BY <1>2, <1>4, <1>7, <2>2, <3>1, Zenon
  <2>5. ~ (Len(KeysFrom(Front)) < BufSize - 1)
    BY <1>5, <2>1, SizeIs, SMT
  <2> QED BY <1>1, <2>4, <2>5 DEF Abs!Add, Front
<1>8. CASE pc = "idle"
  <2>1. Front = ridx /\ Front' = ridx'
    BY <1>1, <1>8 DEF Front
  <2>2. ridx' = IF Advance(widx) = ridx THEN Advance(ridx) ELSE ridx
    BY DEF Press
  <2> QED BY <1>6, <1>7, <2>1, <2>2
<1>9. CASE pc # "idle"
  <2>1. Advance(widx) # ridx /\ ridx' = ridx
    BY <1>1, <1>9 DEF Press
  <2>2. Front' = Front
    BY <1>1, <2>1 DEF Front, Advance
  <2>3. ridx # widx
    <3>1. Untouched
      BY <1>1, <1>9 DEF KbdInv, CallInv
    <3>2. due \in Nat /\ due >= 1 /\ due = Between(ridx, widx)
      BY <3>1, BurstIs, SizeIs, StoredIs, SMT DEF KbdInv, TypeOK, Untouched
    <3> QED BY <1>1, <3>2, BetweenSteps, SMT
  <2>4. Advance(widx) # Front
    <3>1. Advance(widx) # Advance(ridx)
      BY <1>1, <2>3, AdvanceIs, SizeIs, SMT DEF Slots
    <3> QED BY <2>1, <3>1 DEF Front
  <2> QED BY <1>6, <2>2, <2>4
<1> QED BY <1>8, <1>9

\* Reading the slot is a Take, and moving the index after it shows nothing.
LEMMA GetKeyIsTake ==
  ASSUME KbdInv, env = Calm, GetKey
  PROVE  [Abs!Take]_(Abs!qvars)
<1>1. /\ widx \in Slots /\ ridx \in Slots /\ buffer \in Rings /\ env # Rushed /\ env' = env
      /\ widx' = widx /\ buffer' = buffer
  BY KbdAssumption, Zenon
    DEF KbdInv, TypeOK, Rings, GetKey, GetKeyTest, GetKeyFetch, GetKeyStore, ring, counts
<1>2. KeysFrom(Front) = KeysOf(buffer, Front, widx) /\ KeysFrom(Front)' = KeysOf(buffer', Front', widx')
  BY DEF KeysFrom, KeysOf, Stored, Between, SlotOf
<1>3. CASE GetKeyTest
  <2>1. Front' = Front /\ last' = last
    BY <1>3 DEF GetKeyTest, Front, ring, Advance
  <2> QED BY <1>1, <1>2, <2>1 DEF Abs!qvars, Front
<1>4. pc # "idle" => Untouched /\ ridx # widx
  <2> SUFFICES ASSUME pc # "idle" PROVE Untouched /\ ridx # widx
    OBVIOUS
  <2>1. Untouched
    BY <1>1 DEF KbdInv, CallInv
  <2>2. due \in Nat /\ due >= 1 /\ due = Between(ridx, widx)
    BY <2>1, BurstIs, SizeIs, StoredIs, SMT DEF KbdInv, TypeOK, Untouched
  <2> QED BY <1>1, <2>1, <2>2, BetweenSteps, SMT
<1>5. CASE GetKeyFetch
  <2>1. Front = ridx /\ Front' = Advance(ridx) /\ last' = buffer[ridx]
    BY <1>4, <1>5 DEF GetKeyFetch, Front, ring, Untouched, Advance
  <2>2. /\ KeysFrom(Front) # <<>> /\ Head(KeysFrom(Front)) = buffer[ridx]
        /\ KeysFrom(Front)' = Tail(KeysFrom(Front))
    <3>1. pc # "idle"
      BY <1>5 DEF GetKeyFetch
    <3> QED BY <1>1, <1>2, <1>4, <2>1, <3>1, AdvanceTakes
  <2> QED BY <1>1, <2>1, <2>2 DEF Abs!Take, Front
<1>6. CASE GetKeyStore
  <2>1. Front = Advance(ridx) /\ Front' = Advance(ridx) /\ last' = last
    BY <1>4, <1>6 DEF GetKeyStore, Front, Untouched
  <2> QED BY <1>1, <1>2, <2>1 DEF Abs!qvars, Front
<1> QED BY <1>3, <1>5, <1>6 DEF GetKey

LEMMA StepIsQueueStep ==
  ASSUME KbdInv, [Next]_vars
  PROVE  [Abs!QNext]_(Abs!qvars)
<1>1. env \in {Calm, Rushed} /\ env' = env
  BY DEF KbdInv, TypeOK, Next, KeyDown, KeyRepeats, KeyUp, Interrupt, GetKey, GetKeyTest,
         GetKeyFetch, GetKeyStore, vars, counts
<1>2. CASE env = Rushed
  BY <1>1, <1>2 DEF Abs!qvars
<1>3. CASE env = Calm /\ UNCHANGED <<ring, reader>>
  <2>1. Front' = Front /\ KeysFrom(Front)' = KeysFrom(Front) /\ last' = last
    BY <1>3 DEF Front, KeysFrom, Stored, Advance, ring, reader
  <2> QED BY <1>1, <2>1 DEF Abs!qvars, Front
<1>4. CASE env = Calm /\ Interrupt
  <2>1. UNCHANGED <<ring, counts, reader>> \/ \E k \in Keys : Press(k)
    BY <1>4, InterruptIs DEF KbdInv
  <2>2. ASSUME NEW k \in Keys, Press(k)
        PROVE  Abs!QNext
    BY <1>4, <2>2, PressIsAdd DEF Abs!QNext
  <2> QED BY <1>3, <1>4, <2>1, <2>2
<1>5. CASE env = Calm /\ GetKey
  BY <1>5, GetKeyIsTake DEF Abs!QNext
<1>6. (\E k \in Switches : KeyDown(k) \/ KeyRepeats(k) \/ KeyUp(k)) \/ UNCHANGED vars
        => UNCHANGED <<ring, reader>>
  BY DEF KeyDown, KeyRepeats, KeyUp, vars
<1> QED BY <1>1, <1>2, <1>3, <1>4, <1>5, <1>6 DEF Next

\* In the calm environment every step of the driver is a step of the queue or none:
\* what ImplementsQueue says, but for the fairness of the main loop.
THEOREM RingIsQueue == Spec => Abs!QInit /\ [][Abs!QNext]_(Abs!qvars)
<1>1. Init => Abs!QInit
  <2> SUFFICES ASSUME Init PROVE Abs!QInit
    OBVIOUS
  <2>1. 0 \in Slots /\ ridx = 0 /\ widx = 0 /\ pc = "idle" /\ last = NoKey
    BY SizeIs, SMT DEF Init, Slots
  <2>2. Stored(ridx) = 0
    BY <2>1, StoredIs, BetweenSteps
  <2>3. KeysFrom(ridx) = <<>>
    BY <2>2 DEF KeysFrom
  <2> QED BY <2>1, <2>3 DEF Abs!QInit
<1>2. KbdInv /\ [Next]_vars => [Abs!QNext]_(Abs!qvars)
  BY StepIsQueueStep
<1> QED BY <1>1, <1>2, KbdInvHolds, PTL DEF Spec

-----------------------------------------------------------------------------
(* The screen: offsets and rectangles.                                     *)

Rects == [x : Int, y : Int, w : Int, h : Int]

LEMMA SizesAre == W \in Nat \ {0} /\ H \in Nat \ {0} /\ Reach \in Nat
  BY ScreenAssumption, Zenon

LEMMA RIs ==
  ASSUME NEW x \in Int, NEW y \in Int, NEW w \in Int, NEW h \in Int
  PROVE  R(x, y, w, h) \in Rects /\ R(x, y, w, h).x = x /\ R(x, y, w, h).y = y
         /\ R(x, y, w, h).w = w /\ R(x, y, w, h).h = h
  BY DEF R, Rects

LEMMA SpanIs == \A a, n \in Int : \A i : i \in Span(a, n) <=> i \in Int /\ a <= i /\ i < a + n
  BY SMT DEF Span

\* An offset lies in a rectangle.
LEMMA OffsetsAre ==
  ASSUME NEW a \in Rects, NEW o
  PROVE  o \in Offsets(a) <=>
           /\ o \in Screen
           /\ \E x, y \in Int : /\ a.x <= x /\ x < a.x + a.w /\ a.y <= y /\ y < a.y + a.h
                                /\ o = y * W + x
<1>1. a.x \in Int /\ a.y \in Int /\ a.w \in Int /\ a.h \in Int
  BY DEF Rects
<1>2. /\ \A i : i \in Span(a.x, a.w) <=> i \in Int /\ a.x <= i /\ i < a.x + a.w
      /\ \A i : i \in Span(a.y, a.h) <=> i \in Int /\ a.y <= i /\ i < a.y + a.h
  BY <1>1, SpanIs
<1>3. o \in Offsets(a) <=> o \in Screen /\ \E x \in Span(a.x, a.w), y \in Span(a.y, a.h) : o = y * W + x
  BY DEF Offsets
<1> QED BY <1>2, <1>3, Zenon

\* The union contains both.
LEMMA UnionIs ==
  ASSUME NEW a \in Rects, NEW b \in Rects
  PROVE  LET u == UnionRect(a, b)
         IN  /\ u \in Rects
             /\ u.x <= a.x /\ a.x + a.w <= u.x + u.w /\ u.y <= a.y /\ a.y + a.h <= u.y + u.h
             /\ u.x <= b.x /\ b.x + b.w <= u.x + u.w /\ u.y <= b.y /\ b.y + b.h <= u.y + u.h
             /\ a.w <= u.w /\ a.h <= u.h /\ b.w <= u.w /\ b.h <= u.h
  BY SMT DEF UnionRect, R, Rects, Least, Most

LEMMA LargerHasMore ==
  ASSUME NEW a \in Rects, NEW u \in Rects,
         u.x <= a.x, a.x + a.w <= u.x + u.w, u.y <= a.y, a.y + a.h <= u.y + u.h
  PROVE  Offsets(a) \subseteq Offsets(u)
<1> SUFFICES ASSUME NEW o \in Offsets(a) PROVE o \in Offsets(u)
  OBVIOUS
<1>1. o \in Screen
  BY OffsetsAre
<1>2. PICK x \in Int, y \in Int : /\ a.x <= x /\ x < a.x + a.w /\ a.y <= y /\ y < a.y + a.h
                                  /\ o = y * W + x
  BY OffsetsAre
<1>3. u.x <= x /\ x < u.x + u.w /\ u.y <= y /\ y < u.y + u.h
  BY <1>2, SMT DEF Rects
<1> QED BY <1>1, <1>2, <1>3, OffsetsAre

LEMMA UnionHasBoth ==
  ASSUME NEW a \in Rects, NEW b \in Rects
  PROVE  Offsets(a) \cup Offsets(b) \subseteq Offsets(UnionRect(a, b))
  BY UnionIs, LargerHasMore

LEMMA NothingInNoRect == NoRect \in Rects /\ Offsets(NoRect) = {}
<1>1. NoRect \in Rects /\ NoRect.x = 0 /\ NoRect.w = 0
  BY RIs DEF NoRect
<1>2. \A o : o \notin Offsets(NoRect)
  BY <1>1, OffsetsAre, SMT DEF Rects
<1> QED BY <1>1, <1>2

LEMMA FullIs == Full \in Rects /\ Full # NoRect /\ Full.w = W /\ Full.h = H
<1>1. Full \in Rects /\ Full.x = 0 /\ Full.w = W /\ Full.h = H /\ NoRect.w = 0
  BY RIs, SizesAre DEF Full, NoRect
<1> QED BY <1>1, SizesAre, SMT

\* A point on the screen has an offset of the screen, and no other has the same.
LEMMA PointIsOnScreen ==
  ASSUME NEW x \in 0 .. W - 1, NEW y \in 0 .. H - 1
  PROVE  y * W + x \in Screen
<1>1. y * W \in Nat /\ (H - 1 - y) * W \in Nat
  BY SizesAre, SMT
<1>2. (H - 1 - y) * W = W * H - W - y * W
  BY SizesAre, SMT
<1>3. W * H \in Nat
  BY SizesAre, SMT
<1> DEFINE a == y * W
           b == W * H
<1> HIDE DEF a, b
<1> QED BY <1>1, <1>2, <1>3, SizesAre, SMT DEF Screen, a, b

LEMMA RowsApart ==
  ASSUME NEW x \in 0 .. W - 1, NEW y \in Int, NEW i \in 0 .. W - 1, NEW j \in Int, y < j
  PROVE  y * W + x # j * W + i
<1>1. j * W = y * W + W + (j - y - 1) * W
  BY SizesAre, SMT
<1>2. (j - y - 1) * W >= 0 /\ y * W \in Int /\ (j - y - 1) * W \in Int
  BY SizesAre, SMT
<1> DEFINE a == y * W
           b == (j - y - 1) * W
<1> HIDE DEF a, b
<1>3. a + x # a + W + b + i
  BY <1>2, SizesAre, SMT DEF a, b
<1> QED BY <1>1, <1>3 DEF a, b

LEMMA OffsetNamesPoint ==
  ASSUME NEW x \in 0 .. W - 1, NEW y \in Int, NEW i \in 0 .. W - 1, NEW j \in Int,
         y * W + x = j * W + i
  PROVE  x = i /\ y = j
<1>1. y = j
  BY RowsApart, SMT
<1>2. x = i
  BY <1>1, SizesAre, SMT
<1> QED BY <1>1, <1>2

-----------------------------------------------------------------------------
(* The cursor.                                                             *)

\* Each arm of the cursor lies on the screen and in the box around it.
LEMMA CrossIs ==
  ASSUME NEW p \in (0 .. W - 1) \X (0 .. H - 1), NEW o \in Cross(p), p # Nowhere
  PROVE  \E x \in 0 .. W - 1, y \in 0 .. H - 1 :
           /\ o = y * W + x
           /\ p[1] - Reach <= x /\ x <= p[1] + Reach
           /\ p[2] - Reach <= y /\ y <= p[2] + Reach
<1> DEFINE x == p[1]
           y == p[2]
<1>1. x \in 0 .. W - 1 /\ y \in 0 .. H - 1
  OBVIOUS
<1>2. PICK k \in 1 .. Reach :
         \/ y > k /\ o = (y * W + x) - W * k
         \/ y < H - k - 1 /\ o = (y * W + x) + W * k
         \/ x > k /\ o = (y * W + x) - k
         \/ x < W - k - 1 /\ o = (y * W + x) + k
  <2> DEFINE c == y * W + x
             Arms(k) ==   (IF y > k THEN {c - W * k} ELSE {})
                     \cup (IF y < H - k - 1 THEN {c + W * k} ELSE {})
                     \cup (IF x > k THEN {c - k} ELSE {})
                     \cup (IF x < W - k - 1 THEN {c + k} ELSE {})
  <2>1. Cross(p) = UNION {Arms(k) : k \in 1 .. Reach}
    BY Zenon DEF Cross
  <2>2. PICK k \in 1 .. Reach : o \in Arms(k)
    BY <2>1
  <2> HIDE DEF c
  <2>3. \/ y > k /\ o = c - W * k
        \/ y < H - k - 1 /\ o = c + W * k
        \/ x > k /\ o = c - k
        \/ x < W - k - 1 /\ o = c + k
    BY <2>2, Zenon
  <2> QED BY <2>3 DEF c
<1> HIDE DEF x, y
<1>3. /\ (y * W + x) - W * k = (y - k) * W + x
      /\ (y * W + x) + W * k = (y + k) * W + x
      /\ (y * W + x) - k = y * W + (x - k)
      /\ (y * W + x) + k = y * W + (x + k)
  BY <1>1, SizesAre, SMT
<1>4. k \in Nat /\ k >= 1 /\ k <= Reach
  BY SizesAre, SMT
<1>5. CASE y > k /\ o = (y - k) * W + x
  <2>1. y - k \in 0 .. H - 1 /\ x - Reach <= x /\ x <= x + Reach
        /\ y - Reach <= y - k /\ y - k <= y + Reach
    BY <1>1, <1>4, <1>5, SizesAre, SMT
  <2> QED BY <1>1, <1>5, <2>1 DEF x, y
<1>6. CASE y < H - k - 1 /\ o = (y + k) * W + x
  <2>1. y + k \in 0 .. H - 1 /\ x - Reach <= x /\ x <= x + Reach
        /\ y - Reach <= y + k /\ y + k <= y + Reach
    BY <1>1, <1>4, <1>6, SizesAre, SMT
  <2> QED BY <1>1, <1>6, <2>1 DEF x, y
<1>7. CASE x > k /\ o = y * W + (x - k)
  <2>1. x - k \in 0 .. W - 1 /\ x - Reach <= x - k /\ x - k <= x + Reach
        /\ y - Reach <= y /\ y <= y + Reach
    BY <1>1, <1>4, <1>7, SizesAre, SMT
  <2> QED BY <1>1, <1>7, <2>1 DEF x, y
<1>8. CASE x < W - k - 1 /\ o = y * W + (x + k)
  <2>1. x + k \in 0 .. W - 1 /\ x - Reach <= x + k /\ x + k <= x + Reach
        /\ y - Reach <= y /\ y <= y + Reach
    BY <1>1, <1>4, <1>8, SizesAre, SMT
  <2> QED BY <1>1, <1>8, <2>1 DEF x, y
<1> QED BY <1>2, <1>3, <1>5, <1>6, <1>7, <1>8

LEMMA BoxIs ==
  ASSUME NEW p \in (0 .. W - 1) \X (0 .. H - 1)
  PROVE  /\ CursorBox(p) \in Rects
         /\ CursorBox(p).x = p[1] - Reach /\ CursorBox(p).w = 2 * Reach + 1
         /\ CursorBox(p).y = p[2] - Reach /\ CursorBox(p).h = 2 * Reach + 1
<1>1. p[1] - Reach \in Int /\ p[2] - Reach \in Int /\ 2 * Reach + 1 \in Int
  BY SizesAre, SMT
<1> QED BY <1>1 DEF CursorBox, R, Rects

LEMMA CrossInBox ==
  ASSUME NEW p \in (0 .. W - 1) \X (0 .. H - 1), p # Nowhere
  PROVE  Cross(p) \subseteq Screen \cap Offsets(CursorBox(p))
<1> SUFFICES ASSUME NEW o \in Cross(p) PROVE o \in Screen /\ o \in Offsets(CursorBox(p))
  OBVIOUS
<1>1. PICK x \in 0 .. W - 1, y \in 0 .. H - 1 :
           /\ o = y * W + x
           /\ p[1] - Reach <= x /\ x <= p[1] + Reach
           /\ p[2] - Reach <= y /\ y <= p[2] + Reach
  BY CrossIs
<1>2. o \in Screen
  BY <1>1, PointIsOnScreen
<1> DEFINE b == CursorBox(p)
<1>3. b.x <= x /\ x < b.x + b.w /\ b.y <= y /\ y < b.y + b.h
  <2>1. p[1] \in Int /\ p[2] \in Int
    OBVIOUS
  <2> HIDE DEF b
  <2>2. b.x = p[1] - Reach /\ b.w = 2 * Reach + 1 /\ b.y = p[2] - Reach /\ b.h = 2 * Reach + 1
    BY BoxIs DEF b
  <2> QED BY <1>1, <2>1, <2>2, SizesAre, SMT
<1>4. b \in Rects
  BY BoxIs
<1>5. x \in Int /\ y \in Int
  BY SizesAre, SMT
<1> HIDE DEF b
<1>6. o \in Offsets(b)
  BY <1>1, <1>2, <1>3, <1>4, <1>5, OffsetsAre
<1> QED BY <1>2, <1>6 DEF b

\* A copy that does not meet the box around the cursor leaves the cursor alone.
LEMMA ApartFromCross ==
  ASSUME NEW p \in (0 .. W - 1) \X (0 .. H - 1), p # Nowhere, NEW a \in Rects, InColumns(a),
         ~ Meets(a, CursorBox(p))
  PROVE  Cross(p) \cap Offsets(a) = {}
<1> SUFFICES ASSUME NEW o \in Cross(p), o \in Offsets(a) PROVE FALSE
  OBVIOUS
<1>1. PICK x \in 0 .. W - 1, y \in 0 .. H - 1 :
           /\ o = y * W + x
           /\ p[1] - Reach <= x /\ x <= p[1] + Reach
           /\ p[2] - Reach <= y /\ y <= p[2] + Reach
  BY CrossIs
<1>2. PICK i \in Int, j \in Int : /\ a.x <= i /\ i < a.x + a.w /\ a.y <= j /\ j < a.y + a.h
                                  /\ o = j * W + i
  BY OffsetsAre
<1>3. i \in 0 .. W - 1
  BY <1>2, SizesAre, SMT DEF InColumns, Rects
<1>4. x = i /\ y = j
  <2>1. y \in Int /\ y * W + x = j * W + i
    BY <1>1, <1>2, SizesAre
  <2> QED BY <1>3, <2>1, OffsetNamesPoint
<1> DEFINE b == CursorBox(p)
<1>5. b.x = p[1] - Reach /\ b.w = 2 * Reach + 1 /\ b.y = p[2] - Reach /\ b.h = 2 * Reach + 1
  BY BoxIs
<1>6. p[1] \in Int /\ p[2] \in Int
  OBVIOUS
<1> HIDE DEF b
<1>7. Meets(a, b)
  BY <1>1, <1>2, <1>4, <1>5, <1>6, SizesAre, SMT DEF Meets, Rects
<1> QED BY <1>7 DEF b

LEMMA NoCross == Cross(Nowhere) = {}
  BY DEF Cross

-----------------------------------------------------------------------------
(* The screen update.                                                      *)

Points == (0 .. W - 1) \X (0 .. H - 1)

\* What the rectangles and the cursor are, and where pixels are inverted.
ScrTypeOK ==
  /\ dirty \in Rects
  /\ stale \subseteq Screen /\ curInv \subseteq Screen /\ bandInv \subseteq Screen
  /\ mouse \in Points /\ mouse # Nowhere
  /\ prev \in Points \cup {Nowhere}

LEMMA CrossOnScreen ==
  ASSUME ScrTypeOK, NEW p \in {prev, mouse, Nowhere}
  PROVE  Cross(p) \subseteq Screen
<1>1. CASE p = Nowhere
  BY <1>1, NoCross
<1>2. CASE p # Nowhere
  <2>1. p \in (0 .. W - 1) \X (0 .. H - 1)
    BY <1>2 DEF ScrTypeOK, Points
  <2> QED BY <1>2, <2>1, CrossInBox
<1> QED BY <1>1, <1>2

LEMMA OutlineOnScreen == \A a : Outline(a) \subseteq Screen
<1>1. \A a : Offsets(a) \subseteq Screen
  BY DEF Offsets
<1>2. \A A, B : A \subseteq Screen /\ B \subseteq Screen => SymDiff(A, B) \subseteq Screen
  BY DEF SymDiff
<1> QED BY <1>1, <1>2 DEF Outline

LEMMA AreaIs ==
  ASSUME NEW a \in Areas \cup {NoRect}
  PROVE  LET area == IF a.w = 0 /\ a.h = 0 THEN Full ELSE a
         IN  area \in Rects
<1>1. a \in Rects
  BY ScreenAssumption, NothingInNoRect, Zenon DEF Rects
<1> QED BY <1>1, FullIs, NothingInNoRect

\* The mouse may begin where the program does not move it to, but on the screen.
LEMMA MiddleIs == <<W \div 2, H \div 2>> \in Points
<1>1. W \div 2 \in 0 .. W - 1 /\ H \div 2 \in 0 .. H - 1
  BY SizesAre, SMT
<1> QED BY <1>1 DEF Points

LEMMA ScrTypes ==
  ASSUME ScrTypeOK, ScrNext
  PROVE  ScrTypeOK'
<1> USE DEF ScrTypeOK
<1>1. ASSUME NEW a \in Areas \cup {NoRect}, Redisplay(a) PROVE ScrTypeOK'
  <2> DEFINE area == IF a.w = 0 /\ a.h = 0 THEN Full ELSE a
  <2>1. area \in Rects
    BY AreaIs
  <2>2. stale' = stale \cup Offsets(area) /\ dirty' = (IF dirty = NoRect THEN area ELSE UnionRect(dirty, area))
    BY <1>1 DEF Redisplay
  <2> HIDE DEF area
  <2>3. dirty' \in Rects
    BY <2>1, <2>2, UnionIs
  <2>4. stale' \subseteq Screen
    BY <2>2 DEF Offsets
  <2> QED BY <1>1, <2>3, <2>4 DEF Redisplay
<1>2. ASSUME NEW p \in Places, MoveMouse(p) PROVE ScrTypeOK'
  <2>1. p \in Points /\ p # Nowhere
    BY ScreenAssumption, Zenon DEF Points
  <2> QED BY <1>2, <2>1 DEF MoveMouse
<1>3. ASSUME NEW b \in Bands \cup {NoRect}, SetBand(b) PROVE ScrTypeOK'
  BY <1>3 DEF SetBand
<1>4. CASE Swap
  <2>1. stale' \subseteq Screen /\ dirty' = NoRect /\ mouse' = mouse /\ prev' = mouse
    BY <1>4 DEF Swap
  <2>2. bandInv' \subseteq Screen
    <3>1. bandInv' = SymDiff(SymDiff(bandInv \ Copied, Outline(prevRband)), Outline(rband))
      BY <1>4 DEF Swap, BandAfter
    <3>2. Outline(prevRband) \subseteq Screen /\ Outline(rband) \subseteq Screen
      BY OutlineOnScreen
    <3> QED BY <3>1, <3>2 DEF SymDiff
  <2>3. curInv' \subseteq Screen
    <3> DEFINE old == IF CopiesAll \/ TakesCursor THEN Nowhere ELSE prev
    <3>1. curInv' = SymDiff(SymDiff(curInv \ Copied, Cross(old)), Cross(mouse))
      BY <1>4 DEF Swap
    <3>2. Cross(old) \subseteq Screen /\ Cross(mouse) \subseteq Screen
      BY CrossOnScreen
    <3> QED BY <3>1, <3>2 DEF SymDiff
  <2> QED BY <2>1, <2>2, <2>3, NothingInNoRect
<1> QED BY <1>1, <1>2, <1>3, <1>4 DEF ScrNext

LEMMA ScrInitTypes == ScrInit => ScrTypeOK
<1> SUFFICES ASSUME ScrInit PROVE ScrTypeOK
  OBVIOUS
<1>1. mouse \in Points /\ mouse # Nowhere
  BY MiddleIs, ScreenAssumption, Zenon DEF ScrInit, Points
<1> QED BY <1>1, FullIs DEF ScrInit, ScrTypeOK

LEMMA ScrTypesHold == ScrSpec => []ScrTypeOK
<1>1. ScrTypeOK /\ [ScrNext]_scrVars => ScrTypeOK'
  <2>1. ASSUME ScrTypeOK, UNCHANGED scrVars PROVE ScrTypeOK'
    BY <2>1 DEF ScrTypeOK, scrVars
  <2> QED BY <2>1, ScrTypes
<1> QED BY <1>1, ScrInitTypes, PTL DEF ScrSpec

\* What waits to be copied is in what the next swap copies.
LEMMA DirtyIsCopied ==
  ASSUME ScrTypeOK
  PROVE  /\ CopiesAll => Copied = Screen
         /\ ~ CopiesAll => Offsets(dirty) \subseteq Copied
         /\ TakesCursor => Offsets(CursorBox(prev)) \subseteq Copied
<1>1. dirty \in Rects
  BY DEF ScrTypeOK
<1>2. CASE TakesCursor
  <2>1. prev \in Points /\ ~ CopiesAll
    BY <1>2 DEF TakesCursor, ScrTypeOK
  <2>2. CursorBox(prev) \in Rects
    BY <2>1, BoxIs DEF Points
  <2>3. Copied = Offsets(UnionRect(dirty, CursorBox(prev)))
    BY <1>2, <2>1 DEF Copied
  <2> QED BY <1>1, <2>1, <2>2, <2>3, UnionHasBoth
<1>3. CASE ~ TakesCursor
  BY <1>3 DEF Copied
<1> QED BY <1>2, <1>3

\* Whatever was drawn is on the screen or in the rectangle that is copied next.
THEOREM NothingIsForgotten == ScrSpec => []NothingForgotten
<1>1. ScrInit => NothingForgotten
  <2> SUFFICES ASSUME ScrInit PROVE NothingForgotten
    OBVIOUS
  <2>1. CopiesAll
    BY FullIs, SizesAre, SMT DEF ScrInit, CopiesAll
  <2> QED BY <2>1 DEF ScrInit, NothingForgotten
<1>2. ASSUME ScrTypeOK, ScrTypeOK', NothingForgotten, [ScrNext]_scrVars PROVE NothingForgotten'
  <2>1. CASE UNCHANGED <<stale, dirty>>
    BY <1>2, <2>1 DEF NothingForgotten, CopiesAll
  <2>2. ASSUME NEW a \in Areas \cup {NoRect}, Redisplay(a) PROVE NothingForgotten'
    <3> DEFINE area == IF a.w = 0 /\ a.h = 0 THEN Full ELSE a
    <3>1. area \in Rects /\ dirty \in Rects
      BY <1>2, AreaIs DEF ScrTypeOK
    <3>2. stale' = stale \cup Offsets(area) /\ dirty' = (IF dirty = NoRect THEN area ELSE UnionRect(dirty, area))
      BY <2>2 DEF Redisplay
    <3> HIDE DEF area
    <3>3. CASE dirty = NoRect
      <4>1. ~ CopiesAll
        <5>1. dirty.w = 0
          BY <3>3, RIs DEF NoRect
        <5> QED BY <5>1, SizesAre, SMT DEF CopiesAll
      <4>2. stale = {}
        BY <1>2, <3>3, <4>1, NothingInNoRect DEF NothingForgotten
      <4>3. stale' = Offsets(dirty)' /\ stale' \subseteq Screen
        BY <1>2, <3>2, <3>3, <4>2 DEF ScrTypeOK, Offsets
      <4> QED BY <4>3 DEF NothingForgotten
    <3>4. CASE dirty # NoRect
      <4>1. dirty' = UnionRect(dirty, area) /\ Offsets(dirty)' = Offsets(dirty')
        BY <3>2, <3>4 DEF Offsets, Screen
      <4>2. Offsets(dirty) \cup Offsets(area) \subseteq Offsets(dirty')
        BY <3>1, <4>1, UnionHasBoth
      <4>3. CASE CopiesAll
        <5>1. CopiesAll'
          <6>1. dirty.w <= dirty'.w /\ dirty.h <= dirty'.h /\ dirty' \in Rects
            BY <3>1, <4>1, UnionIs
          <6> QED BY <3>1, <4>3, <6>1, SizesAre, SMT DEF CopiesAll, Rects
        <5> QED BY <1>2, <5>1 DEF NothingForgotten, ScrTypeOK
      <4>4. CASE ~ CopiesAll
        <5>1. stale' \subseteq Offsets(dirty')
          BY <1>2, <3>2, <4>2, <4>4 DEF NothingForgotten
        <5> QED BY <1>2, <4>1, <5>1 DEF NothingForgotten, ScrTypeOK
      <4> QED BY <4>3, <4>4
    <3> QED BY <3>3, <3>4
  <2>3. CASE Swap
    <3>1. stale \subseteq Copied
      BY <1>2, DirtyIsCopied DEF NothingForgotten, ScrTypeOK
    <3>2. stale' = {}
      BY <2>3, <3>1 DEF Swap
    <3> QED BY <3>2 DEF NothingForgotten
  <2> QED BY <1>2, <2>1, <2>2, <2>3 DEF ScrNext, MoveMouse, SetBand, scrVars
<1> QED BY <1>1, <1>2, ScrTypesHold, PTL DEF ScrSpec

\* One cursor is on the screen, where the next swap takes it away; pixels of it are
\* left behind only by copies over the left or right edge, until the whole screen is
\* copied.
THEOREM OneCursorIsShown == ScrSpec => OneCursor
<1>1. ScrInit => Strays = {}
  BY NoCross DEF ScrInit, Strays, SymDiff
<1>2. ASSUME ScrTypeOK, [ScrNext]_scrVars
      PROVE  /\ Strays' \subseteq
                    Strays \cup (IF InColumns(dirty) THEN {} ELSE Cross(prev) \cap Copied)
             /\ Swap /\ CopiesAll => Strays' = {}
  <2>1. CASE Swap
    <3> DEFINE old == IF CopiesAll \/ TakesCursor THEN Nowhere ELSE prev
    <3>1. /\ curInv' = SymDiff(SymDiff(curInv \ Copied, Cross(old)), Cross(mouse))
          /\ prev' = mouse
      BY <2>1 DEF Swap
    <3>2. Strays' = SymDiff(curInv', Cross(mouse))
      BY <3>1 DEF Strays, Cross
    <3>3. Strays' = SymDiff(curInv \ Copied, Cross(old))
      BY <3>1, <3>2 DEF SymDiff
    <3>4. CASE CopiesAll
      <4>1. curInv \ Copied = {} /\ Cross(old) = {}
        BY <1>2, <3>4, DirtyIsCopied, NoCross DEF ScrTypeOK
      <4> QED BY <3>3, <4>1 DEF SymDiff
    <3>5. CASE TakesCursor
      <4>1. prev \in Points /\ prev # Nowhere /\ ~ CopiesAll
        BY <1>2, <3>5 DEF TakesCursor, ScrTypeOK
      <4>2. Cross(prev) \subseteq Copied
        BY <1>2, <3>5, <4>1, CrossInBox, DirtyIsCopied DEF Points
      <4>3. Strays' = curInv \ Copied
        BY <3>3, <3>5, NoCross DEF SymDiff
      <4> QED BY <4>1, <4>2, <4>3 DEF Strays, SymDiff
    <3>6. CASE ~ CopiesAll /\ ~ TakesCursor
      <4>1. Strays' = SymDiff(curInv \ Copied, Cross(prev))
        BY <3>3, <3>6
      <4>2. InColumns(dirty) => Cross(prev) \cap Copied = {}
        <5>1. CASE prev = Nowhere
          BY <5>1, NoCross
        <5>2. CASE dirty = NoRect
          BY <3>6, <5>2, NothingInNoRect DEF Copied
        <5>3. CASE prev # Nowhere /\ dirty # NoRect
          <6>1. ~ Meets(dirty, CursorBox(prev)) /\ Copied = Offsets(dirty)
            BY <3>6, <5>3 DEF TakesCursor, Copied
          <6>2. prev \in (0 .. W - 1) \X (0 .. H - 1) /\ dirty \in Rects
            BY <1>2, <5>3 DEF ScrTypeOK, Points
          <6> QED BY <5>3, <6>1, <6>2, ApartFromCross
        <5> QED BY <5>1, <5>2, <5>3
      <4> QED BY <3>6, <4>1, <4>2 DEF Strays, SymDiff
    <3> QED BY <3>4, <3>5, <3>6
  <2>2. CASE UNCHANGED <<curInv, prev>> /\ ~ Swap
    BY <2>2 DEF Strays, Cross
  <2>3. CASE UNCHANGED <<curInv, prev>> /\ Swap
    BY <2>1, <2>3
  <2> QED BY <1>2, <2>1, <2>2, <2>3 DEF ScrNext, Redisplay, MoveMouse, SetBand, scrVars
<1> QED BY <1>1, <1>2, ScrTypesHold, PTL DEF ScrSpec, OneCursor

\* A band leaves pixels behind only where a copy cut into it, and a copy of the whole
\* screen without a band removes them.
THEOREM BandLeavesResidue == ScrSpec => BandResidue
<1>1. ASSUME ScrTypeOK, [ScrNext]_scrVars
      PROVE  /\ Residue' \subseteq Residue \cup (Outline(prevRband) \cap Copied)
             /\ Swap /\ CopiesAll /\ Outline(prevRband) = {} => Residue' = {}
  <2>1. CASE Swap
    <3>1. Residue' = SymDiff(SymDiff(SymDiff(bandInv \ Copied, Outline(prevRband)), Outline(rband)), Outline(rband))
      BY <2>1 DEF Residue, Swap, BandAfter, Outline, Fixed
    <3>2. Residue' = SymDiff(bandInv \ Copied, Outline(prevRband))
      BY <3>1 DEF SymDiff
    <3>3. Residue' \subseteq Residue \cup (Outline(prevRband) \cap Copied)
      BY <3>2 DEF SymDiff, Residue
    <3>4. CopiesAll => bandInv \ Copied = {}
      BY <1>1, DirtyIsCopied DEF ScrTypeOK
    <3> QED BY <3>2, <3>3, <3>4 DEF SymDiff
  <2>2. CASE UNCHANGED <<bandInv, prevRband>> /\ ~ Swap
    BY <2>2 DEF Residue, Outline, Fixed
  <2>3. CASE UNCHANGED <<bandInv, prevRband>> /\ Swap
    BY <2>1, <2>3
  <2> QED BY <1>1, <2>1, <2>2, <2>3 DEF ScrNext, Redisplay, MoveMouse, SetBand, scrVars
<1> QED BY <1>1, ScrTypesHold, PTL DEF ScrSpec, BandResidue
=============================================================================
