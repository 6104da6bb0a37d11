------------------------------ MODULE KbdRing -------------------------------
(***************************************************************************)
(* The keyboard driver of the DOS build (sys_dos/keyb.c): an interrupt     *)
(* handler that decodes the bytes of the keyboard, tracks which keys are   *)
(* down and appends presses to a ring of BufSize slots, and kb_getkey,     *)
(* with which the main loop (sys_dos/main.c) empties the ring.             *)
(*                                                                         *)
(* The interrupt handler runs to its end; kb_getkey can be interrupted     *)
(* between its accesses to buf_ridx.  buf_ridx is neither volatile nor     *)
(* guarded, so the compiler is free to read it once or again at every use: *)
(* each use below takes the value read before or the current one.          *)
(*                                                                         *)
(* The driver knows a key by the name that its tables give to a scan code, *)
(* and some codes have the same name: 0x4a and, after a prefix, 0x35 (the  *)
(* minus and the slash of the keypad) are both KEY_NUM_MINUS.  So a switch *)
(* of the keyboard and the key it stands for are two things here.          *)
(*                                                                         *)
(* What a shifted key is called is left out, and so are the Pause key with *)
(* its code of six bytes, and kb_wait and kb_putback, which nothing calls. *)
(***************************************************************************)
EXTENDS Naturals, Sequences, FiniteSets

CONSTANTS
  BufSize,   \* BUFSIZE, a power of two
  Keys,      \* the keys that the driver knows (KEY_NUM_MINUS, ...)
  Codes,     \* scan codes of the keyboard, without a prefix ...
  ExtCodes,  \* ... and after an 0xe0
  Scantbl,   \* the key of each code,
  ScantblExt,\* and of each code after an 0xe0
  NoKey,
  MaxCount,  \* bound on num_pressed: how long a key may repeat
  Calm,      \* the two environments of kb_getkey: at most CalmBurst presses
  Rushed,    \* interrupt a call and none of them overflows the ring, or at
  CalmBurst, \* most RushedBurst do and any of them may
  RushedBurst

ASSUME KbdAssumption ==
  /\ BufSize \in Nat \ {0, 1}
  /\ \E n \in 1 .. BufSize : BufSize = 2 ^ n
  /\ NoKey \notin Keys
  /\ Codes \cup ExtCodes \subseteq (0 .. 127) \ {96}
  /\ Scantbl \in [Codes -> Keys]
  /\ ScantblExt \in [ExtCodes -> Keys]
  /\ MaxCount \in Nat
  /\ CalmBurst \in Nat /\ RushedBurst \in Nat
  /\ Calm # Rushed

Slots  == 0 .. BufSize - 1
Prefix == 224     \* 0xe0; the release of a code is code + 0x80
Switches == [code : Codes, ext : {FALSE}] \cup [code : ExtCodes, ext : {TRUE}]

VARIABLES
  buffer,     \* the ring
  ridx,       \* buf_ridx, the oldest key
  widx,       \* buf_widx, the next free slot
  keystate,   \* keys that the driver takes to be down
  numPressed, \* num_pressed
  ext,        \* the last byte was 0xe0
  held,       \* switches that are down
  latest,     \* history: keys of which the switch that moved last went down
  wire,       \* bytes of the keyboard that have not interrupted yet
  pc,         \* how far kb_getkey is: "idle", "tested" or "fetched"
  r,          \* its copy of buf_ridx
  last,       \* what it returned last
  burst,      \* presses that were stored during this call of kb_getkey
  due,        \* what the ring held when this call began, with the presses
              \* since then and without the ones dropped as the oldest
  env         \* which environment this behaviour has

ring     == <<buffer, ridx, widx>>
decoder  == <<keystate, numPressed, ext>>
keyboard == <<held, latest, wire>>
reader   == <<pc, r, last>>
counts   == <<burst, due, env>>
vars     == <<ring, decoder, keyboard, reader, counts>>

Burst == IF env = Calm THEN CalmBurst ELSE RushedBurst

-----------------------------------------------------------------------------
Advance(i) == (i + 1) % BufSize

\* The keys from slot i up to the write index.
Stored(i) == (widx + BufSize - i) % BufSize
KeysFrom(i) == [j \in 1 .. Stored(i) |-> buffer[(i + j - 1) % BufSize]]

\* What the keyboard sends when a switch goes down (again) or up.
Bytes(k, make) ==
  (IF k.ext THEN <<Prefix>> ELSE <<>>)
    \o <<IF make THEN k.code ELSE k.code + 128>>

\* The tables' name for a code.
KeyOf(code, extended) == IF extended THEN ScantblExt[code] ELSE Scantbl[code]

\* The key that a switch stands for.
Name(k) == KeyOf(k.code, k.ext)

-----------------------------------------------------------------------------
(* The user and the keyboard.                                              *)

\* A switch goes down.
KeyDown(k) ==
  /\ wire = <<>>
  /\ k \notin held
  /\ held' = held \cup {k}
  /\ latest' = latest \cup {Name(k)}
  /\ wire' = Bytes(k, TRUE)
  /\ UNCHANGED <<ring, decoder, reader, counts>>

\* One that is held sends its code again and again.
KeyRepeats(k) ==
  /\ wire = <<>>
  /\ k \in held
  /\ numPressed < MaxCount
  /\ latest' = latest \cup {Name(k)}
  /\ wire' = Bytes(k, TRUE)
  /\ UNCHANGED <<ring, decoder, held, reader, counts>>

KeyUp(k) ==
  /\ wire = <<>>
  /\ k \in held
  /\ held' = held \ {k}
  /\ latest' = latest \ {Name(k)}
  /\ wire' = Bytes(k, FALSE)
  /\ UNCHANGED <<ring, decoder, reader, counts>>

-----------------------------------------------------------------------------
(* The interrupt handler, kbintr.                                          *)

\* A key is stored when it goes down, not when it repeats.
Appends(key, make) == make /\ key \notin keystate

\* Mutant: a full ring becomes an empty one.
ReadAfter_Overrun(next) == ridx

\* Mutant: the handler drops one key too many.
ReadAfter_DropsTwo(next) == IF next = ridx THEN Advance(Advance(ridx)) ELSE ridx

\* The read index after the write index moved to next: it drops the oldest
\* key when the write index has caught up with it.
ReadAfter(next) == IF next = ridx THEN Advance(ridx) ELSE ridx

\* Mutant: the prefix is remembered for good.
ExtAfter_Sticky(byte) == ext \/ byte = Prefix

ExtAfter(byte) == byte = Prefix

Interrupt ==
  /\ wire # <<>>
  /\ LET byte == Head(wire) IN
     /\ wire' = Tail(wire)
     /\ ext' = ExtAfter(byte)
     /\ IF byte = Prefix THEN UNCHANGED <<ring, keystate, numPressed, counts>>
        ELSE LET make == byte < 128
                 key  == KeyOf(byte % 128, ext) IN
          /\ numPressed' = IF make THEN numPressed + 1
                           ELSE IF numPressed > 0 THEN numPressed - 1 ELSE 0
          /\ keystate' = IF make THEN keystate \cup {key} ELSE keystate \ {key}
          /\ IF Appends(key, make)
               THEN /\ \/ pc = "idle"
                       \/ burst < Burst /\ (env = Rushed \/ Advance(widx) # ridx)
                    /\ burst' = IF pc = "idle" THEN 0 ELSE burst + 1
                    /\ buffer' = [buffer EXCEPT ![widx] = key]
                    /\ widx' = Advance(widx)
                    /\ ridx' = ReadAfter(Advance(widx))
                    /\ due' = IF pc = "idle" \/ Advance(widx) = ridx THEN due ELSE due + 1
                    /\ UNCHANGED env
               ELSE UNCHANGED <<ring, counts>>
  /\ UNCHANGED <<held, latest, reader>>

-----------------------------------------------------------------------------
(* kb_getkey.  It returns -1 at once when the ring is empty.               *)

GetKeyTest ==
  /\ pc = "idle"
  /\ ridx # widx
  /\ r' = ridx
  /\ pc' = "tested"
  /\ due' = Stored(ridx)
  /\ UNCHANGED <<ring, decoder, keyboard, last, burst, env>>

GetKeyFetch ==
  /\ pc = "tested"
  /\ r' \in {r, ridx}
  /\ last' = buffer[r']
  /\ pc' = "fetched"
  /\ UNCHANGED <<ring, decoder, keyboard, counts>>

GetKeyStore ==
  /\ pc = "fetched"
  /\ \E i \in {r, ridx} : ridx' = Advance(i)
  /\ r' = 0
  /\ burst' = 0 /\ due' = 0
  /\ pc' = "idle"
  /\ UNCHANGED <<buffer, widx, decoder, keyboard, last, env>>

-----------------------------------------------------------------------------
Init ==
  /\ buffer = [i \in Slots |-> NoKey]
  /\ ridx = 0 /\ widx = 0
  /\ keystate = {} /\ numPressed = 0 /\ ext = FALSE
  /\ held = {} /\ latest = {} /\ wire = <<>>
  /\ pc = "idle" /\ r = 0 /\ last = NoKey
  /\ burst = 0 /\ due = 0
  /\ env \in {Calm, Rushed}

GetKey == GetKeyTest \/ GetKeyFetch \/ GetKeyStore

Next ==
  \/ \E k \in Switches : KeyDown(k) \/ KeyRepeats(k) \/ KeyUp(k)
  \/ Interrupt
  \/ GetKey

\* The main loop calls kb_getkey in every round until it returns -1.
Spec == Init /\ [][Next]_vars /\ WF_vars(GetKey)

-----------------------------------------------------------------------------
(* Properties.                                                             *)

\* Indices stay in the ring, and the driver's variables keep their types.
TypeOK ==
  /\ buffer \in [Slots -> Keys \cup {NoKey}]
  /\ ridx \in Slots /\ widx \in Slots /\ r \in Slots
  /\ keystate \subseteq Keys /\ held \subseteq Switches /\ latest \subseteq Keys
  /\ numPressed \in Nat
  /\ ext \in BOOLEAN
  /\ pc \in {"idle", "tested", "fetched"}
  /\ last \in Keys \cup {NoKey}
  /\ burst \in 0 .. Burst /\ due \in 0 .. BufSize + Burst
  /\ env \in {Calm, Rushed}

\* When the keyboard has said all it had to say, the driver knows what the
\* switches of each key did last, extended ones and their namesakes kept apart,
\* and takes no key to be down of which no switch is: Ctrl and Shift of every
\* mouse and key event depend on it.  (A key with two switches is forgotten
\* when one of them is released while the other is held.)
KnowsWhatIsDown ==
  wire = <<>> =>
    /\ keystate = latest /\ ~ ext
    /\ \A s \in keystate : \E k \in held : Name(k) = s

\* In the calm environment the ring is the queue of presses: nothing is taken
\* twice or out of order, only the oldest are lost, and only when it is full.
\* (In the other one nothing is claimed: the queue stays as it began.)
Abs == INSTANCE KeyQueue WITH
         Capacity <- BufSize - 1,
         queue <- IF env = Rushed THEN <<>>
                  ELSE KeysFrom(IF pc = "fetched" THEN Advance(ridx) ELSE ridx),
         got <- IF env = Rushed THEN NoKey ELSE last
ImplementsQueue == Abs!QSpec

\* Even if a press overflows the ring in the middle of kb_getkey, the call
\* throws away no key but the one it returns and those the handler dropped.
OnlyDropsAreLost == [][GetKeyStore => Stored(ridx)' >= due - 1]_vars
=============================================================================
