------------------------------ MODULE Keyboard ------------------------------
(***************************************************************************)
(* The keyboard driver of device/keyboard.c: intr_keyboard_handler takes   *)
(* one byte of a scan code per interrupt and keeps in five flags what it   *)
(* must remember for the next one.  Around it stand the keys themselves:   *)
(* a key that goes down, repeats or comes up puts its bytes on the wire,   *)
(* and the handler gets them later, one by one.                            *)
(*                                                                         *)
(* A key is named by its make code; extended keys have the prefix 16#E0    *)
(* in the high byte.  A character is its cell of keymap[][2], or the       *)
(* control character that Ctrl makes of it.  The names Kbd... of the       *)
(* specification let one module of proofs extend both drivers of device/.  *)
(***************************************************************************)
EXTENDS Integers, Sequences

CONSTANTS
    Keys,       \* the keys of the keyboard, by make code
    Padded,     \* keys sent with a "fake shift" (arrows with Num Lock on)
    Repeating,  \* keys that send their make code again while they are held
    MaxWire,    \* bound: bytes on the wire
    BufSize     \* characters kbd_buf holds

E0 == 224
Extended == 57344       \* 16#E000
ctrl_l_make == 29
shift_l_make == 42
shift_r_make == 54
alt_l_make == 56
caps_lock_make == 58
ctrl_r_make == Extended + 29
alt_r_make == Extended + 56

ASSUME KeyboardAssumption ==
    /\ Keys \subseteq (1..127) \cup (Extended + 1 .. Extended + 127)
    /\ Keys \cap {96, Extended + 96} = {}    \* no break code is the prefix
    /\ Padded \subseteq {k \in Keys : k > Extended}
    /\ Repeating \subseteq Keys
    /\ MaxWire \in Nat /\ BufSize \in Nat

VARIABLES
    down,       \* the keys that are held
    caps,       \* Caps Lock was pressed an odd number of times
    wire,       \* bytes not yet taken, each with the character its key meant
    ctrl_status, shift_status, alt_status, caps_lock_status, ext_scancode,
    kbd_buf,    \* how many characters kbd_buf holds
    last        \* the last make code: the character meant, the one stored

flags == <<ctrl_status, shift_status, alt_status, caps_lock_status>>
kbd_vars == <<down, caps, wire, flags, ext_scancode, kbd_buf, last>>

-----------------------------------------------------------------------------
(* The keyboard.                                                           *)

Shifts == {shift_l_make, shift_r_make}
Ctrls == {ctrl_l_make, ctrl_r_make}
Alts == {alt_l_make, alt_r_make}
NoChar == <<>>
Dropped == <<"dropped">>

\* The keys that carry two signs, the others of keymap being letters.
TwoSigns == (1..13) \cup {41, 26, 27, 43, 39, 40, 51, 52, 53}

\* keymap[index][shift]: the modifiers' cells are zero.
keymap(index, shift) ==
    IF index \in {ctrl_l_make, shift_l_make, shift_r_make, alt_l_make,
                  caps_lock_make}
    THEN NoChar ELSE <<index, shift>>

\* Ctrl with a small l (16#26) or u (16#16) is a character of its own.
WithCtrl(ch, ctrl) ==
    IF ctrl /\ ch \in {<<38, FALSE>>, <<22, FALSE>>}
    THEN <<"ctrl", ch[1]>> ELSE ch

\* What the user means by key k, given the keys held and Caps Lock; keymap ends
\* with Caps Lock.
Meant(k) ==
    LET held == down \cap Shifts # {}
    IN  IF k > caps_lock_make THEN NoChar
        ELSE WithCtrl(keymap(k, IF k \in TwoSigns THEN held ELSE held # caps),
                      down \cap Ctrls # {})

Bytes(k, up) ==
    IF k < Extended THEN <<k + up>> ELSE <<E0, k - Extended + up>>

MakeBytes(k) ==
    IF k \in Padded THEN Bytes(Extended + shift_l_make, 0) \o Bytes(k, 0)
                    ELSE Bytes(k, 0)
BreakBytes(k) ==
    IF k \in Padded THEN Bytes(k, 128) \o Bytes(Extended + shift_l_make, 128)
                    ELSE Bytes(k, 128)

\* The last byte of a make code carries the character that is meant.
Send(bytes, ch) ==
    /\ Len(wire) + Len(bytes) <= MaxWire
    /\ wire' = wire \o [i \in 1..Len(bytes) |->
                          [byte |-> bytes[i],
                           meant |-> IF i = Len(bytes) THEN ch ELSE NoChar]]

Press(k) ==
    /\ k \notin down
    /\ down' = down \cup {k}
    /\ caps' = (caps # (k = caps_lock_make))
    /\ Send(MakeBytes(k), Meant(k))
    /\ UNCHANGED <<flags, ext_scancode, kbd_buf, last>>

Repeat(k) ==
    /\ k \in down \cap Repeating
    /\ Send(MakeBytes(k), Meant(k))
    /\ UNCHANGED <<down, caps, flags, ext_scancode, kbd_buf, last>>

LetGo(k) ==
    /\ k \in down
    /\ down' = down \ {k}
    /\ Send(BreakBytes(k), NoChar)
    /\ UNCHANGED <<caps, flags, ext_scancode, kbd_buf, last>>

-----------------------------------------------------------------------------
(* The driver.                                                             *)

\* The two bytes of an extended scan code are joined.
Joined(byte) == IF ext_scancode THEN Extended + byte ELSE byte

\* A modifier that comes up is no longer in effect.
Break(make_code) ==
    /\ ctrl_status' = (ctrl_status /\ make_code \notin Ctrls)
    /\ shift_status' = (shift_status /\ make_code \notin Shifts)
    /\ alt_status' = (alt_status /\ make_code \notin Alts)
    /\ UNCHANGED <<caps_lock_status, kbd_buf, last>>

\* The codes below 16#3B, right Alt and right Ctrl are handled.
Known(scancode) == scancode \in (1..58) \cup {alt_r_make, ctrl_r_make}

\* Mutant: Caps Lock works on keys with two signs, too.
Column_CapsSigns(scancode) == shift_status # caps_lock_status

\* Which column of keymap a key takes.
Column(scancode) ==
    IF scancode \in TwoSigns THEN shift_status
                             ELSE shift_status # caps_lock_status

\* A character goes to kbd_buf unless that is full.
PutKey(ch, meant) ==
    /\ last' = <<meant, IF kbd_buf < BufSize THEN ch ELSE Dropped>>
    /\ kbd_buf' = IF kbd_buf < BufSize THEN kbd_buf + 1 ELSE kbd_buf
    /\ UNCHANGED flags

\* A modifier, whose character is zero, takes effect for the next key.
SetStatus(make_code, meant) ==
    /\ ctrl_status' = (ctrl_status \/ make_code \in Ctrls)
    /\ shift_status' = (shift_status \/ make_code \in Shifts)
    /\ alt_status' = (alt_status \/ make_code \in Alts)
    /\ caps_lock_status' = (caps_lock_status # (make_code = caps_lock_make))
    /\ last' = <<meant, NoChar>>
    /\ UNCHANGED kbd_buf

Make(scancode, meant) ==
    LET index == scancode % 256
        ch == WithCtrl(keymap(index, Column(scancode)), ctrl_status)
    IN  \/ /\ Known(scancode) /\ ch # NoChar
           /\ PutKey(ch, meant)
        \/ /\ Known(scancode) /\ ch = NoChar
           /\ SetStatus(index, meant)
        \/ /\ ~Known(scancode)
           /\ last' = <<meant, NoChar>>
           /\ UNCHANGED <<flags, kbd_buf>>

intr_keyboard_handler ==
    /\ wire # <<>>
    /\ wire' = Tail(wire)
    /\ LET byte == Head(wire).byte
           scancode == Joined(byte)
       IN  IF byte = E0
           THEN /\ ext_scancode' = TRUE
                /\ UNCHANGED <<flags, kbd_buf, last>>
           ELSE /\ ext_scancode' = FALSE
                /\ IF byte >= 128 THEN Break(scancode - 128)
                                  ELSE Make(scancode, Head(wire).meant)
    /\ UNCHANGED <<down, caps>>

\* ioq_getchar(&kbd_buf) by the shell.
ReadKey ==
    /\ kbd_buf > 0
    /\ kbd_buf' = kbd_buf - 1
    /\ UNCHANGED <<down, caps, wire, flags, ext_scancode, last>>

KbdInit ==
    /\ down = {} /\ caps = FALSE /\ wire = <<>>
    /\ ctrl_status = FALSE /\ shift_status = FALSE /\ alt_status = FALSE
    /\ caps_lock_status = FALSE /\ ext_scancode = FALSE
    /\ kbd_buf = 0 /\ last = <<NoChar, NoChar>>

KbdNext ==
    \/ \E k \in Keys : Press(k) \/ Repeat(k) \/ LetGo(k)
    \/ intr_keyboard_handler
    \/ ReadKey

KbdSpec == KbdInit /\ [][KbdNext]_kbd_vars

-----------------------------------------------------------------------------
(* A handler that falls behind still stores the character that was meant   *)
(* when the key went down: the character the last make code put in kbd_buf *)
(* is the one the held modifiers and Caps Lock called for at that moment,  *)
(* and a key that means no character stores none.                          *)
CharAsMeant == last[2] \in {last[1], Dropped}

(* Once every byte has been handled, the flags say which modifiers are     *)
(* held ("record whether the key is pressed"): no modifier is stuck, and   *)
(* no prefix is left over to spoil the next key.                           *)
StatusIsHeld ==
    wire = <<>> =>
        /\ ctrl_status = (down \cap Ctrls # {})
        /\ shift_status = (down \cap Shifts # {})
        /\ alt_status = (down \cap Alts # {})
        /\ caps_lock_status = caps
        /\ ~ext_scancode
=============================================================================
