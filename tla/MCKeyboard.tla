----------------------------- MODULE MCKeyboard -----------------------------
(***************************************************************************)
(* Keys of every kind: a letter Ctrl changes (l), a key with two signs     *)
(* (1), a plain and an extended modifier, Caps Lock, and an arrow that     *)
(* comes with a fake shift.                                                *)
(***************************************************************************)
EXTENDS Keyboard

Up == Extended + 72
OneEach == {shift_l_make, ctrl_r_make, caps_lock_make, 38, 2, Up}
\* Keys for the two disagreements the README lists for the keyboard
TwoShifts == {shift_l_make, shift_r_make, 2}
Caps == {caps_lock_make, 38}

Arrow == {Up}
Held == {shift_l_make, 38}
=============================================================================
