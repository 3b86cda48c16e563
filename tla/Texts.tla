------------------------------- MODULE Texts -------------------------------
(***************************************************************************)
(* Texts that the code reads numbers from: fields of the configuration,    *)
(* answers of the sidecar.  A text is a number, a number with spaces       *)
(* around it, no number, or nothing.                                       *)
(***************************************************************************)
EXTENDS Integers

Texts == [form : {"plain", "spaced", "word", "empty"}, n : Int]

Plain(k) == [form |-> "plain", n |-> k]
Spaced(k) == [form |-> "spaced", n |-> k]
Word == [form |-> "word", n |-> 0]
NoText == [form |-> "empty", n |-> 0]

\* The empty string: a field that is left out.
Blank == ""

\* SetString of math/big reads t as t.n in the base 10.  It takes no space.
SetString(t) == t.form = "plain"

\* TrimSpace of strings.
TrimSpace(t) == IF t.form = "spaced" THEN Plain(t.n) ELSE t
=============================================================================
