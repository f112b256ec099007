------------------------------ MODULE Question ------------------------------
(***************************************************************************)
(* The pure operators of the project are checked by asking them: a state    *)
(* holds one question, its topic and the arguments, and the invariants      *)
(* compare the answer with a reference definition.                          *)
(***************************************************************************)
CONSTANTS
    Unknown,    \* no value
    Whole       \* one, where shares and costs are counted in parts

VARIABLES topic, q, answer

question == <<topic, q, answer>>

\* Nothing was asked yet.
NoQuestion == topic = "none" /\ q = Unknown /\ answer = Unknown

Asks(t, x, a) ==
    /\ topic = "none"
    /\ topic' = t /\ q' = x /\ answer' = a
=============================================================================
