----------------------------- MODULE MCSidecars -----------------------------
(* Two notes, whose field holds numbers and texts, and a tag.  The integer  *)
(* is one that a float would round.                                         *)
EXTENDS Sidecars, TLC

Yes == [kind |-> "bool", n |-> 1]
Big == [kind |-> "int", n |-> 3]
Half == [kind |-> "float", n |-> 2]
Word == [kind |-> "str", n |-> 1]
Line == [kind |-> "str", n |-> 2]

MCTypeOf == 1 :> "Note" @@ 2 :> "Note" @@ 3 :> "Tag"
MCBatches == {
    1 :> Word @@ 2 :> Line,
    1 :> Big @@ 3 :> Yes,
    2 :> Half @@ 3 :> Deleted }
=============================================================================
