---------------------------- MODULE MCRunControl -----------------------------
EXTENDS RunControl

MCLayer == [s \in 1 .. N |-> s]
MCAction == [c \in Controls |->
    CASE c = "p" -> "pause" [] c = "t" -> "terminate" [] OTHER -> "cancel_stage"]
MCTarget == [c \in Controls |-> 1]
=============================================================================
