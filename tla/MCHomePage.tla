----------------------------- MODULE MCHomePage -----------------------------
(* Small instances of HomePage for TLC. *)
EXTENDS HomePage

CONSTANTS lyon, word

\* Two events that start at the same time.
TwoEvents == <<
    [start |-> 1, end |-> 1, city |-> lyon, contains |-> {word}, at |-> 10],
    [start |-> 1, end |-> 2, city |-> lyon, contains |-> {}, at |-> 2]>>

CityPrefixes == {<<lyon, lyon>>}

FirstDay == {[start |-> 1, end |-> 1]}

OneOrBoth == {<<"OPEN", "OPEN">>, <<"absent", "OPEN">>}

LyonAtTen == [c \in {lyon} |-> 10]
=============================================================================
