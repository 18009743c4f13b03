------------------------- MODULE MCManagedProfiles -------------------------
(***************************************************************************)
(* Instances of ManagedProfiles for TLC.                                   *)
(***************************************************************************)
EXTENDS ManagedProfiles, TLC

CONSTANTS ann, bea

MCUserPrefix == <<"u", "-">>
MCReserved == {<<"r">>}
MCSuffix == [u \in Users |-> IF u = ann THEN <<"1">> ELSE <<"2">>]

Claim(candidates, name) == [candidates |-> candidates, name |-> name]

\* A name that is cut at the end and, for the suffix, at a dash; the handle that ann
\* gets when it is taken; nothing usable, and then a reserved handle.
Long == <<"a", "b", " ", "b", "b", "b">>
Taken == <<"a", "b", "-", "1">>
Odd == <<<<"-", "!">>, <<"!", "r", " ">>>>

MCClaims ==
    {Claim(<<Long>>, "old"), Claim(<<Long>>, "new"), Claim(<<Taken>>, "old"), Claim(Odd, "new")}

OldClaims == {c \in MCClaims : c.candidates = <<Long>> /\ c.name = "old"}
LongClaims == {c \in MCClaims : c.candidates = <<Long>>}

Symmetry == Permutations(Visits)
=============================================================================
