---------------------------- MODULE MCTestClient ----------------------------
(***************************************************************************)
(* Instances of TestClient for TLC.                                        *)
(***************************************************************************)
EXTENDS TestClient, TLC

CONSTANTS home, away

Full   == [issuer |-> home, authorization |-> home, token |-> home]
Legacy == [issuer |-> home, authorization |-> home, token |-> NoServer]

MCDocuments == {Full, Legacy}

\* A modern page, one that kept the links of another server beside its metadata,
\* one with links only, and one that advertises nothing.
MCPages ==
    {[metadata |-> Full, authorization |-> NoServer, token |-> NoServer],
     [metadata |-> Legacy, authorization |-> away, token |-> away],
     [metadata |-> NoDocument, authorization |-> away, token |-> away],
     [metadata |-> NoDocument, authorization |-> NoServer, token |-> away]}

Symmetry == Permutations(Tests) \cup Permutations(Callbacks) \cup Permutations(Codes)
=============================================================================
