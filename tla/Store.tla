------------------------------- MODULE Store -------------------------------
(***************************************************************************)
(* The database of the bridge (internal/storage): the value-level meaning  *)
(* of the statements of sqlite.go, shared by every module that has a       *)
(* table.  A table is a function whose domain is the set of primary keys   *)
(* that have a row.  OpenSQLite allows one connection, so each statement   *)
(* (and the select-then-update transaction that consumes a code) is one    *)
(* atomic step of the modules that use these operators.                    *)
(*                                                                         *)
(* Clocks: handlers read s.now() with sub-second precision, while every    *)
(* stored time is truncated to a whole second by Unix().  A model tick is  *)
(* 1/Second of a second.                                                   *)
(*                                                                         *)
(* Here and in the other modules a definition whose name ends in _Something*)
(* and whose comment says "Fault" is a mistake the code does not make: it  *)
(* is used by no other definition, and replaces the one after it to show   *)
(* that a property notices the difference.                                 *)
(***************************************************************************)
EXTENDS Integers

CONSTANT Second     \* clock ticks in one second

ASSUME SecondAssumption == Second \in Nat \ {0}

(***************************************************************************)
(* Times.                                                                  *)
(***************************************************************************)
Unix(t) == t \div Second

\* Fault: the expiry is rounded up to the next second.
ExpiresAt_RoundsUp(t, ttl) == Unix(t + ttl + Second - 1)

\* Fault: the lifetime is subtracted.
ExpiresAt_Backwards(t, ttl) == Unix(t - ttl)

\* The expires_at column of a row written with clock reading t.
ExpiresAt(t, ttl) == Unix(t + ttl)

\* now.Before(rec.ExpiresAt): codes, tokens and consent requests.
Live(t, row) == t < row.expiresAt * Second

\* !time.Now().After(ar.ExpiresAt): auth requests, live at the very instant.
AuthRequestLive(t, row) == t <= row.expiresAt * Second

(***************************************************************************)
(* Tables and statements.                                                  *)
(***************************************************************************)
IsTable(table, Keys, Rows) ==
    DOMAIN table \subseteq Keys /\ table \in [DOMAIN table -> Rows]

Insert(table, key, row) ==
    [k \in DOMAIN table \cup {key} |-> IF k = key THEN row ELSE table[k]]

Delete(table, keys) == [k \in DOMAIN table \ keys |-> table[k]]

\* Fault: rows of the coming second go too.
PastCutoff_TooEarly(cutoff, row) == row.expiresAt <= cutoff + 1

\* The conditions Cleanup deletes by: expires_at <= cutoff, and for codes
\* OR used_at IS NOT NULL.
PastCutoff(cutoff, row) == row.expiresAt <= cutoff

\* Fault: used codes are kept.
DeadCode_ExpiredOnly(cutoff, row) == PastCutoff(cutoff, row)

DeadCode(cutoff, row) == PastCutoff(cutoff, row) \/ row.used
=============================================================================
