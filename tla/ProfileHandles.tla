--------------------------- MODULE ProfileHandles ---------------------------
(***************************************************************************)
(* How internal/http/managed_profiles.go makes a profile's handle from     *)
(* what the provider says of a user: normalizeManagedHandle,               *)
(* desiredManagedHandle and the suffix after a conflict.                   *)
(*                                                                         *)
(* A name or handle is a sequence of characters.  Letters have one case.   *)
(***************************************************************************)
EXTENDS Integers, Sequences, FiniteSetsExt

CONSTANTS
    Plain, Separators,  \* characters of handles: a-z 0-9, and . _ -
    Blanks,             \* spaces, and letters and digits of other alphabets
    Others,             \* all other characters
    Dash,
    MaxLength,          \* managedHandleMaxLength
    UserPrefix,         \* "user-"
    Reserved,           \* reservedManagedHandles
    Suffix              \* of each user: the hash of issuer and subject

Kept == Plain \cup Separators

ASSUME CharacterAssumption ==
    /\ Plain \cap Separators = {} /\ Kept \cap (Blanks \cup Others) = {} /\ Blanks \cap Others = {}
    /\ Dash \in Separators

\* The prefix begins with a letter, and a suffix is a number in hexadecimal.
ASSUME AffixAssumption ==
    /\ UserPrefix \in Seq(Kept) \ {<<>>} /\ UserPrefix[1] \in Plain
    /\ \A u \in DOMAIN Suffix : Suffix[u] \in Seq(Plain) \ {<<>>}

\* The prefix goes before a reserved handle or a suffix, a suffix after at least one
\* character and a dash: with 32 characters there is room for either.
ASSUME LengthAssumption ==
    /\ MaxLength \in Nat
    /\ \A w \in Reserved : Len(UserPrefix) + Len(w) <= MaxLength
    /\ \A u \in DOMAIN Suffix : /\ Len(UserPrefix) + Len(Suffix[u]) <= MaxLength
                                /\ Len(Suffix[u]) + 2 <= MaxLength

\* Where a name has something other than a separator.
Solid(w) == {i \in DOMAIN w : w[i] \notin Separators}

\* strings.TrimRight and strings.Trim of the separators.
TrimRight(w) == SubSeq(w, 1, Max(Solid(w) \cup {0}))

Trim(w) == IF Solid(w) = {} THEN <<>> ELSE SubSeq(w, Min(Solid(w)), Max(Solid(w)))

\* A blank becomes a dash, but not at the start or after a separator; any other
\* character is dropped, and so is all that comes after MaxLength characters.
Write(acc, c) ==
    LET full == Len(acc.out) >= MaxLength
    IN  IF c \in Kept
        THEN [out |-> IF full THEN acc.out ELSE Append(acc.out, c), sep |-> c \in Separators]
        ELSE IF c \in Blanks /\ ~acc.sep /\ acc.out # <<>> /\ ~full
        THEN [out |-> Append(acc.out, Dash), sep |-> TRUE]
        ELSE acc

\* What has been written after each character of w.
Writing(w) ==
    LET acc[i \in 0..Len(w)] ==
            IF i = 0 THEN [out |-> <<>>, sep |-> FALSE] ELSE Write(acc[i - 1], w[i])
    IN  acc

Normalize(w) == Trim(Writing(w)[Len(w)].out)

\* The first candidate of which anything remains: PreferredUsername, Username, Name.
DesiredHandle(candidates, u) ==
    LET usable == {i \in DOMAIN candidates : Normalize(candidates[i]) # <<>>}
    IN  IF usable = {} THEN UserPrefix \o Suffix[u]
        ELSE LET h == Normalize(candidates[Min(usable)])
             IN  IF h \in Reserved THEN UserPrefix \o h ELSE h

\* Fault: the handle is not shortened to make room.
SuffixedHandle_NotCut(h, u) == TrimRight(h) \o <<Dash>> \o Suffix[u]

SuffixedHandle(h, u) ==
    LET room == MaxLength - Len(Suffix[u]) - 1
    IN  TrimRight(SubSeq(h, 1, Min({Len(h), room}))) \o <<Dash>> \o Suffix[u]
=============================================================================
