--------------------------- MODULE MessageNumber ---------------------------
(***************************************************************************)
(* How the SendMessage dialog (ProcDialogs.cpp, IDOK) turns what the user  *)
(* typed into the numbers it sends.  A text is split into its prefix "0x"  *)
(* and the characters after it; a character is the digit it stands for, or *)
(* Other.  The widths of the two C types are constants.  Nothing changes   *)
(* here: what these functions return is proved in MessageDialogProofs.     *)
(***************************************************************************)
EXTENDS Integers, Sequences

CONSTANTS
  ULongMax,      \* the greatest unsigned long, what wcstoul can return
  ULongLongMax   \* the greatest unsigned long long, for wcstoull

ASSUME WidthAssumption ==
  ULongMax \in Nat \ {0} /\ ULongLongMax \in Nat /\ ULongMax <= ULongLongMax

Other == 99
Character == 0..15 \cup {Other}

Text == [hex : BOOLEAN, characters : Seq(Character)]

Base(t) == IF t.hex THEN 16 ELSE 10

Least(a, b) == IF a <= b THEN a ELSE b

\* How many digits of a base the characters begin with.
Digits(characters, base) ==
  CHOOSE k \in 0..Len(characters) :
    /\ \A i \in 1..k : characters[i] < base
    /\ k < Len(characters) => characters[k + 1] >= base

\* wcstoul and wcstoull: the value of the digits the text begins with, or the
\* greatest value of the type as soon as it does not fit.
Wcsto(characters, base, max) ==
  LET value[k \in 0..Len(characters)] ==
        IF k = 0 THEN 0 ELSE Least(value[k - 1] * base + characters[k], max)
  IN  value[Digits(characters, base)]

\* The message number; a name is looked up instead, see MessageDialog.
IsNumber(t) == t.hex \/ \A i \in 1..Len(t.characters) : t.characters[i] < 10
Message(t) == Wcsto(t.characters, Base(t), ULongMax)

\* A hexadecimal number that comes out as 0 is taken for a typing error unless
\* it is written as a single 0.
Refused(t) == t.hex /\ Message(t) = 0 /\ t.characters # <<0>>

WParam(t) == Wcsto(t.characters, Base(t), ULongMax)
LParam(t) == Wcsto(t.characters, Base(t), ULongLongMax)

-----------------------------------------------------------------------------

\* The powers of a base, up to the n-th.
Weights(base, n) ==
  LET weight[i \in 0..n] == IF i = 0 THEN 1 ELSE weight[i - 1] * base IN weight

\* The number a text denotes: the sum of its digits by their weights.
Written(t) ==
  LET n == Len(t.characters)
      sum[k \in 0..n] ==
        IF k = 0 THEN 0
        ELSE sum[k - 1] + t.characters[k] * Weights(Base(t), n)[n - k]
  IN  sum[n]

WellFormed(t) ==
  /\ t.characters # <<>>
  /\ \A i \in 1..Len(t.characters) : t.characters[i] < Base(t)

\* What the conversions give: the number written, cut down to the greatest value
\* of the type, and only spellings of zero refused.  A number that does not fit
\* is thus sent as another one: see the theorems of MessageDialogProofs.
NumbersAsWritten ==
  \A t \in Text :
    WellFormed(t) =>
      /\ IsNumber(t)
      /\ Refused(t) => Written(t) = 0
      /\ ~Refused(t) => Message(t) = Least(Written(t), ULongMax)
      /\ WParam(t) = Least(Written(t), ULongMax)
      /\ LParam(t) = Least(Written(t), ULongLongMax)

\* The number written is the one sent exactly when the type that is read holds
\* it: for WPARAM that is unsigned long too, though WPARAM is as wide as LPARAM
\* (ProcDialogs.cpp:191).
SentExactly ==
  \A t \in Text :
    WellFormed(t) =>
      /\ Message(t) = Written(t) <=> Written(t) <= ULongMax
      /\ WParam(t) = Written(t) <=> Written(t) <= ULongMax
      /\ LParam(t) = Written(t) <=> Written(t) <= ULongLongMax

\* A message number 0 is refused whenever it is written in hexadecimal with more
\* than the one digit (ProcDialogs.cpp:167), as in 0x00.
ZeroRefused ==
  \A t \in Text :
    WellFormed(t) =>
      (Refused(t) <=> t.hex /\ Written(t) = 0 /\ t.characters # <<0>>)
=============================================================================
