-------------------------------- MODULE Atoi --------------------------------
(***************************************************************************)
(* atoi of src/utils/atoi.c: the digits of a text are added from the last  *)
(* to the first, in C ints that wrap (the code is built without            *)
(* optimisation, which makes wrapping the outcome of the overflow).        *)
(***************************************************************************)
EXTENDS CInts, Sequences, SequencesExt

CONSTANTS Texts,      \* sequences of digits and of Other
          Other       \* a character that is not a digit

ASSUME AtoiAssumption == /\ Texts \subseteq Seq(0 .. 9 \cup {Other})
                         /\ Other \notin Int

VARIABLES text, i, sum, times,
          result      \* Other until atoi has returned

atoiVars == <<text, i, sum, times, result>>

Digits == 0 .. 9

AtoiInit == /\ text \in Texts
            /\ i = 0
            /\ sum = 0
            /\ times = 1
            /\ result = Other

Running == result = Other /\ i < Len(text)

LastButI == text[Len(text) - i]

Bug_TimesFirst ==
    /\ Running
    /\ LastButI \in Digits
    /\ times' = CInt(times * 10)
    /\ sum' = CInt(sum + times' * LastButI)
    /\ i' = i + 1
    /\ UNCHANGED <<text, result>>

AddDigit == /\ Running
            /\ LastButI \in Digits
            /\ sum' = CInt(sum + times * LastButI)
            /\ times' = CInt(times * 10)
            /\ i' = i + 1
            /\ UNCHANGED <<text, result>>

\* The loop breaks, and the sum so far is not used; or it has come to the end.
Return == /\ result = Other
          /\ \/ /\ Running
                /\ LastButI \notin Digits
                /\ result' = 0
             \/ /\ ~Running
                /\ result' = sum
          /\ UNCHANGED <<text, i, sum, times>>

AtoiNext == AddDigit \/ Return

AtoiSpec == AtoiInit /\ [][AtoiNext]_atoiVars

\* The value of a text of digits read from the left.
Value(s) ==
    LET UpTo[n \in 0 .. Len(s)] == IF n = 0 THEN 0 ELSE 10 * UpTo[n - 1] + s[n]
    IN  UpTo[Len(s)]

(* The result is the value of the text, wrapped like an int: in particular *)
(* the value itself whenever it fits, although the place value has then    *)
(* often overflowed already.  A text with any other character is 0.        *)
AtoiIsValue ==
    result # Other =>
        result = IF ToSet(text) \subseteq Digits THEN CInt(Value(text)) ELSE 0
=============================================================================
