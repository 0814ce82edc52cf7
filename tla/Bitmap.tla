------------------------------- MODULE Bitmap -------------------------------
(***************************************************************************)
(* The free map of a plane: internal/types/bitmap.go.                      *)
(*                                                                         *)
(* A bitmap of n bits is the set of its set positions, a subset of 0..n-1. *)
(* Positions and sizes are uint16 in the code; U16 is the modulus of that  *)
(* type (65536 in the build) and WordBits the bits of one word of the      *)
(* slice (64 in the build), so that both limits are reached by a bitmap    *)
(* small enough for TLC.                                                   *)
(***************************************************************************)
EXTENDS Integers, FiniteSets, FiniteSetsExt

CONSTANTS U16,       \* number of values of a uint16
          WordBits   \* bits in one word of Bitmap.bits

ASSUME BitmapAssumption ==
    /\ U16 \in Nat \ {0}
    /\ WordBits \in Nat \ {0}

-----------------------------------------------------------------------------
(* uint16 arithmetic on operands below U16, and the conversion uint16(n). *)
AddU16(a, b) == IF a + b >= U16 THEN a + b - U16 ELSE a + b

DecU16(a) == IF a = 0 THEN U16 - 1 ELSE a - 1

ToU16(n) == IF n < U16 THEN n ELSE n % U16

-----------------------------------------------------------------------------
(* Mutant: SetRange writes the word without looking at the bitmap's size. *)
SetRangePastEnd(used, n, start, end) == used \cup (start .. end)

(* SetRange and ClearRange loop over start <= i < end; Set and Clear ignore *)
(* a position outside the bitmap.                                           *)
SetRange(used, n, start, end) ==
    used \cup {i \in 0 .. (n - 1) : start <= i /\ i < end}

ClearRange(used, n, start, end) ==
    used \ {i \in 0 .. (n - 1) : start <= i /\ i < end}

FreeBytes(used, n) == n - Cardinality(used)

-----------------------------------------------------------------------------
(* The two results of FindContiguous that are not a position. Panic is the *)
(* run-time error Go raises on a negative shift or on an index past the    *)
(* end of the word slice.                                                  *)
NoSpace == -1
Panic   == -2

(***************************************************************************)
(* What the body of the inner loop decides about the free position s: the  *)
(* scan stops for lack of room ("short"), the word arithmetic panics, the  *)
(* candidate is taken by a set bit, or it is accepted. The loop over words *)
(* and masks is the intersection of the candidate with the set bits; words *)
(* show only where an index or a shift panics. The sum                     *)
(* startPos+size is uint16: where it wraps, the range check passes and the *)
(* end position e lies before s (s .. e is then empty: no word is looked   *)
(* at), or e is the largest uint16.                                        *)
(***************************************************************************)
Word(pos) == pos \div WordBits

(* Mutant: the quick check also refuses a run that ends with the bitmap. *)
VerdictStrict(used, n, s, size) ==
    LET e == DecU16(AddU16(s, size))
    IN  IF AddU16(s, size) >= n THEN "short"
        ELSE IF used \cap (s .. e) # {} THEN "taken"
        ELSE "ok"

Verdict(used, n, s, size) ==
    LET e == DecU16(AddU16(s, size))
    IN  IF AddU16(s, size) > n THEN "short"
        ELSE IF e + 1 < s /\ Word(s) = Word(e) THEN "panic"
        ELSE IF used \cap (s .. e) # {} THEN "taken"
        ELSE IF s <= e /\ Word(e) > Word(n - 1) THEN "panic"
        ELSE "ok"

(* First fit: the first free position whose verdict ends the scan. *)
FindContiguous(used, n, size) ==
    LET stops == {s \in (0 .. (n - 1)) \ used :
                    Verdict(used, n, s, size) # "taken"}
    IN  IF size \notin 1 .. n \/ stops = {} THEN NoSpace
        ELSE LET s == Min(stops)
             IN  CASE Verdict(used, n, s, size) = "ok"    -> s
                   [] Verdict(used, n, s, size) = "panic" -> Panic
                   [] OTHER                               -> NoSpace

(***************************************************************************)
(* Fragmentation is (holes - 1) / free bytes, 0 when nothing is free. The  *)
(* model keeps the numerator; a caller divides by FreeBytes.               *)
(***************************************************************************)
(* Mutant: a hole is counted when it ends at a set bit. *)
HolesClosed(used, n) ==
    Cardinality({i \in (0 .. (n - 1)) \ used : (i + 1) \in used})

Holes(used, n) ==
    Cardinality({i \in (0 .. (n - 1)) \ used : i = 0 \/ (i - 1) \in used})

FragNumerator(used, n) ==
    IF FreeBytes(used, n) = 0 THEN 0 ELSE Holes(used, n) - 1
=============================================================================
