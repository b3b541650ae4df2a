------------------------- MODULE MCSensitiveFilter -------------------------
(***************************************************************************)
(* Instances of SensitiveFilter for TLC: every word over two letters up to *)
(* a length, and every content over the letters and the mask.              *)
(***************************************************************************)
EXTENDS SensitiveFilter

CONSTANTS a, b, star, WordLen, TextLen

UpTo(S, n) == UNION {[1..k -> S] : k \in 0..n}

MCChars == {a, b, star}
MCWords == UpTo({a, b}, WordLen)
MCTexts == UpTo(MCChars, TextLen)

=============================================================================
