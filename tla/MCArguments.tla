---------------------------- MODULE MCArguments ----------------------------
(***************************************************************************)
(* Command lines of up to eight characters, with places for four words and *)
(* a page of nine words, so that lines of no word, of too many words and   *)
(* of words too long for the page are among them.                          *)
(***************************************************************************)
EXTENDS Arguments

Upto(S, n) == UNION {[1..k -> S] : k \in 0..n}
MCLines == Upto({SPACE, 1, 2}, 6) \cup Upto({SPACE, 1}, 8)
=============================================================================
