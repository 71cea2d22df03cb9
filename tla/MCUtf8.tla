------------------------------- MODULE MCUtf8 -------------------------------
(* Inputs of up to four bytes drawn from the boundary bytes of the UTF-8  *)
(* tables: the last ASCII byte, the ends of the continuation range, the    *)
(* bounds of the second byte after E0, ED, F0 and F4, the illegal lead C1  *)
(* and its legal neighbour C2, and F5, the first byte above U+10FFFF.     *)
(* Past a counted buffer lies a continuation byte, the byte most likely   *)
(* to make an over-read character look legal.                             *)
EXTENDS Utf8

MCBytes == {\h7F, \h80, \h8F, \h90, \h9F, \hA0, \hBF,
            \hC1, \hC2, \hE0, \hED, \hF0, \hF4, \hF5}

MCGarbage == {\h80}
====
