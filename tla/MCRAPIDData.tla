------------------------------ MODULE MCRAPIDData ------------------------------
(***************************************************************************)
(* Work objects, the record type with values of all kinds and three levels *)
(* of nesting, and the only one with a string.  It has separators, quotes  *)
(* and blanks in it, balanced or not, or nothing at all; one number has    *)
(* more digits than are written.                                           *)
(***************************************************************************)
EXTENDS RAPIDData

A == <<"a">>
B == <<"b">>

Texts ==
  {<<A>>, <<A, Quote, B>>, <<A, Comma, B>>, <<Open>>, <<Open, A, Comma, B, Close>>,
   <<Close, Comma, Open>>, <<Open, Comma, Comma, Close>>,
   <<Comma, Comma, Close>>, <<A, Comma, Comma, Close>>, <<>>, <<Blank>>,
   <<Blank, A, Blank, B>>, <<A, Blank, Comma, B>>}

WObj(b, text, n) ==
  <<b, ~b, text, <<<<n, 2, 3>>, <<4, 5, 6, 7>>>>, <<<<8, 9, 10>>, <<11, 12, 13, 14>>>>>>

MCShape == WObjData.of
MCValues == {WObj(TRUE, text, 1) : text \in Texts} \cup {WObj(FALSE, <<A>>, 12345)}
==============================================================================
