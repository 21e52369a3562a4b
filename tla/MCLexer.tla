------------------------------- MODULE MCLexer -------------------------------
(***************************************************************************)
(* The lexer on all short texts, and on documents that have one arbitrary   *)
(* short word in each of the places where a word can stand.                *)
(***************************************************************************)
EXTENDS UciLexer

\* The texts of at most n symbols.
TextsUpTo(n) == UNION {[1 .. k -> Symbols] : k \in 0 .. n}

\* A letter, for the words that are not arbitrary.
a == <<"a">>

ShortTexts == TextsUpTo(4)

WordInPlace ==
    UNION {{ << Section(w, NoString, <<>>) >>,
             << Section(w, a, <<>>) >>,
             << Section(a, w, <<>>) >>,
             << Section(a, NoString, << Line("option", w, a) >>) >>,
             << Section(a, NoString, << Line("option", a, w) >>) >>,
             << Section(a, a, << Line("list", w, NoString) >>) >>,
             << Section(a, a, << Line("list", w, a) >>) >>,
             << Section(a, a, << Line("list", a, w) >>) >>} : w \in TextsUpTo(3)}

=============================================================================
