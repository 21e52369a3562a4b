---------------------------- MODULE MCConfigFile ----------------------------
(***************************************************************************)
(* Two processes and one file: a document of one section, and one with all *)
(* kinds of lines and names of two letters, which can be cut.              *)
(***************************************************************************)
EXTENDS UciConfigFile

a  == <<"a">>
ab == <<"a", "b">>

Short == << Section(a, NoString, <<>>) >>
Long  == << Section(ab, NoString, << Line("list", ab, a) >>) >>

ShortAndLong == {Short, Long}

\* The words of these documents are letters, which is what the theorems about what a
\* parse returns ask for.
ASSUME WordsAreLetters == \A d \in ShortAndLong : ReadBack(d) /\ Tearable(d)

=============================================================================
