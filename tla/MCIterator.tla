----------------------------- MODULE MCIterator -----------------------------
(***************************************************************************)
(* The iterator on small instances: sections of two types, the second type *)
(* between two sections of the first, and a section with lines.            *)
(***************************************************************************)
EXTENDS UciIterator

CONSTANTS A, B, C, x, o, u

FewAsts == {Parse(<<Section(A, NoString, <<>>), Section(B, NoString, <<>>),
                    Section(A, NoString, <<>>)>>),
            Parse(<<Section(A, NoString, <<Line("list", o, u), Line("list", o, u)>>)>>)}

\* Two unnamed sections of the type between the two others, and one with a name.
NamedAsts == {Parse(<<Section(A, NoString, <<>>), Section(B, NoString, <<>>),
                      Section(B, NoString, <<>>), Section(C, x, <<>>)>>)}

\* A client that only retypes sections while it walks over them.
RetypingSpec ==
    IterInit /\ [][Iterate \/ \E n \in Handles : RetypeMeanwhile(n)]_allVars

=============================================================================
