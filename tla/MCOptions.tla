----------------------------- MODULE MCOptions ------------------------------
(***************************************************************************)
(* The node API on small instances with options, lists and list elements.  *)
(***************************************************************************)
EXTENDS UciNodesProps

CONSTANTS A, B, x, o, p, u, v

\* An unnamed section without lines.
BareSection == {Parse(<<Section(A, NoString, <<>>)>>)}

\* Files with several lines for one name: a list with two elements, and a list
\* that has the name of an option and one without elements.
TwinLines == {Parse(<<Section(A, x, <<Line("list", o, u), Line("list", o, v)>>)>>),
              Parse(<<Section(A, NoString, <<Line("option", o, u), Line("list", o, v),
                                             Line("list", p, NoString)>>)>>)}

BareOrTwinLines == BareSection \cup TwinLines

\* The names and the values are interchangeable.
NamesAndValues == Permutations({o, p}) \cup Permutations({u, v})

=============================================================================
