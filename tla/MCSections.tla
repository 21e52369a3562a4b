----------------------------- MODULE MCSections -----------------------------
(***************************************************************************)
(* The section level of the node API on small instances: two section types *)
(* and one section name, and lines that come from a file only.             *)
(***************************************************************************)
EXTENDS UciNodesProps

CONSTANTS A, B, x

\* A section without lines.
Bare(type, name) == Section(type, name, <<>>)

\* An empty AST.
NewAst == {AstCreate}

\* An empty AST, a file with unnamed sections of two types, and one that uses
\* a name for two sections, a list and its element.
NewOrParsed == {AstCreate,
                Parse(<<Bare(A, NoString), Bare(B, NoString), Bare(A, NoString)>>),
                Parse(<<Bare(A, x), Section(B, x, <<Line("list", x, x)>>)>>)}

\* The types are interchangeable.
Types == Permutations({A, B})

=============================================================================
