---------------------------- MODULE MCXmlBuilder ----------------------------
(* Models of the database builder for TLC.                                 *)
EXTENDS XmlBuilder

Element(name, up, props) == [name |-> name, up |-> up, props |-> props]

\* <a x><b><c/></b><b><c/></b></a> <a x><b><c/></b></a>: nested and repeated.
Tidy == <<Element("a", 0, <<"x">>), Element("b", 1, <<>>), Element("c", 2, <<>>),
          Element("b", 1, <<>>), Element("c", 4, <<>>),
          Element("a", 0, <<"x">>), Element("b", 6, <<>>), Element("c", 7, <<>>)>>
\* <d><b><c/></b></d>: shares a table with the first.
Sharing == <<Element("d", 0, <<>>), Element("b", 1, <<>>), Element("c", 2, <<>>)>>
\* <c/> <a x><c y/></a>: a leaf under the root.
LooseLeaf == <<Element("c", 0, <<>>), Element("a", 0, <<"x">>), Element("c", 2, <<"y">>)>>
\* <b><a><b><c/></b></a></b>: two names nested both ways.
BothWays == <<Element("b", 0, <<>>), Element("a", 1, <<>>), Element("b", 2, <<>>),
              Element("c", 3, <<>>)>>
\* <a><c/><c/></a> <a><d><c/></d><c y/><c y/></a>: one name, two shapes.
Shapes == <<Element("a", 0, <<>>), Element("c", 1, <<>>), Element("c", 1, <<>>),
            Element("a", 0, <<>>), Element("d", 4, <<>>), Element("c", 5, <<>>),
            Element("c", 4, <<"y">>), Element("c", 4, <<"y">>)>>
\* Two attributed leaves of one name: a column twice.
Twice == <<Element("d", 0, <<>>), Element("c", 1, <<"y">>), Element("c", 1, <<"y">>)>>

AllDocuments == <<Tidy, Sharing, LooseLeaf, BothWays, Shapes, Twice, <<>>>>
OneLoose == <<LooseLeaf>>
OneBothWays == <<BothWays>>
OneTidy == <<Sharing>>
=============================================================================
