----------------------------- MODULE MCDomDiff -----------------------------
(* Start pages of module DomDiff: an empty one without ids; one with an    *)
(* element in another, below a body with an id; one with an id on head     *)
(* only.                                                                   *)
EXTENDS DomDiff

CONSTANTS HtmlKey, HeadKey, BodyKey, MetaKey

Texts == {"two", "two "}
WithoutSpaces == [text \in Texts |-> IF text = "two " THEN "two" ELSE text]

Ids == [tag \in Shell |-> CASE tag = "html" -> HtmlKey [] tag = "head" -> HeadKey [] tag = "body" -> BodyKey]

StartPages ==
  LET html == Node(0, "html", Absent)
      inner == <<Node(2, "p", "v"), Node(3, "p", Absent)>>
  IN  {<<html, Node(1, "head", Absent), Node(1, "body", Absent)>>,
       <<html, Node(1, "head", Absent), KeyedNode(2, "meta", "v", MetaKey),
         KeyedNode(1, "body", Absent, BodyKey)>> \o inner,
       <<html, KeyedNode(1, "head", Absent, HeadKey), Node(2, "meta", "v"),
         Node(1, "body", Absent)>>}
=============================================================================
