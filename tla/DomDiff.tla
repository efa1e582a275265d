------------------------------ MODULE DomDiff ------------------------------
(***************************************************************************)
(* The differences between two pages: shared/dom_differ.py, computed by    *)
(* the worker between the last html it sent and the page (compute_diff)    *)
(* and applied by the controller to its mirror (apply_diff), over the keys *)
(* worker/dom_pipeline.py assigns.                                         *)
(*                                                                         *)
(* A document is the sequence of its nodes in document order, each with    *)
(* its depth: html, head with elements like meta and style, whose text     *)
(* is not modelled, and body with all that is in it.  An element has a     *)
(* tag and one attribute, a text node has its text in val.  An element     *)
(* outside body may have an id; of what is in body the id is an attribute  *)
(* like any other, as the normalizer gives it another key.  An id is never *)
(* that of two elements, nor passed on to another.  Text nodes of nothing  *)
(* but white space between elements are left out.                          *)
(***************************************************************************)
EXTENDS Naturals, Sequences, FiniteSetsExt, SequencesExt

CONSTANTS
  Tag,       \* names of elements
  Value,     \* values of the attribute; "" is the empty one
  Absent,    \* no such attribute
  Text,      \* texts, some with white space around them
  Stripped,  \* and each without it
  NoKey,     \* the key of an element without data-dom-id and id
  ShellId,   \* the ids of html, head and body, when they have one
  Id,        \* ids of elements in head
  TheBody,   \* the selector "body"
  Start,     \* pages, without keys in body, a worker may find
  MaxEdits   \* how often the page changes

ASSUME DomDiffAssumption ==
  /\ Absent \notin Value /\ Tag \cap {"html", "head", "meta", "body", "#text"} = {}
  /\ Stripped \in [Text -> Text] /\ "" \notin Text
  /\ \A text \in Text : Stripped[Stripped[text]] = Stripped[text]
  /\ MaxEdits \in Nat

VARIABLES
  page,    \* what the browser shows, normalized
  last,    \* _last_snapshot_html of the worker
  mirror,  \* TabState.html of the controller
  edits    \* how often the page has changed

vars == <<page, last, mirror, edits>>

KeyedNode(depth, tag, val, key) == [depth |-> depth, tag |-> tag, val |-> val, key |-> key]
Node(depth, tag, val) == KeyedNode(depth, tag, val, NoKey)
IsText(node) == node.tag = "#text"

Shell == {"html", "head", "body"}
At(doc, tag) == SelectInSeq(doc, LAMBDA node : node.tag = tag)
-----------------------------------------------------------------------------
(* Trees *)

SubtreeEnd(doc, i) ==
  Max({j \in i..Len(doc) : \A k \in i + 1..j : doc[k].depth > doc[i].depth})

Subtree(doc, i) == SubSeq(doc, i, SubtreeEnd(doc, i))

\* The nodes from i to j replaced.
Splice(doc, i, j, nodes) == SubSeq(doc, 1, i - 1) \o nodes \o SubSeq(doc, j + 1, Len(doc))

AtDepth(nodes, depth) ==
  [i \in DOMAIN nodes |-> [nodes[i] EXCEPT !.depth = @ - nodes[1].depth + depth]]

Children(doc, i) ==
  {j \in i + 1..SubtreeEnd(doc, i) : doc[j].depth = doc[i].depth + 1}

HasElements(doc, i) == \E j \in i + 1..SubtreeEnd(doc, i) : ~IsText(doc[j])

\* The one at the given depth that node i is, or is inside of.
Around(doc, i, depth) == Max({j \in 1..i : doc[j].depth = depth})
Parent(doc, i) == Around(doc, i, doc[i].depth - 1)

\* The key of node i of body: the numbers of the elements on the way to it,
\* each among its sisters.
StructuralId(doc, i) ==
  LET Number(j) == Cardinality({k \in Children(doc, Parent(doc, j)) : k < j /\ ~IsText(doc[k])})
  IN  [d \in 1..doc[i].depth - 1 |-> Number(Around(doc, i, d + 1))]

AssignDomIds(doc) ==
  [i \in DOMAIN doc |-> IF i > At(doc, "body") /\ ~IsText(doc[i])
                        THEN [doc[i] EXCEPT !.key = StructuralId(doc, i)] ELSE doc[i]]

\* Of every element, wherever it is: its data-dom-id, or else its id.
Keys(doc) == {doc[i].key : i \in DOMAIN doc} \ {NoKey}

ParentKey(doc, i) == IF i = 1 THEN NoKey ELSE doc[Parent(doc, i)].key

\* The first element with that key, 0 when there is none; the selector
\* "body" is a tag.
Find(doc, key) ==
  SelectInSeq(doc, LAMBDA node : node.key = key \/ (key = TheBody /\ node.tag = "body"))

\* The text right inside an element, stripped.
DirectText(doc, i) ==
  LET texts == {j \in Children(doc, i) : IsText(doc[j])}
  IN  IF texts = {} THEN "" ELSE Stripped[doc[Min(texts)].val]
-----------------------------------------------------------------------------
(* compute_diff *)

RemoveOp(key) == [op |-> "remove", at |-> key]
AddOp(key, nodes) == [op |-> "add", at |-> key, html |-> nodes]
ReplaceOp(key, nodes) == [op |-> "replace", at |-> key, html |-> nodes]
AttributeOp(key, val) == [op |-> "attribute", at |-> key, value |-> val]
TextOp(key, word) == [op |-> "text", at |-> key, text |-> word]

OnlyIf(condition, op) == IF condition THEN <<op>> ELSE <<>>

\* Mutant: also of what is inside of elements that are gone.
RemovalsNested(old, new) ==
  FlattenSeq([i \in DOMAIN old |->
                OnlyIf(old[i].key \in Keys(old) \ Keys(new), RemoveOp(old[i].key))])

\* Elements that are gone, but not those inside of others that are.
Removals(old, new) ==
  LET Removal(i) ==
        LET key == old[i].key
            parent == ParentKey(old, i)
        IN  IF key \in Keys(old) \ Keys(new)
            THEN OnlyIf(parent = NoKey \/ parent \in Keys(new), RemoveOp(key)) ELSE <<>>
  IN  FlattenSeq([i \in DOMAIN old |-> Removal(i)])

\* What there is to say of an element of the new document that the old one
\* has not.
Addition(old, new, j) ==
  LET parent == ParentKey(new, j)
  IN  OnlyIf(parent \in Keys(old), AddOp(parent, Subtree(new, j)))

\* Mutant: the text of any element.
ChangesOfAnyText(old, new, i, j) ==
  OnlyIf(new[j].val # old[i].val,
         AttributeOp(new[j].key, IF new[j].val = Absent THEN "" ELSE new[j].val))
  \o OnlyIf(DirectText(new, j) # DirectText(old, i), TextOp(new[j].key, DirectText(new, j)))

\* And of one that both have, at i and at j, with the same tag.
Changes(old, new, i, j) ==
  LET key == new[j].key
      word == DirectText(new, j)
  IN  OnlyIf(new[j].val # old[i].val,
             AttributeOp(key, IF new[j].val = Absent THEN "" ELSE new[j].val))
      \o OnlyIf(/\ word # DirectText(old, i)
                /\ ~HasElements(old, i) \/ ~HasElements(new, j),
                TextOp(key, word))

About(old, new, j) ==
  LET i == Find(old, new[j].key)
  IN  IF new[j].key = NoKey THEN <<>>
      ELSE IF i = 0 THEN Addition(old, new, j)
      ELSE IF old[i].tag # new[j].tag THEN <<ReplaceOp(new[j].key, Subtree(new, j))>>
      ELSE Changes(old, new, i, j)

\* Where the whole new document goes when nothing else is to be said.
FallbackTarget(old) ==
  LET id == old[At(old, "body")].key
  IN  IF <<0>> \in Keys(old) THEN <<0>> ELSE IF id # NoKey THEN id ELSE TheBody

ComputeDiff(old, new) ==
  LET ops == Removals(old, new) \o FlattenSeq([j \in DOMAIN new |-> About(old, new, j)])
  IN  IF old = new THEN <<>>
      ELSE IF ops = <<>> THEN <<ReplaceOp(FallbackTarget(old), new)>> ELSE ops
-----------------------------------------------------------------------------
(* apply_diff *)

SetString(doc, i, word) ==
  Splice(doc, i + 1, SubtreeEnd(doc, i),
         IF word = "" THEN <<>>
         ELSE <<Node(doc[i].depth + 1, "#text", word)>>)

\* An empty value takes the attribute away.  (Mutant: it does not.)
SetAttributeAlways(doc, i, val) == [doc EXCEPT ![i].val = val]
SetAttribute(doc, i, val) == [doc EXCEPT ![i].val = IF val = "" THEN Absent ELSE val]

AppendChild(doc, i, nodes) ==
  LET end == SubtreeEnd(doc, i)
  IN  Splice(doc, end + 1, end, AtDepth(nodes, doc[i].depth + 1))

ReplaceWith(doc, i, nodes) == Splice(doc, i, SubtreeEnd(doc, i), AtDepth(nodes, doc[i].depth))

Decompose(doc, i) == Splice(doc, i, SubtreeEnd(doc, i), <<>>)

\* One operation; one that finds no element does nothing.
ApplyOp(doc, op) ==
  LET i == Find(doc, op.at)
  IN  CASE i = 0 -> doc
        [] i # 0 /\ op.op = "text" -> SetString(doc, i, op.text)
        [] i # 0 /\ op.op = "attribute" -> SetAttribute(doc, i, op.value)
        [] i # 0 /\ op.op = "remove" -> Decompose(doc, i)
        [] i # 0 /\ op.op = "add" -> AppendChild(doc, i, op.html)
        [] i # 0 /\ op.op = "replace" -> ReplaceWith(doc, i, op.html)

ApplyDiff(doc, ops) == FoldLeft(ApplyOp, doc, ops)
-----------------------------------------------------------------------------
(* The page, the worker and the mirror *)

Init ==
  \E doc \in Start :
     /\ page = AssignDomIds(doc)
     /\ last = page /\ mirror = page
     /\ edits = 0

Edit(doc) ==
  /\ edits < MaxEdits
  /\ page' = AssignDomIds(doc)
  /\ edits' = edits + 1
  /\ UNCHANGED <<last, mirror>>

InBody(i) == i >= At(page, "body") /\ ~IsText(page[i])

\* The page changes: an attribute,
SetVal(i, val) ==
  /\ ~IsText(page[i])
  /\ Edit([page EXCEPT ![i].val = val])

\* the id of html, head or body, which may come or go,
SetId(i) ==
  /\ page[i].tag \in Shell
  /\ Edit([page EXCEPT ![i].key = IF @ = NoKey THEN ShellId[page[i].tag] ELSE NoKey])

\* the elements in head,
InsertMeta(at, key) ==
  /\ at \in Children(page, 2) \cup {At(page, "body")}
  /\ key \notin Keys(page)
  /\ Edit(Splice(page, at, at - 1, <<KeyedNode(2, "meta", Absent, key)>>))

\* a name,
Rename(i, tag) ==
  /\ InBody(i) /\ page[i].tag # "body"
  /\ Edit([page EXCEPT ![i].tag = tag])

\* the text of an element, before or after the elements in it,
SetText(i, text, first) ==
  LET without == SelectSeq([k \in DOMAIN page |-> [n |-> page[k],
                              gone |-> IsText(page[k]) /\ Parent(page, k) = i]],
                           LAMBDA e : ~e.gone)
      doc == [k \in DOMAIN without |-> without[k].n]
      at == IF first THEN i + 1 ELSE SubtreeEnd(doc, i) + 1
  IN  /\ InBody(i)
      /\ Edit(IF text = "" THEN doc
              ELSE Splice(doc, at, at - 1, <<Node(doc[i].depth + 1, "#text", text)>>))

\* an element that comes as the child of i before another, or as its last,
Insert(i, at, tag) ==
  /\ InBody(i)
  /\ at \in Children(page, i) \cup {SubtreeEnd(page, i) + 1}
  /\ Edit(Splice(page, at, at - 1, <<Node(page[i].depth + 1, tag, Absent)>>))

\* or one that goes, with what is in it.
Delete(i) ==
  /\ ~IsText(page[i]) /\ page[i].tag \notin Shell
  /\ Edit(Decompose(page, i))

\* The poll loop: the difference goes to the controller, which applies it.
Sync ==
  /\ page # last
  /\ mirror' = ApplyDiff(mirror, ComputeDiff(last, page))
  /\ last' = page
  /\ UNCHANGED <<page, edits>>

Next ==
  \/ \E i \in DOMAIN page :
        \/ \E val \in Value \cup {Absent} : SetVal(i, val)
        \/ SetId(i)
        \/ \E key \in Id \cup {NoKey} : InsertMeta(i, key)
        \/ \E tag \in Tag : Rename(i, tag)
        \/ \E text \in Text \cup {""}, first \in BOOLEAN : SetText(i, text, first)
        \/ \E at \in i + 1..Len(page) + 1, tag \in Tag : Insert(i, at, tag)
        \/ Delete(i)
  \/ Sync

Spec == Init /\ [][Next]_vars
-----------------------------------------------------------------------------
(* What the differences tell *)

\* The children of an element: texts, and elements whatever they are.
Outline(doc, i) ==
  LET Kind(j) == IF IsText(doc[j]) THEN doc[j].val ELSE Absent
      children == SetToSortSeq(Children(doc, i), <)
  IN  [k \in DOMAIN children |-> Kind(children[k])]

IsElement(kind) == kind = Absent
Elements(outline) == Len(SelectSeq(outline, IsElement))

StrippedText(outline) ==
  LET texts == SelectSeq(outline, LAMBDA kind : ~IsElement(kind))
  IN  IF texts = <<>> THEN "" ELSE Stripped[texts[1]]

\* The children of an element change in a way that can be told: either its
\* elements are fewer or more at the end of it, and its text stays, or it
\* had or has no elements, and its text comes first, without white space.
ChildrenTold(o, n) ==
  LET kept == [k \in 1..Len(o) |-> IF IsElement(o[k]) /\ Elements(SubSeq(o, 1, k)) > Elements(n)
                                   THEN "" ELSE o[k]]
      rest == SelectSeq(kept, LAMBDA kind : kind # "")
  IN  \/ /\ IsPrefix(rest, n)
         /\ \A k \in Len(rest) + 1..Len(n) : IsElement(n[k])
      \/ /\ Elements(o) = 0 \/ Elements(n) = 0
         /\ StrippedText(o) # StrippedText(n)
         /\ n = <<>> \/ n[1] = StrippedText(n)
         /\ \A k \in 2..Len(n) : IsElement(n[k])

\* Those of head: each by its id, or else as it is.
HeadOutline(doc) ==
  LET Kind(j) == IF doc[j].key # NoKey THEN doc[j].key ELSE Subtree(doc, j)
      children == SetToSortSeq(Children(doc, 2), <)
  IN  [k \in DOMAIN children |-> Kind(children[k])]

\* Elements with an id go, wherever they are, or come at the end.
HeadTold(old, new) ==
  LET o == HeadOutline(old)
      n == HeadOutline(new)
      kept == SelectSeq(o, LAMBDA kind : kind \notin Id \/ kind \in Keys(new))
  IN  /\ IsPrefix(kept, n)
      /\ \A k \in Len(kept) + 1..Len(n) : n[k] \in Id /\ new[2].key # NoKey

\* The attribute of an element with a key changes, but not to the empty value.
ValTold(old, new, i, j) ==
  old[i].val # new[j].val => new[j].key # NoKey /\ new[j].val # ""

ElementTold(old, new, i, j) ==
  IF old[i].tag # new[j].tag
  THEN Keys(Subtree(new, j)) \subseteq Keys(old)
  ELSE /\ ValTold(old, new, i, j)
       /\ new[j].tag \notin Shell => ChildrenTold(Outline(old, i), Outline(new, j))

\* Of a body without id: fewer elements, and the same texts.
BodyTold(o, n) ==
  /\ Elements(n) <= Elements(o)
  /\ SelectSeq(o, LAMBDA kind : ~IsElement(kind)) = SelectSeq(n, LAMBDA kind : ~IsElement(kind))

Told(old, new) ==
  /\ \A tag \in Shell :
       /\ old[At(old, tag)].key = new[At(new, tag)].key
       /\ ValTold(old, new, At(old, tag), At(new, tag))
  /\ HeadTold(old, new)
  /\ LET o == Outline(old, At(old, "body"))
         n == Outline(new, At(new, "body"))
     IN  ChildrenTold(o, n) /\ (new[At(new, "body")].key = NoKey => BodyTold(o, n))
  /\ \A j \in DOMAIN new :
       LET i == Find(old, new[j].key)
       IN  new[j].key # NoKey /\ i # 0 => ElementTold(old, new, i, j)

\* New elements of which nothing is said, as the one they come in has no key,
\* with all that is in them.
Unheard(old, new) ==
  UNION {Keys(Subtree(new, j)) \ Keys(old) :
           j \in {k \in DOMAIN new : /\ new[k].key \notin Keys(old) \cup {NoKey}
                                     /\ ParentKey(new, k) = NoKey}}

\* An element that stays has lost its id: it is removed, and does not come back.
LosesId(old, new) ==
  \E tag \in Shell : old[At(old, tag)].key \notin Keys(new) \cup {NoKey}

\* A mirror that shows what the worker sent last shows the page again after
\* every change that can be told, however many such changes came together.
ToldChangesArrive == [][Sync /\ mirror = last /\ Told(last, page) => mirror' = page]_vars

\* Whatever has changed, the mirror then has the elements of the page that
\* have a key and no others, although it may show them wrong or at the wrong
\* place: commands from the mirror are about elements there are.  Only new
\* elements that come in one without a key may be missing.
SameElements ==
  [][Sync /\ mirror = last /\ ~LosesId(last, page) =>
       /\ Keys(mirror') \subseteq Keys(page)
       /\ Keys(page) \ Unheard(last, page) \subseteq Keys(mirror')]_vars

\* None of the operations finds its element missing: apply_diff passes over
\* such an operation and says nothing.  (It does when html, head or body
\* loses its id, which is answered by its removal.)
Missing(doc, ops) ==
  \E n \in DOMAIN ops : Find(ApplyDiff(doc, SubSeq(ops, 1, n - 1)), ops[n].at) = 0
NothingSkipped == LosesId(last, page) \/ ~Missing(last, ComputeDiff(last, page))

\* What dom_differ.py:5 and tests/test_dom_diff.py:101-104 say: the
\* difference of any two pages turns the one into the other.
Guarantee == ApplyDiff(last, ComputeDiff(last, page)) = page
=============================================================================
