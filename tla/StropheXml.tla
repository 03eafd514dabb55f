------------------------------ MODULE StropheXml -----------------------------
(* The stanzas of lib/strophe.js: the Builder the pages chain their calls    *)
(* on, the elements it makes, and how an element becomes text.               *)
(*                                                                           *)
(* An element is [kind, tag, attrs, kids], with its attributes as a sequence *)
(* of pairs <<name, value>>; a text node is [kind, text].  Text is a         *)
(* sequence of characters, where the body of an entity ("amp;") counts as    *)
(* one.  The Builder's pointer node is the path to an element: the places of *)
(* its ancestors among the children.                                         *)
EXTENDS Integers, Sequences, SequencesExt

CONSTANTS
    Tags,       \* the names of elements
    Texts,      \* the texts given, the empty one among them
    AttrSets,   \* the attribute objects given
    MaxCalls    \* the longest chain of calls

VARIABLES
    tree,       \* nodeTree
    node,       \* the path of the current element, or Null above the root
    calls       \* the calls of the chain so far

vars == <<tree, node, calls>>

Null == <<0>>   \* no path: children are counted from 1

\* nodeTree before the Builder is made
Nothing == [kind |-> "NORMAL", tag |-> "", attrs |-> <<>>, kids |-> <<>>]

-----------------------------------------------------------------------------
(* Elements                                                                  *)

\* toLowerCase, of the attribute names in use
Lower(name) == CASE name = "Ref" -> "ref" [] name = "XML" -> "xml" [] OTHER -> name

Element(tag) == [kind |-> "NORMAL", tag |-> tag, attrs |-> <<>>, kids |-> <<>>]

\* DOM setAttribute: the value is replaced, or a new pair is the last
SetAttribute(elem, name, value) ==
    LET at == SelectInSeq(elem.attrs, LAMBDA a : a[1] = name)
    IN  [elem EXCEPT !.attrs =
            IF at = 0 THEN Append(@, <<name, value>>) ELSE [@ EXCEPT ![at] = <<name, value>>]]

SetAttributes(elem, attrs) ==
    FoldLeft(LAMBDA e, a : SetAttribute(e, a[1], a[2]), elem, attrs)

AppendChild(elem, child) == [elem EXCEPT !.kids = Append(@, child)]

Escape(text, table) ==
    FoldLeft(LAMBDA s, e : FlattenSeq([i \in DOMAIN s |-> IF s[i] = e[1] THEN e[2] ELSE <<s[i]>>]),
             text, table)

Entities == <<<<"&", <<"&", "amp;">>>>, <<"<", <<"&", "lt;">>>>, <<">", <<"&", "gt;">>>>,
              <<"'", <<"&", "apos;">>>>, <<"\"", <<"&", "quot;">>>>>>

\* xmlescape
XmlEscape(text) == Escape(text, Entities)

\* xmlTextNode: the text of the node is the escaped one
XmlTextNode(text) == [kind |-> "TEXT", text |-> XmlEscape(text)]

\* xmlElement(name, attrs, text); an empty text is none
XmlElement(name, attrs, text) ==
    LET elem == SetAttributes(Element(name), attrs)
    IN  IF text = <<>> THEN elem ELSE AppendChild(elem, XmlTextNode(text))

\* copyElement: the names of the attributes in lower case
RECURSIVE CopyElement(_)
CopyElement(elem) ==
    IF elem.kind = "TEXT" THEN elem
    ELSE LET el == SetAttributes(Element(elem.tag),
                       [i \in DOMAIN elem.attrs |-> <<Lower(elem.attrs[i][1]), elem.attrs[i][2]>>])
         IN  FoldLeft(LAMBDA e, child : AppendChild(e, CopyElement(child)), el, elem.kids)

\* getText: the text children, one after the other
GetText(elem) ==
    IF elem.kind = "TEXT" THEN elem.text
    ELSE FlattenSeq([i \in DOMAIN elem.kids |->
             IF elem.kids[i].kind = "TEXT" THEN elem.kids[i].text ELSE <<>>])

-----------------------------------------------------------------------------
(* serialize.  Markup is a token [mark, name]; a character stands for itself *)

Mark(mark, name) == <<[mark |-> mark, name |-> name]>>
Plain(text) == [i \in DOMAIN text |-> [mark |-> "char", name |-> text[i]]]

\* Mutant of AttrText: the ampersand is escaped last.
AttrText_AmpersandLast(value) ==
    Escape(value, <<<<"'", <<"&", "apos;">>>>, <<"<", <<"&", "lt;">>>>, <<"&", <<"&", "amp;">>>>>>)

AttrText(value) ==
    Escape(value, <<<<"&", <<"&", "amp;">>>>, <<"'", <<"&", "apos;">>>>, <<"<", <<"&", "lt;">>>>>>)

RECURSIVE Serialize(_)
Serialize(elem) ==
    LET attr(a)  == Mark("attr", Lower(a[1])) \o Plain(AttrText(a[2]) \o <<"'">>)
        child(k) == IF k.kind = "TEXT" THEN Plain(XmlEscape(k.text)) ELSE Serialize(k)
    IN  Mark("<", elem.tag) \o FlattenSeq([i \in DOMAIN elem.attrs |-> attr(elem.attrs[i])])
          \o (IF elem.kids = <<>> THEN Mark("/>", "")
              ELSE Mark(">", "") \o FlattenSeq([i \in DOMAIN elem.kids |-> child(elem.kids[i])])
                     \o Mark("</", elem.tag))

-----------------------------------------------------------------------------
(* The Builder                                                               *)

RECURSIVE ElementAt(_, _)
ElementAt(elem, path) ==
    IF path = <<>> THEN elem ELSE ElementAt(elem.kids[Head(path)], Tail(path))

RECURSIVE PutAt(_, _, _)
PutAt(elem, path, new) ==
    IF path = <<>> THEN new
    ELSE [elem EXCEPT !.kids[Head(path)] = PutAt(@, Tail(path), new)]

Current == ElementAt(tree, node)
Change(elem) == tree' = PutAt(tree, node, elem)

\* The path of the child appended next
NewChild == Append(node, Len(Current.kids) + 1)

\* new Strophe.Builder: the three kinds of stanza get a namespace if none is given
Builder(name, attrs) ==
    LET named == SelectInSeq(attrs, LAMBDA a : a[1] = "xmlns") # 0
    IN  XmlElement(name, IF name \in {"presence", "message", "iq"} /\ ~named
                           THEN Append(attrs, <<"xmlns", <<"c">>>>) ELSE attrs, <<>>)

Init == tree = Nothing /\ node = Null /\ calls = 0

New(name, attrs) ==
    /\ tree = Nothing
    /\ tree' = Builder(name, attrs)
    /\ node' = <<>>
    /\ UNCHANGED calls

\* One call of a chain.  Above the root this.node is null, every call throws.
Chain == calls < MaxCalls /\ node # Null /\ calls' = calls + 1

Up ==
    /\ Chain
    /\ node' = IF node = <<>> THEN Null ELSE Front(node)
    /\ UNCHANGED tree

Attrs(moreattrs) ==
    /\ Chain
    /\ Change(SetAttributes(Current, moreattrs))
    /\ UNCHANGED node

C(name, attrs, text) ==
    /\ Chain
    /\ Change(AppendChild(Current, XmlElement(name, attrs, text)))
    /\ node' = IF text = <<>> THEN NewChild ELSE node

T(text) ==
    /\ Chain
    /\ Change(AppendChild(Current, XmlTextNode(text)))
    /\ UNCHANGED node

\* cnode: a copy of elem, by importNode where the browser has it
CNode(elem, impNode) ==
    /\ Chain
    /\ Change(AppendChild(Current, IF impNode THEN elem ELSE CopyElement(elem)))
    /\ node' = NewChild

Next ==
    \/ \E name \in Tags, attrs \in AttrSets : New(name, attrs)
    \/ Up
    \/ \E attrs \in AttrSets : Attrs(attrs)
    \/ \E name \in Tags, attrs \in AttrSets, text \in Texts : C(name, attrs, text)
    \/ \E text \in Texts : T(text)
    \/ \E name \in Tags, attrs \in AttrSets, text \in Texts, impNode \in BOOLEAN :
           CNode(XmlElement(name, attrs, text), impNode)

Spec == Init /\ [][Next]_vars

-----------------------------------------------------------------------------
(* Properties                                                                *)

\* A receiver: it reads one token after the other, with the elements that
\* are open on a stack; entity is whether the last character was a raw &
Decoded == [x \in {"amp;", "lt;", "gt;", "apos;", "quot;"} |->
              CASE x = "amp;" -> "&" [] x = "lt;" -> "<" [] x = "gt;" -> ">"
                [] x = "apos;" -> "'" [] x = "quot;" -> "\""]

Open(r, name) == [r EXCEPT !.stack = <<Element(name)>> \o @]

\* The element on top is complete: it is the last child of the one below
Close(r) ==
    IF Len(r.stack) = 1 THEN [r EXCEPT !.done = r.stack[1], !.stack = <<>>]
    ELSE [r EXCEPT !.stack = <<AppendChild(r.stack[2], r.stack[1])>> \o SubSeq(@, 3, Len(@))]

\* A character of the text: it belongs to the text node before it, if any
AddText(elem, c) ==
    IF elem.kids # <<>> /\ Last(elem.kids).kind = "TEXT"
      THEN [elem EXCEPT !.kids[Len(elem.kids)].text = Append(@, c)]
      ELSE AppendChild(elem, [kind |-> "TEXT", text |-> <<c>>])

AddChar(r, c) ==
    IF r.name # "" THEN [r EXCEPT !.value = Append(@, c)]
                   ELSE [r EXCEPT !.stack[1] = AddText(@, c)]

ReadChar(r, c) ==
    IF r.entity
      THEN IF c \in DOMAIN Decoded THEN AddChar([r EXCEPT !.entity = FALSE], Decoded[c])
                                   ELSE [r EXCEPT !.bad = TRUE]
    ELSE IF c = "&" THEN [r EXCEPT !.entity = TRUE]
    ELSE IF c = "<" THEN [r EXCEPT !.bad = TRUE]
    ELSE IF c = "'" /\ r.name # ""
      THEN [r EXCEPT !.stack[1] = SetAttribute(@, r.name, r.value), !.name = "", !.value = <<>>]
    ELSE AddChar(r, c)

ReadToken(r, token) ==
    IF r.bad THEN r
    ELSE CASE token.mark = "char" -> ReadChar(r, token.name)
           [] token.mark = "<"    -> Open(r, token.name)
           [] token.mark = "attr" -> [r EXCEPT !.name = token.name]
           [] token.mark = ">"    -> r
           [] token.mark = "/>"   -> Close(r)
           [] token.mark = "</"   -> IF r.stack[1].tag = token.name THEN Close(r)
                                                                   ELSE [r EXCEPT !.bad = TRUE]

Reader == [stack |-> <<>>, name |-> "", value |-> <<>>, entity |-> FALSE, bad |-> FALSE,
           done |-> Element("")]

Parse(tokens) ==
    LET r == FoldLeft(ReadToken, Reader, tokens)
    IN  IF r.bad \/ r.stack # <<>> THEN Element("") ELSE r.done

\* An element as any reader sees it: attribute names in lower case, the text
\* between two elements in one piece
RECURSIVE Seen(_)
Seen(elem) ==
    LET add(e, k) == IF k.kind = "TEXT" THEN FoldLeft(AddText, e, k.text)
                                        ELSE AppendChild(e, Seen(k))
    IN  FoldLeft(add, SetAttributes(Element(elem.tag),
                          [i \in DOMAIN elem.attrs |-> <<Lower(elem.attrs[i][1]), elem.attrs[i][2]>>]),
                 elem.kids)

\* What is sent is what was built: whatever the calls and the characters, the
\* text of a stanza is well formed, and a receiver reads from it the elements,
\* the attributes and the text nodes of the tree; so does a copy
StanzaReads ==
    /\ Parse(Serialize(tree)) = Seen(tree)
    /\ Seen(CopyElement(tree)) = Seen(tree)
    /\ GetText(Parse(Serialize(tree))) = GetText(tree)

=============================================================================
