----------------------------- MODULE StropheText -----------------------------
(* What lib/strophe.js does with the text of jids.  A text is the sequence   *)
(* of its characters.                                                        *)
EXTENDS Integers, Sequences, SequencesExt

CONSTANTS
    Chars,      \* the characters texts are made of
    MaxLength   \* the longest text

VARIABLE input  \* the text a page gives to these functions

Null == <<"null">>  \* null, which is no text: "null" is no character

-----------------------------------------------------------------------------
(* String.replace with a global pattern, split and join                      *)

RECURSIVE Replace(_, _, _)
Replace(s, pattern, by) ==
    IF Len(s) < Len(pattern) THEN s
    ELSE IF SubSeq(s, 1, Len(pattern)) = pattern
      THEN by \o Replace(SubSeq(s, Len(pattern) + 1, Len(s)), pattern, by)
      ELSE <<s[1]>> \o Replace(Tail(s), pattern, by)

IndexOf(s, c) == SelectInSeq(s, LAMBDA x : x = c)

RECURSIVE Split(_, _)
Split(s, c) ==
    IF IndexOf(s, c) = 0 THEN <<s>>
    ELSE <<SubSeq(s, 1, IndexOf(s, c) - 1)>>
           \o Split(SubSeq(s, IndexOf(s, c) + 1, Len(s)), c)

Join(parts, c) ==
    IF parts = <<>> THEN <<>>
    ELSE Head(parts) \o FlattenSeq([i \in 1..(Len(parts) - 1) |-> <<c>> \o parts[i + 1]])

\* replace(/^\s+|\s+$/g, '')
Trim(s) ==
    LET kept == {i \in DOMAIN s : s[i] # " "}
    IN  IF kept = {} THEN <<>>
        ELSE SubSeq(s, CHOOSE i \in kept : \A j \in kept : i <= j,
                       CHOOSE i \in kept : \A j \in kept : j <= i)

-----------------------------------------------------------------------------
(* Escapes and jids                                                          *)

\* The characters a node may not have, each with its escape
Escapes == <<
    <<" ", <<"\\", "2", "0">>>>, <<"\"", <<"\\", "2", "2">>>>,
    <<"&", <<"\\", "2", "6">>>>, <<"'", <<"\\", "2", "7">>>>,
    <<"/", <<"\\", "2", "f">>>>, <<":", <<"\\", "3", "a">>>>,
    <<"<", <<"\\", "3", "c">>>>, <<">", <<"\\", "3", "e">>>>,
    <<"@", <<"\\", "4", "0">>>>>>

Backslash == <<"\\", <<"\\", "5", "c">>>>

\* Mutant of EscapeNode: the backslash is escaped after the others.
EscapeNode_BackslashLast(node) ==
    FoldLeft(LAMBDA s, e : Replace(s, <<e[1]>>, e[2]), Trim(node), Escapes \o <<Backslash>>)

\* The backslash is escaped first, and the escapes of the others follow
EscapeNode(node) ==
    FoldLeft(LAMBDA s, e : Replace(s, <<e[1]>>, e[2]), Trim(node), <<Backslash>> \o Escapes)

UnescapeNode(node) ==
    FoldLeft(LAMBDA s, e : Replace(s, e[2], <<e[1]>>), node, Escapes \o <<Backslash>>)

\* The characters before the first @ of the whole jid, its resource included
GetNodeFromJid(jid) == IF IndexOf(jid, "@") = 0 THEN Null ELSE Split(jid, "@")[1]

GetBareJidFromJid(jid) == IF jid = <<>> THEN Null ELSE Split(jid, "/")[1]

GetDomainFromJid(jid) ==
    LET bare == GetBareJidFromJid(jid)
    IN  IF IndexOf(bare, "@") = 0 THEN bare ELSE Join(Tail(Split(bare, "@")), "@")

GetResourceFromJid(jid) ==
    IF Len(Split(jid, "/")) < 2 THEN Null ELSE Join(Tail(Split(jid, "/")), "/")

-----------------------------------------------------------------------------
(* Every text up to MaxLength, one character after the other                 *)

Init == input = <<>>

Type(c) == Len(input) < MaxLength /\ input' = Append(input, c)

Next == \E c \in Chars : Type(c)

Spec == Init /\ [][Next]_input

-----------------------------------------------------------------------------
(* Properties                                                                *)

\* Whatever a user is called, the node of a jid made from the escaped name
\* gives the name back
NameReads(name) ==
    LET node == EscapeNode(name)
        jid  == node \o <<"@", "d", "/", "r">>
    IN  /\ UnescapeNode(GetNodeFromJid(jid)) = Trim(name)
        /\ GetDomainFromJid(jid) = <<"d">>
        /\ GetResourceFromJid(jid) = <<"r">>

\* The parts of a jid make it up again, unless its only @ is in the resource:
\* there getNodeFromJid takes what is before it, domain and all, for a node
PartsJoin(jid) ==
    LET node     == GetNodeFromJid(jid)
        resource == GetResourceFromJid(jid)
    IN  jid # <<>> /\ (node = Null \/ IndexOf(GetBareJidFromJid(jid), "@") # 0) =>
            jid = (IF node = Null THEN <<>> ELSE node \o <<"@">>)
                    \o GetDomainFromJid(jid)
                    \o (IF resource = Null THEN <<>> ELSE <<"/">> \o resource)

\* A jid is read as it was written, node, domain and resource
JidReads == NameReads(input) /\ PartsJoin(input)

=============================================================================
