------------------------------ MODULE MCMime ------------------------------
(***************************************************************************)
(* Small instances of Mime: parts of every style alone, in pairs under    *)
(* each multipart, nested in one another, a mixed inside an alternative,  *)
(* in forwarded messages, one level past the depth limit and without a    *)
(* boundary; address lists of up to two groups and two mailboxes in every *)
(* notation.                                                              *)
(***************************************************************************)
EXTENDS Mime

Leaf(media, style) == [media |-> media, style |-> style, parts |-> <<>>]
Node(media, parts) == [media |-> media, style |-> "plain", parts |-> parts]
LeafSet == {Leaf(Media.plain, "bare"), Leaf(Media.plain, "encoded"), Leaf(Media.plain, "attached"),
            Leaf(Media.plain, "named"), Leaf(Media.html, "plain"), Leaf(Media.html, "named"),
            Leaf(Media.pdf, "plain"), Leaf(Media.pdf, "related")}
SomeLeaves == {Leaf(Media.plain, "encoded"), Leaf(Media.html, "plain"), Leaf(Media.pdf, "plain")}
UpTo2(S) == {<<>>} \cup {<<a>> : a \in S} \cup {<<a, b>> : a, b \in S}

Flat == {Node(media, parts) : media \in {Media.mixed, Media.alternative}, parts \in UpTo2(LeafSet)}
Inner == {Node(media, parts) : media \in {Media.alternative, Media.signed}, parts \in UpTo2(SomeLeaves)}
Nested == {Node(Media.mixed, <<a, b>>) : a \in Inner, b \in SomeLeaves} \cup {Node(Media.mixed, <<b, a>>) : a \in Inner, b \in SomeLeaves}
            \cup {Node(Media.mixed, <<a, a>>) : a \in Inner}
Related == {Node(Media.alternative, <<a, Node(Media.mixed, <<b, c>>)>>) : a, b, c \in SomeLeaves}
Forward(a) == [media |-> Media.rfc822, style |-> "plain", parts |-> <<a>>]
Forwards == {Forward(a) : a \in Inner \cup LeafSet}
              \cup {Node(Media.mixed, <<Leaf(Media.plain, "bare"), Forward(a)>>) : a \in LeafSet}
              \cup {Node(Media.mixed, <<[Forward(a) EXCEPT !.style = "attached"], b>>) : a, b \in SomeLeaves}
TooDeep == {Node(Media.mixed, <<Node(Media.mixed, <<Node(Media.mixed, <<a>>)>>), b>>) : a, b \in SomeLeaves}
             \cup {Forward(Forward(Forward(a))) : a \in SomeLeaves}
             \cup {Forward(Node(Media.mixed, <<Node(Media.mixed, <<a>>)>>)) : a \in SomeLeaves}
NoBoundary == {[Node(Media.mixed, <<a>>) EXCEPT !.style = "no boundary"] : a \in SomeLeaves}
MCTrees == LeafSet \cup Flat \cup Nested \cup Related \cup Forwards \cup TooDeep \cup NoBoundary \cup {Node(Media.mixed, <<a>>) : a \in NoBoundary}

Mailbox(form, name, email) == [form |-> form, name |-> name, email |-> email]
Mailboxes ==
  {Mailbox("bare", <<>>, <<97, AT, 100>>), Mailbox("bare", <<>>, <<114>>),
   Mailbox("angle", <<97, SP, 98>>, <<97, AT, 100>>),
   Mailbox("quoted", <<97, COMMA, QT, SEMI, COLON, BS, LT, LP, 98>>, <<98, AT, 100>>),
   Mailbox("quoted", <<98, BS, BS>>, <<QT, COMMA, GT, QT, AT, 100>>),
   Mailbox("comment", <<>>, <<99, AT, 100>>),
   Mailbox("encoded", <<97, COMMA, 98>>, <<100, AT, 100>>),
   Mailbox("name", <<97, SP, COMMA>>, <<>>)}
Single == {[label |-> <<>>, members |-> <<m>>] : m \in Mailboxes}
Groups == {[label |-> <<103>>, members |-> ms] : ms \in {<<>>} \cup {<<a, b>> : a, b \in Mailboxes}}
MCRecipients ==
  {<<i>> : i \in Single \cup Groups} \cup {<<i, j>> : i \in Single \cup Groups, j \in Single}
    \cup {<<i, j, k>> : i \in {g \in Groups : g.members = <<>>} , j, k \in Single}
    \cup {<<i, j>> : i, j \in {g \in Groups : g.members = <<>> \/ g.members[1] = g.members[2]}}
=============================================================================
