--------------------------- MODULE MCInviteEmail --------------------------
(* Payloads with names that are absent, of one word or two, longer than a  *)
(* line, with a space in front, a line break, a NUL or markup in them, and *)
(* with a character of two bytes where the line is capped.                 *)
EXTENDS InviteEmail

Letters == {"a", "b"}

Name(first, last) == <<first, first>> \o <<SP>> \o <<last>>

Recipients == { <<>>, Name("a", "b"), <<SP>> \o Name("a", "b") }
Inviters   == { <<>>, Name("b", "a"), <<"b", CR, LF, "b">>, [ i \in 1..9 |-> "b" ],
                <<"a", "a", "a", "a", "a", "a", "a", "lead", "cont">> }
Resources  == { <<"a">>, <<"<", "a">>, <<"a", LF, NUL, "b">>, [ i \in 1..9 |-> "a" ],
                <<"a", "lead", "cont", "lead", "cont", "b">> }
Types      == { <<>>, <<"b", "<">>, <<NUL>> }
Parents    == { <<>>, <<"<", "b">> }
URLs       == { [ i \in 1..n |-> "b" ] : n \in {8, 9} }

Email(r, i, n, t, p, o, l, h) ==
    [ RecipientEmail |-> <<"a">>, RecipientName |-> r, InviterName |-> i,
      ResourceName |-> n, ResourceType |-> t, ParentResourceName |-> p,
      Role |-> <<"a">>, OrgName |-> o, InviteLink |-> l, RecipientHasAccount |-> h ]

(* Every combination of what a subject is made of, and of what a body is.  *)
Payloads ==
    { Email(<<>>, i, n, t, <<>>, <<>>, <<"b">>, TRUE) :
        i \in Inviters, n \in Resources, t \in Types }
    \cup
    { Email(r, i, <<"<", "a">>, t, p, <<"a">>, l, h) :
        r \in Recipients, i \in {<<>>, Name("b", "a")}, t \in Types \ {<<NUL>>},
        p \in Parents, l \in URLs, h \in BOOLEAN }
    \cup
    { Email(r, <<>>, <<"a">>, <<>>, <<>>, <<>>, <<"b">>, FALSE) : r \in Recipients }
=============================================================================
