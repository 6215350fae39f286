------------------------- MODULE MCInviteRequest --------------------------
(* The values that the configurations give to the constants of             *)
(* InviteRequest: requests that vary in one respect at a time, by all the  *)
(* combinations of that respect.                                           *)
EXTENDS InviteRequest

Texts ==
    { "", "Ann", "Annie", "ann-lf", "project", "p1", "p2", "x", "Foundation",
      "Ann <ann@x.org>", "ann@x.org", "Ann@X.org", "a b@x.org", "\"a b\"@x.org", "no address",
      "Member", " Member", " ", "v", "long",
      "https://app.lfx.dev", "https://app.staging.lfx.dev", "https://app.dev.lfx.dev",
      "http://app.lfx.dev", "https://lfx.dev", "https://other.org", "::" }

Addresses ==
    [ a \in Texts |->
        CASE a \in {"Ann <ann@x.org>", "ann@x.org"} -> "ann@x.org"
          [] a = "Ann@X.org" -> "Ann@X.org"
          [] a = "\"a b\"@x.org" -> "a b@x.org"
          [] OTHER -> None ]

Keys == [ a \in Texts |-> IF a = "Ann@X.org" THEN "ann@x.org" ELSE a ]

Trimmed == [ a \in Texts |->
    CASE a = " Member" -> "Member" [] a = " " -> "" [] OTHER -> a ]

Labels == { "app", "staging", "lfx", "dev", "linuxfoundation", "other", "org" }

URLs ==
    [ a \in Texts |->
        CASE a = "https://app.lfx.dev" -> [scheme |-> "https", host |-> <<"app", "lfx", "dev">>]
          [] a = "https://app.staging.lfx.dev" ->
                [scheme |-> "https", host |-> <<"app", "staging", "lfx", "dev">>]
          [] a = "https://app.dev.lfx.dev" ->
                [scheme |-> "https", host |-> <<"app", "dev", "lfx", "dev">>]
          [] a = "http://app.lfx.dev" -> [scheme |-> "http", host |-> <<"app", "lfx", "dev">>]
          [] a = "https://lfx.dev" -> [scheme |-> "https", host |-> <<"lfx", "dev">>]
          [] a = "https://other.org" -> [scheme |-> "https", host |-> <<"other", "org">>]
          [] a = "::" -> None
          [] OTHER -> [scheme |-> "", host |-> <<>>] ]

ClaimKeys == { "email", "resource_type", "note", "item", "far too long a key" }

Lengths == [ a \in Texts \cup ClaimKeys |-> IF a \in {"long", "far too long a key"} THEN 2 ELSE 1 ]

OneUID   == {"uid"}
Instants == {0, 1}

-----------------------------------------------------------------------------

Person(name, email, username) ==
    [ Name |-> name, Email |-> email, Username |-> username, Avatar |-> "x" ]

Base ==
    [ Recipient |-> None, Inviter |-> None, Resource |-> None,
      RecipientEmail |-> "ann@x.org", RecipientName |-> "", InviterName |-> "",
      ResourceUID |-> "p1", ResourceName |-> "", ResourceType |-> "project",
      Role |-> "Member", ReturnURL |-> "", OrgName |-> "x", ExpirationDays |-> 1,
      CustomClaims |-> <<>>, RecipientHasAccount |-> FALSE ]

OfRecipients ==
    { [Base EXCEPT !.Recipient = p, !.RecipientEmail = e, !.RecipientName = n] :
        p \in {None} \cup { Person(a, b, c) : a \in {"", "Ann"}, c \in {"", "ann-lf"},
                              b \in {"", "Ann <ann@x.org>", "\"a b\"@x.org", "no address"} },
        e \in {"", "Ann@X.org"}, n \in {"", "Annie"} }

OfInviters ==
    { [Base EXCEPT !.Inviter = p, !.InviterName = n, !.RecipientHasAccount = (n = "")] :
        p \in {None} \cup { Person(a, "ann@x.org", b) : a \in {"", "Ann"}, b \in {"", "ann-lf"} },
        n \in {"", "Annie"} }

OfResources ==
    { [Base EXCEPT !.Resource = o, !.ResourceUID = u, !.ResourceName = n, !.ResourceType = t] :
        o \in {None} \cup [ UID : {"", "p2"}, Name : {"", "Ann"}, Type : {"", "x"},
                            ParentName : {"", "Foundation"} ],
        u \in {"", "p1"}, n \in {"", "Annie"}, t \in {"", "project"} }

OfLinks ==
    { [Base EXCEPT !.Role = o, !.ReturnURL = l, !.ExpirationDays = d] :
        o \in {"", " ", " Member"}, d \in {-1, 0, 1, 9},
        l \in {"", "::", "x", "http://app.lfx.dev", "https://lfx.dev", "https://other.org",
               "https://app.staging.lfx.dev"} }

ClaimMaps ==
    UNION { [K -> {"v", "long"}] : K \in { L \in SUBSET ClaimKeys : Cardinality(L) <= 3 } }

OfClaims ==
    { [Base EXCEPT !.CustomClaims = c, !.ResourceType = t] : t \in {"", "project"},
        c \in ClaimMaps }

Requests == OfRecipients \cup OfInviters \cup OfResources \cup OfLinks \cup OfClaims

Environments ==
    { [ environment |-> "", selfServe |-> "", returnURL |-> "", allowed |-> <<>> ],
      [ environment |-> "stg", selfServe |-> "", returnURL |-> "", allowed |-> <<None, None>> ],
      [ environment |-> "prod", selfServe |-> "https://other.org", returnURL |-> "",
        allowed |-> <<[wild |-> FALSE, labels |-> <<"other", "org">>], None>> ],
      [ environment |-> "prod", selfServe |-> "", returnURL |-> "https://other.org",
        allowed |-> <<>> ] }
=============================================================================
