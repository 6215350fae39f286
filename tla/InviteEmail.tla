---------------------------- MODULE InviteEmail ---------------------------
(***************************************************************************)
(* The e-mail of an invite: what SendNotification (nats/email_sender.go)   *)
(* makes of a payload with the templates of smtp/templates.go, before it   *)
(* hands it to the e-mail service.                                         *)
(*                                                                         *)
(* A text is a sequence of bytes.  The bytes that matter are values of     *)
(* their own: a space, CR, LF and NUL, "<" for what HTML escapes, and      *)
(* "lead" and "cont" for a character of two bytes.  The wording of a       *)
(* template is one byte in a subject and is left out of a body: a body is  *)
(* the sequence of what it fills in or chooses, each item with its label.  *)
(***************************************************************************)
EXTENDS Naturals, SequencesExt

CONSTANTS
    None,     \* no envelope
    Letter,   \* the bytes that nothing treats in a way of its own
    Cap,      \* the length of a sanitized line, 256 in the code
    Payload   \* the payloads that the notification service hands over

SP == "SP"
CR == "CR"
LF == "LF"
NUL == "NUL"
Special == {SP, CR, LF, NUL, "<", "&lt;", "lead", "cont", "U+FFFD", "wording"}
Byte == Letter \cup Special
Part == {"subject", "html", "plain"}

ASSUME EmailAssumption ==
    /\ Cap \in Nat
    /\ Letter \cap Special = {}
    /\ Payload \subseteq
          [ RecipientEmail : Seq(Letter), RecipientName : Seq(Byte), InviterName : Seq(Byte),
            ResourceName : Seq(Byte), ResourceType : Seq(Byte),
            ParentResourceName : Seq(Byte), Role : Seq(Byte), OrgName : Seq(Byte),
            InviteLink : Seq(Letter), RecipientHasAccount : BOOLEAN ]

VARIABLES
    payload,   \* the payload at hand, or None
    failing,   \* the parts whose template fails to execute
    envelope   \* the request to the e-mail service, or None

vars == <<payload, failing, envelope>>

-----------------------------------------------------------------------------
(* Lines and names                                                         *)

Holds(s, S) == \E i \in DOMAIN s : s[i] \in S
Prefix(s, n) == SubSeq(s, 1, IF n < Len(s) THEN n ELSE Len(s))
When(b, s) == IF b THEN s ELSE <<>>

(* Index > 0: a name that begins with a space is not cut.                  *)
firstName(fullName) ==
    IF Holds(fullName, {SP}) /\ fullName[1] # SP
    THEN LET idx == CHOOSE i \in DOMAIN fullName :
                       fullName[i] = SP /\ \A j \in 1..(i-1) : fullName[j] # SP
         IN  Prefix(fullName, idx - 1)
    ELSE fullName

(* strings.NewReplacer: a line break becomes a space, a NUL nothing.       *)
Replaced(s) ==
    FlattenSeq([ i \in DOMAIN s |-> CASE s[i] \in {CR, LF} -> <<SP>>
                                      [] s[i] = NUL -> <<>>
                                      [] OTHER -> <<s[i]>> ])

(* Mutants: the length is not capped; it is capped before the bytes are    *)
(* replaced.                                                               *)
sanitizeUncapped(s) == Replaced(s)

sanitizeCapsFirst(s) == Replaced(Prefix(s, Cap))

(* The cap counts bytes: it may cut a character in two.                    *)
sanitizeSingleLine(s) == Prefix(Replaced(s), Cap)

(* json.Marshal: half a character becomes the replacement character.       *)
Marshalled(s) ==
    [ i \in DOMAIN s |->
        IF \/ s[i] = "lead" /\ (i = Len(s) \/ s[i+1] # "cont")
           \/ s[i] = "cont" /\ (i = 1 \/ s[i-1] # "lead")
        THEN "U+FFFD" ELSE s[i] ]

buildTemplateData(p) ==
    [ RecipientFirstName |-> firstName(p.RecipientName),
      InviterFirstName |-> firstName(p.InviterName), InviterFullName |-> p.InviterName,
      ResourceName |-> p.ResourceName, ResourceType |-> p.ResourceType,
      ParentResourceName |-> p.ParentResourceName, Role |-> p.Role,
      ReturnURL |-> p.InviteLink,
      OrgName |-> IF p.OrgName = <<>> THEN <<"wording">> ELSE p.OrgName,
      HasInviter |-> p.InviterName # <<>>,
      HasParentResource |-> p.ParentResourceName # <<>>,
      RecipientHasAccount |-> p.RecipientHasAccount ]

-----------------------------------------------------------------------------
(* The subject                                                             *)

SubjectTemplate(d) ==
    When(d.HasInviter, d.InviterFirstName \o <<SP>>) \o <<"wording">> \o d.ResourceName
        \o When(d.ResourceType # <<>>, <<SP>> \o d.ResourceType)

sanitizedResourceSuffix(t) == When(t # <<>>, <<SP>> \o sanitizeSingleLine(t))

fallbackInviteSubject(d) ==
    sanitizeSingleLine(
        When(d.HasInviter, sanitizeSingleLine(d.InviterFirstName) \o <<SP>>) \o <<"wording">>
            \o sanitizeSingleLine(d.ResourceName) \o sanitizedResourceSuffix(d.ResourceType))

-----------------------------------------------------------------------------
(* The bodies                                                              *)

(* html/template and HTMLEscapeString, where they put a text in.           *)
Escape(s) ==
    [ i \in DOMAIN s |->
        CASE s[i] = "<" -> "&lt;" [] s[i] = NUL -> "U+FFFD" [] OTHER -> s[i] ]
Item(label, text) == << [ label |-> label, text |-> text ] >>
Escaped(b) == [ i \in DOMAIN b |-> [ b[i] EXCEPT !.text = Escape(@) ] ]

(* "the ResourceName ResourceType (part of ParentResourceName)"            *)
Membership(d) ==
    Item("resource", d.ResourceName)
        \o When(d.ResourceType # <<>>, Item("type", d.ResourceType))
        \o When(d.HasParentResource, Item("parent", d.ParentResourceName))

(* invite_body.gohtml: a title, and the link behind a button and a note.   *)
HTMLTemplate(d) ==
    Item("title", Escape(d.ResourceName))
        \o When(d.ResourceType # <<>>, Item("title", Escape(d.ResourceType)))
        \o When(d.RecipientFirstName # <<>>, Item("greeting", Escape(d.RecipientFirstName)))
        \o When(d.HasInviter, Item("inviter", Escape(d.InviterFullName)))
        \o Escaped(Membership(d)) \o Item("role", Escape(d.Role))
        \o When(~d.RecipientHasAccount, Item("steps", <<>>) \o Escaped(Membership(d)))
        \o Item(IF d.RecipientHasAccount THEN "accept" ELSE "create account", <<>>)
        \o Item("link", Escape(d.ReturnURL)) \o Item("link", Escape(d.ReturnURL))
        \o Item("team", Escape(d.OrgName))

(* Mutant: the third step does not name the parent.                        *)
PlainTemplateNoParent(d) ==
    When(d.RecipientFirstName # <<>>, Item("greeting", d.RecipientFirstName))
        \o When(d.HasInviter, Item("inviter", d.InviterFullName))
        \o Membership(d) \o Item("role", d.Role)
        \o When(~d.RecipientHasAccount,
                Item("steps", <<>>) \o Membership([ d EXCEPT !.HasParentResource = FALSE ]))
        \o Item(IF d.RecipientHasAccount THEN "accept" ELSE "create account", <<>>)
        \o Item("link", d.ReturnURL) \o Item("team", d.OrgName)

(* Mutant: the link is treated like a header.                              *)
PlainTemplateCut(d) ==
    When(d.RecipientFirstName # <<>>, Item("greeting", d.RecipientFirstName))
        \o When(d.HasInviter, Item("inviter", d.InviterFullName))
        \o Membership(d) \o Item("role", d.Role)
        \o When(~d.RecipientHasAccount, Item("steps", <<>>) \o Membership(d))
        \o Item(IF d.RecipientHasAccount THEN "accept" ELSE "create account", <<>>)
        \o Item("link", sanitizeSingleLine(d.ReturnURL)) \o Item("team", d.OrgName)

(* invite_text.gotemplate                                                  *)
PlainTemplate(d) ==
    When(d.RecipientFirstName # <<>>, Item("greeting", d.RecipientFirstName))
        \o When(d.HasInviter, Item("inviter", d.InviterFullName))
        \o Membership(d) \o Item("role", d.Role)
        \o When(~d.RecipientHasAccount, Item("steps", <<>>) \o Membership(d))
        \o Item(IF d.RecipientHasAccount THEN "accept" ELSE "create account", <<>>)
        \o Item("link", d.ReturnURL) \o Item("team", d.OrgName)

(* Mutant: the resource type is put in as it is.                           *)
fallbackHTMLRaw(d) ==
    Item("resource", Escape(d.ResourceName))
        \o When(d.ResourceType # <<>>, Item("type", d.ResourceType))

fallbackInviteHTML(d) ==
    Item("resource", Escape(d.ResourceName))
        \o When(d.ResourceType # <<>>, Item("type", Escape(d.ResourceType)))

fallbackInvitePlain(d) ==
    Item("resource", sanitizeSingleLine(d.ResourceName))
        \o When(d.ResourceType # <<>>, Item("type", sanitizedResourceSuffix(d.ResourceType)))
        \o Item("link", sanitizeSingleLine(d.ReturnURL))

-----------------------------------------------------------------------------
(* SendNotification, up to the request                                     *)

renderPart(broken, rendered, fallback) == IF broken THEN fallback ELSE rendered

(* The e-mail of p, when the templates of the broken parts fail.           *)
RenderInviteEmail(p, broken) ==
    LET d == buildTemplateData(p) IN
    [ Subject |-> sanitizeSingleLine(renderPart("subject" \in broken,
                      SubjectTemplate(d), fallbackInviteSubject(d))),
      HTML |-> renderPart("html" \in broken, HTMLTemplate(d), fallbackInviteHTML(d)),
      Plain |-> renderPart("plain" \in broken, PlainTemplate(d), fallbackInvitePlain(d)) ]

(* Each body is marshalled item by item: no item ends in half a character  *)
(* that the next one begins with.                                          *)
MarshalledBody(b) ==
    [ i \in DOMAIN b |-> [ b[i] EXCEPT !.text = Marshalled(@) ] ]

(* Mutant: the plain part is forgotten.                                    *)
SendEmailRequestHTMLOnly(p, broken) ==
    LET rendered == RenderInviteEmail(p, broken) IN
    [ To |-> p.RecipientEmail, Subject |-> Marshalled(rendered.Subject),
      HTML |-> MarshalledBody(rendered.HTML) ]

SendEmailRequest(p, broken) ==
    LET rendered == RenderInviteEmail(p, broken) IN
    [ To |-> p.RecipientEmail, Subject |-> Marshalled(rendered.Subject),
      HTML |-> MarshalledBody(rendered.HTML), Text |-> MarshalledBody(rendered.Plain) ]

SendNotification(p) ==
    /\ payload = None
    /\ payload' = p
    /\ failing' \in SUBSET Part
    /\ envelope' = SendEmailRequest(p, failing')

(* The request is on its way; SendInvite models what becomes of it.        *)
Requested ==
    /\ payload # None
    /\ payload' = None /\ failing' = {} /\ envelope' = None

Init == payload = None /\ failing = {} /\ envelope = None
Next == Requested \/ \E p \in Payload : SendNotification(p)
Spec == Init /\ [][Next]_vars

-----------------------------------------------------------------------------
(* What makes an e-mail right                                              *)

Sent == envelope # None

(* An envelope has a subject, an HTML body and a plain body, filled in     *)
(* with texts.                                                             *)
EmailTypeOK ==
    /\ payload \in Payload \cup {None}
    /\ failing \in SUBSET Part
    /\ Sent => /\ DOMAIN envelope = {"To", "Subject", "HTML", "Text"}
               /\ envelope.To = payload.RecipientEmail
               /\ \A i \in DOMAIN envelope.Subject : envelope.Subject[i] \in Byte
               /\ \A b \in {envelope.HTML, envelope.Text} : \A i \in DOMAIN b :
                     \A j \in DOMAIN b[i].text : b[i].text[j] \in Byte

(* A name with line breaks in it, or one that is far too long, does not    *)
(* become more than one bounded header line, whichever way the subject was *)
(* made: no line break, no NUL, at most Cap bytes.                         *)
SubjectIsOneLine ==
    Sent => ~Holds(envelope.Subject, {CR, LF, NUL}) /\ Len(envelope.Subject) <= Cap

(* A recipient reads the same subject whether or not the template failed:  *)
(* the fallback sanitizes and caps the pieces before it joins them, and    *)
(* still comes to what the joined line is sanitized and capped to.         *)
SubjectSurvivesFailure ==
    Sent => envelope.Subject =
              Marshalled(sanitizeSingleLine(SubjectTemplate(buildTemplateData(payload))))

(* Nothing a requester names reaches the HTML part as markup, in the       *)
(* template or in its fallback.                                            *)
HTMLIsEscaped ==
    Sent => \A i \in DOMAIN envelope.HTML : ~Holds(envelope.HTML[i].text, {"<"})

(* What a body says, and where it leads.                                   *)
Says(b) ==
    FlattenSeq([ i \in DOMAIN b |-> When(b[i].label \notin {"title", "link"}, <<b[i]>>) ])
Links(b) == { b[i].text : i \in { j \in DOMAIN b : b[j].label = "link" } }

(* The two bodies are written apart, in two template languages, and tell   *)
(* the recipient the same: who invites them, to what, as part of what, in  *)
(* which role, with which steps, and with the same link.                   *)
PartsAgree ==
    Sent /\ failing \cap {"html", "plain"} = {} =>
        /\ Says(envelope.HTML) = Escaped(Says(envelope.Text))
        /\ Links(envelope.HTML) = Links(envelope.Text)

(* An e-mail can be acted on: some part has the whole link, unless the     *)
(* templates of both bodies fail and the plain fallback caps a longer one. *)
LinkIsOffered ==
    Sent /\ (~({"html", "plain"} \subseteq failing) \/ Len(payload.InviteLink) <= Cap) =>
        payload.InviteLink \in Links(envelope.HTML) \cup Links(envelope.Text)
=============================================================================
