--------------------------- MODULE InviteRequest --------------------------
(***************************************************************************)
(* What one send_invite request turns into: the request as it is read from *)
(* the wire (request_mapping.go), resolved (model/invite.go), validated    *)
(* and turned into a signed link, a record and an e-mail (notification.go, *)
(* generator.go), under the configuration that config.go reads.            *)
(*                                                                         *)
(* SendInvite models where the handlers of a deployment interleave, and    *)
(* keeps of a request what decides about that.  This module models one     *)
(* handler and keeps all its data.  A text is a string that is copied,     *)
(* compared, or tested for being empty; what parsers and the clock make of *)
(* one is given by constants.  The loop over the custom claims visits a Go *)
(* map, in an order that is not determined: one action per entry.          *)
(***************************************************************************)
EXTENDS InviteTerms, Sequences, FiniteSets

CONSTANTS
    None,          \* an absent object, or no result
    Text,          \* the texts of requests; "" is an absent one
    TrimSpace,     \* [Text -> Text]
    ParseAddress,  \* [Text -> Text \cup {None}]: mail.ParseAddress, its .Address
    AddressKey,    \* [Text -> Text]: encodeEmailForKey
    Label,         \* the labels of host names
    ParseURL,      \* [Text -> [scheme, host] or None]: url.Parse
    ClaimKey,      \* keys of custom claims
    Claims,        \* maps of custom claims
    Length,        \* [Text \cup ClaimKey -> Nat]
    MaxCustomClaims, MaxKeyLen, MaxValueLen,
    UID,           \* what uuid.NewString may return
    Second, Day,   \* their length in ticks of the clock
    Leeway,        \* tokenLeeway, in seconds
    Instant,       \* the instants at which requests are handled
    Request,       \* the requests that parse
    Environment    \* the environments the process may be started in

ASSUME RequestAssumption ==
    /\ {"", "https://app.lfx.dev", "https://app.staging.lfx.dev",
        "https://app.dev.lfx.dev"} \subseteq Text
    /\ None \notin Text
    /\ ParseAddress \in [Text -> (Text \ {""}) \cup {None}]
    /\ AddressKey \in [Text -> Text]
    /\ TrimSpace \in [Text -> Text]
    /\ Length \in [Text \cup ClaimKey -> Nat]
    /\ "" \notin UID

(* What ParseAddress returns is canonical: it parses to itself, or, when   *)
(* its local part needs quotes, not at all.                                *)
ASSUME CanonicalAssumption ==
    \A a \in Text :
        ParseAddress[a] # None => ParseAddress[ParseAddress[a]] \in {ParseAddress[a], None}

ASSUME ClockAssumption ==
    /\ Second \in Nat \ {0}
    /\ Day \in Nat \ {0}
    /\ Leeway \in Nat \ {0}
    /\ Instant \subseteq Nat
    /\ DefaultDays \in Nat
    /\ MaxDays \in Nat

PersonType   == [ Name : Text, Email : Text, Username : Text, Avatar : Text ]
ResourceType == [ UID : Text, Name : Text, Type : Text, ParentName : Text ]

(* api.SendInviteRequest, as json.Unmarshal fills it.                      *)
RequestType ==
    [ Recipient : PersonType \cup {None}, Inviter : PersonType \cup {None},
      Resource : ResourceType \cup {None},
      RecipientEmail : Text, RecipientName : Text, InviterName : Text,
      ResourceUID : Text, ResourceName : Text, ResourceType : Text,
      Role : Text, ReturnURL : Text, OrgName : Text, ExpirationDays : Int,
      CustomClaims : Claims,
      RecipientHasAccount : BOOLEAN ]

Host    == Seq(Label)
Pattern == [ wild : BOOLEAN, labels : Seq(Label) ]

ASSUME URLAssumption ==
    /\ {"lfx", "dev", "linuxfoundation", "org"} \subseteq Label
    /\ ParseURL \in [Text -> [ scheme : STRING, host : Host ] \cup {None}]
    /\ None \notin Pattern
    /\ Environment \subseteq
          [ environment : STRING, selfServe : Text, returnURL : Text,
            allowed : Seq(Pattern \cup {None}) ]

ASSUME InputAssumption ==
    /\ \A c \in Claims : DOMAIN c \subseteq ClaimKey /\ \A k \in DOMAIN c : c[k] \in Text
    /\ Request \subseteq RequestType
    /\ None \notin PersonType /\ None \notin ResourceType /\ None \notin RequestType
    /\ None \notin [ uid : UID, at : Nat, expires : Nat ]

VARIABLES
    config,    \* NotificationConfig
    pc,        \* where the handler is
    request,   \* the request at hand, or None
    minted,    \* the UID, the instant and the expiry of the link, or None
    left,      \* the custom claims the loop has still to visit
    accepted,  \* the keys of acceptedClaims
    token,     \* the claims that were signed, or None
    stored,    \* the record in the bucket, or None
    mailed,    \* the payload handed to the e-mail sender, or None
    reply      \* the answer, or None

madeVars == <<minted, left, accepted, token, stored, mailed>>
vars     == <<config, pc, request, madeVars, reply>>

-----------------------------------------------------------------------------
(* Configuration                                                           *)

DefaultPatterns ==
    { [wild |-> TRUE, labels |-> <<"lfx", "dev">>],
      [wild |-> TRUE, labels |-> <<"linuxfoundation", "org">>] }

(* The list as it was split at its commas, blank items being None; an      *)
(* unset variable is the empty list.                                       *)
parseAllowedReturnURLHosts(items) ==
    IF items = <<>> THEN DefaultPatterns
    ELSE { items[i] : i \in DOMAIN items } \ {None}

SelfServeBaseURL(env) ==
    CASE env.selfServe # "" -> env.selfServe
      [] env.selfServe = "" /\ env.environment = "prod" -> "https://app.lfx.dev"
      [] env.selfServe = "" /\ env.environment \in {"staging", "stg"} ->
            "https://app.staging.lfx.dev"
      [] OTHER -> "https://app.dev.lfx.dev"

AppConfigFromEnv(env) ==
    [ DefaultReturnURL |->
          IF env.returnURL # "" THEN env.returnURL ELSE SelfServeBaseURL(env),
      AllowedReturnURLHosts |-> parseAllowedReturnURLHosts(env.allowed) ]

-----------------------------------------------------------------------------
(* The request                                                             *)

(* Mutant: a field of the contract that the mapping forgets.               *)
CopyResourceFlat(o) ==
    IF o = None THEN None
    ELSE [ UID |-> o.UID, Name |-> o.Name, Type |-> o.Type, ParentName |-> "" ]

CopyResource(o) ==
    IF o = None THEN None
    ELSE [ UID |-> o.UID, Name |-> o.Name, Type |-> o.Type, ParentName |-> o.ParentName ]

CopyPerson(o) ==
    IF o = None THEN None
    ELSE [ Name |-> o.Name, Email |-> o.Email, Username |-> o.Username, Avatar |-> o.Avatar ]

(* The internal request: the scalars of the contract as they are, and      *)
(* copies of its objects.                                                  *)
apiToModelRequest(r) ==
    [ r EXCEPT !.Recipient = CopyPerson(@), !.Inviter = CopyPerson(@),
               !.Resource = CopyResource(@) ]

(* A field of a structured object, or the deprecated scalar when there is  *)
(* no object or its field is empty.                                        *)
Resolved(object, field, scalar) ==
    IF object # None /\ object[field] # "" THEN object[field] ELSE scalar

ResolvedRecipientEmail(r) == Resolved(r.Recipient, "Email", r.RecipientEmail)
ResolvedRecipientName(r)  == Resolved(r.Recipient, "Name", r.RecipientName)
ResolvedInviterName(r)    == Resolved(r.Inviter, "Name", r.InviterName)
ResolvedResourceUID(r)    == Resolved(r.Resource, "UID", r.ResourceUID)
ResolvedResourceName(r)   == Resolved(r.Resource, "Name", r.ResourceName)
ResolvedResourceType(r)   == Resolved(r.Resource, "Type", r.ResourceType)
ResolvedParentResourceName(r) == Resolved(r.Resource, "ParentName", "")

-----------------------------------------------------------------------------
(* Validation                                                              *)

(* Mutant: a wildcard pattern also matches the bare domain.                *)
matchHostApex(host, pattern) ==
    LET n == Len(host) - Len(pattern.labels) IN
    IF pattern.wild
    THEN n >= 0 /\ SubSeq(host, n + 1, Len(host)) = pattern.labels
    ELSE host = pattern.labels

(* Names are sequences of labels: "*.lfx.dev" matches a name that ends in  *)
(* ".lfx.dev".                                                             *)
matchHost(host, pattern) ==
    LET n == Len(host) - Len(pattern.labels) IN
    IF pattern.wild
    THEN n > 0 /\ SubSeq(host, n + 1, Len(host)) = pattern.labels
    ELSE host = pattern.labels

validateReturnURL(rawURL, allowedHosts) ==
    \/ allowedHosts = {}
    \/ LET u == ParseURL[rawURL] IN
       /\ u # None
       /\ u.scheme = "https"
       /\ \E pattern \in allowedHosts : matchHost(u.host, pattern)

(* The checks of HandleSendInvite before it generates the link.            *)
Valid(r) ==
    /\ ResolvedRecipientEmail(r) # ""
    /\ ParseAddress[ResolvedRecipientEmail(r)] # None
    /\ TrimSpace[r.Role] # ""
    /\ r.ReturnURL # "" => validateReturnURL(r.ReturnURL, config.AllowedReturnURLHosts)

CanonicalEmail(r) == ParseAddress[ResolvedRecipientEmail(r)]

DestURL(r) == IF r.ReturnURL # "" THEN r.ReturnURL ELSE config.DefaultReturnURL

-----------------------------------------------------------------------------
(* The link, the record and the e-mail                                     *)

reservedClaims ==
    { "iss", "aud", "iat", "nbf", "exp", "jti", "sub", "invite_uid", "email",
      "return_url", "resource_uid", "resource_type", "role" }

(* Mutant: a claim that is sometimes left out is not reserved.             *)
IsReservedIfSet(k) == k \in reservedClaims \ {"resource_type"}

IsReserved(k) == k \in reservedClaims

(* A NumericDate of a token: whole seconds.                                *)
Unix(t) == t \div Second

ExpiresAt(r, t) == t + Lifetime(r.ExpirationDays) * Day

BaseClaims(r) ==
    [ iss |-> "lfx-v2-invite-service", aud |-> "lfx-self-serve",
      iat |-> Unix(minted.at), nbf |-> Unix(minted.at), exp |-> Unix(minted.expires),
      jti |-> minted.uid, invite_uid |-> minted.uid,
      email |-> CanonicalEmail(r), return_url |-> DestURL(r),
      resource_uid |-> ResolvedResourceUID(r), role |-> TrimSpace[r.Role] ]

AcceptedClaims(r) == [k \in accepted |-> r.CustomClaims[k]]

(* The claim that an empty type leaves out.                                *)
TypeClaim(r) ==
    [ k \in IF ResolvedResourceType(r) = "" THEN {} ELSE {"resource_type"}
        |-> ResolvedResourceType(r) ]

(* The map g after the entries of f were written to it.                    *)
Over(f, g) ==
    [ k \in DOMAIN f \cup DOMAIN g |-> IF k \in DOMAIN f THEN f[k] ELSE g[k] ]

(* The loop writes its claims over those that are there.                   *)
TokenClaims(r) == Over(AcceptedClaims(r), Over(TypeClaim(r), BaseClaims(r)))

NoPerson == [ Name |-> "", Email |-> "", Username |-> "", Avatar |-> "" ]

Given(object) == IF object = None THEN NoPerson ELSE object

buildInviteRecord(r) ==
    [ UID            |-> minted.uid,
      Status         |-> "pending",
      Recipient      |-> [ Given(r.Recipient) EXCEPT !.Name = ResolvedRecipientName(r),
                                                     !.Email = CanonicalEmail(r) ],
      Inviter        |-> [ Given(r.Inviter) EXCEPT !.Name = ResolvedInviterName(r) ],
      Resource       |-> [ UID |-> ResolvedResourceUID(r), Name |-> ResolvedResourceName(r),
                           Type |-> ResolvedResourceType(r),
                           ParentName |-> ResolvedParentResourceName(r) ],
      Role           |-> TrimSpace[r.Role],
      OrgName        |-> r.OrgName,
      ReturnURL      |-> DestURL(r),
      ExpirationDays |-> r.ExpirationDays,
      CustomClaims   |-> AcceptedClaims(r),
      ExpiresAt      |-> minted.expires ]

(* The invite link is the token behind a fixed prefix.                     *)
InviteEmailPayload(r) ==
    [ RecipientEmail |-> CanonicalEmail(r), RecipientName |-> ResolvedRecipientName(r),
      InviterName |-> ResolvedInviterName(r), ResourceName |-> ResolvedResourceName(r),
      ResourceType |-> ResolvedResourceType(r),
      ParentResourceName |-> ResolvedParentResourceName(r),
      ResourceUID |-> ResolvedResourceUID(r), Role |-> TrimSpace[r.Role],
      OrgName |-> r.OrgName, InviteLink |-> token,
      RecipientHasAccount |-> r.RecipientHasAccount ]

-----------------------------------------------------------------------------
(* The handler                                                             *)

Answer(error, data) ==
    /\ pc' = "reply"
    /\ reply' = [ Error |-> error, InviteData |-> data ]

(* The body of the message is not JSON of a request.                       *)
Malformed ==
    /\ pc = "idle"
    /\ Answer("malformed_request", None)
    /\ UNCHANGED <<config, request, madeVars>>

(* HandleSendInvite, up to Generate.                                       *)
Validate(r) ==
    /\ pc = "idle"
    /\ request' = r
    /\ IF Valid(apiToModelRequest(r))
       THEN pc' = "generate" /\ UNCHANGED reply
       ELSE Answer("invalid_request", None)
    /\ UNCHANGED <<config, madeVars>>

(* Mutant: the custom claims are not counted.                              *)
MintUncounted(u, t) ==
    LET r == apiToModelRequest(request) IN
    /\ pc = "generate"
    /\ minted' = [ uid |-> u, at |-> t, expires |-> ExpiresAt(r, t) ]
    /\ left' = DOMAIN r.CustomClaims
    /\ pc' = "claims"
    /\ UNCHANGED <<config, request, accepted, token, stored, mailed, reply>>

(* Generate, up to the loop over the custom claims.                        *)
Mint(u, t) ==
    LET r == apiToModelRequest(request) IN
    /\ pc = "generate"
    /\ minted' = [ uid |-> u, at |-> t, expires |-> ExpiresAt(r, t) ]
    /\ left' = DOMAIN r.CustomClaims
    /\ IF Cardinality(left') > MaxCustomClaims
       THEN Answer("invalid_request", None)
       ELSE pc' = "claims" /\ UNCHANGED reply
    /\ UNCHANGED <<config, request, accepted, token, stored, mailed>>

TooLong(k, v) == Length[k] > MaxKeyLen \/ Length[v] > MaxValueLen

(* Mutant: reserved keys are skipped before their entries are measured.    *)
VisitClaimReservedFirst(k) ==
    LET v == request.CustomClaims[k] IN
    /\ pc = "claims"
    /\ k \in left
    /\ left' = left \ {k}
    /\ IF ~IsReserved(k) /\ TooLong(k, v)
       THEN Answer("invalid_request", None) /\ UNCHANGED accepted
       ELSE /\ accepted' = IF IsReserved(k) THEN accepted ELSE accepted \cup {k}
            /\ UNCHANGED <<pc, reply>>
    /\ UNCHANGED <<config, request, minted, token, stored, mailed>>

(* A turn of the loop: an entry that is too long ends the request, one     *)
(* under a reserved key is skipped.                                        *)
VisitClaim(k) ==
    LET v == request.CustomClaims[k] IN
    /\ pc = "claims"
    /\ k \in left
    /\ left' = left \ {k}
    /\ IF TooLong(k, v)
       THEN Answer("invalid_request", None) /\ UNCHANGED accepted
       ELSE /\ accepted' = IF IsReserved(k) THEN accepted ELSE accepted \cup {k}
            /\ UNCHANGED <<pc, reply>>
    /\ UNCHANGED <<config, request, minted, token, stored, mailed>>

(* The token is signed, or cannot be.                                      *)
Sign ==
    /\ pc = "claims"
    /\ left = {}
    /\ \/ /\ token' = TokenClaims(apiToModelRequest(request))
          /\ pc' = "create"
          /\ UNCHANGED reply
       \/ /\ Answer("internal_error", None)
          /\ UNCHANGED token
    /\ UNCHANGED <<config, request, minted, left, accepted, stored, mailed>>

(* Create, as a whole: SendInvite has its calls.                           *)
Persist ==
    /\ pc = "create"
    /\ \/ /\ stored' = buildInviteRecord(apiToModelRequest(request))
          /\ pc' = "send"
          /\ UNCHANGED reply
       \/ /\ Answer("internal_error", None)
          /\ UNCHANGED stored
    /\ UNCHANGED <<config, request, minted, left, accepted, token, mailed>>

(* SendNotification, as a whole, and the rollback, which is best effort.   *)
Dispatch ==
    /\ pc = "send"
    /\ mailed' = InviteEmailPayload(apiToModelRequest(request))
    /\ \/ /\ Answer("", [ UID |-> minted.uid,
                          Email |-> CanonicalEmail(apiToModelRequest(request)),
                          ExpiresAt |-> minted.expires ])
          /\ UNCHANGED stored
       \/ /\ Answer("email_dispatch_failed", None)
          /\ stored' \in {stored, None}
    /\ UNCHANGED <<config, request, minted, left, accepted, token>>

(* The reply is sent, and the next message taken.                          *)
Reply ==
    /\ pc = "reply"
    /\ pc' = "idle"
    /\ request' = None /\ minted' = None /\ token' = None
    /\ stored' = None /\ mailed' = None /\ reply' = None
    /\ left' = {} /\ accepted' = {}
    /\ UNCHANGED config

Init ==
    /\ config \in { AppConfigFromEnv(env) : env \in Environment }
    /\ pc = "idle"
    /\ request = None /\ minted = None /\ token = None
    /\ stored = None /\ mailed = None /\ reply = None
    /\ left = {} /\ accepted = {}

Next ==
    \/ Malformed
    \/ \E r \in Request : Validate(r)
    \/ \E u \in UID, t \in Instant : Mint(u, t)
    \/ \E k \in ClaimKey : VisitClaim(k)
    \/ Sign \/ Persist \/ Dispatch \/ Reply

Spec == Init /\ [][Next]_vars

-----------------------------------------------------------------------------
(* What is done with the result                                            *)

(* Mutant: no tolerance for the clock.                                     *)
TimelyExactly(tok, t) ==
    /\ t < tok.exp * Second
    /\ tok.nbf * Second <= t
    /\ tok.iat * Second <= t

(* The checks of exp, nbf and iat, with the leeway.                        *)
Timely(tok, t) ==
    /\ t < (tok.exp + Leeway) * Second
    /\ (tok.nbf - Leeway) * Second <= t
    /\ (tok.iat - Leeway) * Second <= t

(* TokenVerifier.Verify, of a token this service signed.                   *)
Verify(tok, t) ==
    /\ tok.iss = "lfx-v2-invite-service" /\ tok.aud = "lfx-self-serve"
    /\ Timely(tok, t)
    /\ tok.jti # "" /\ tok.jti = tok.invite_uid
    /\ tok.email # ""

(* verifyAcceptance binds a token to a record.                             *)
Binds(tok, rec) == tok.invite_uid = rec.UID /\ tok.email = rec.Recipient.Email

(* Mutant: the lookup takes the address as it is.                          *)
LookupAddressAsGiven(e) == e

(* The address that GetInvitesByEmail looks up.                            *)
LookupAddress(e) == IF ParseAddress[e] # None THEN ParseAddress[e] ELSE e

-----------------------------------------------------------------------------
(* Properties                                                              *)

Link == [ uid : UID, at : Nat, expires : Nat ]

(* A handler in the middle of a request has what the calls before gave it, *)
(* and one between two requests keeps nothing of the last.                 *)
RequestTypeOK ==
    /\ pc \in {"idle", "generate", "claims", "create", "send", "reply"}
    /\ config.DefaultReturnURL \in Text \ {""}
    /\ request \in Request \cup {None}
    /\ minted \in Link \cup {None}
    /\ accepted \cap left = {}
    /\ pc \in {"generate", "claims", "create", "send"} => request # None
    /\ pc \in {"claims", "create", "send"} => minted # None
    /\ left \cup accepted # {} => minted # None
    /\ pc = "idle" =>
          /\ <<request, minted, token, stored, mailed, reply>> =
                <<None, None, None, None, None, None>>
          /\ left \cup accepted = {}

(* The link, the record, the e-mail and the reply are about one invite:    *)
(* whatever claims the requester adds, none of them takes the place of a   *)
(* claim of the service (generator.go:45-52), the record holds exactly the *)
(* custom claims that were signed (link_generator.go:47-50), and a claim   *)
(* that is left out says what an empty field of the record says.           *)
OneInviteEverywhere ==
    stored # None =>
        /\ token.jti = stored.UID /\ token.invite_uid = stored.UID
        /\ token.email = stored.Recipient.Email
        /\ token.return_url = stored.ReturnURL
        /\ token.resource_uid = stored.Resource.UID
        /\ token.role = stored.Role
        /\ stored.Resource.Type =
              IF "resource_type" \in DOMAIN token THEN token.resource_type ELSE ""
        /\ \A k \in ClaimKey \ reservedClaims :
              /\ k \in DOMAIN token <=> k \in DOMAIN stored.CustomClaims
              /\ k \in DOMAIN token => token[k] = stored.CustomClaims[k]
        /\ mailed # None =>
              /\ mailed.InviteLink = token
              /\ mailed.RecipientEmail = token.email
              /\ mailed.Role = token.role /\ mailed.ResourceUID = token.resource_uid
              /\ mailed.ResourceType = stored.Resource.Type
        /\ reply # None /\ reply.InviteData # None =>
              reply.InviteData = [ UID |-> stored.UID, Email |-> stored.Recipient.Email,
                                   ExpiresAt |-> stored.ExpiresAt ]

(* The token opens the record for as long as the record can be accepted,   *)
(* although its expiry is cut down to a second and the record's is not,    *)
(* and for no longer than the leeway after that.                           *)
TokenLivesWithRecord ==
    stored # None =>
        \A t \in minted.at .. stored.ExpiresAt + Leeway * Second :
            /\ t < stored.ExpiresAt => Verify(token, t) /\ Binds(token, stored)
            /\ Verify(token, t) => t < stored.ExpiresAt + Leeway * Second

(* The claims that a request is refused for (pkg/api/invite.go:197-198).   *)
Oversized(r) ==
    \/ Cardinality(DOMAIN r.CustomClaims) > MaxCustomClaims
    \/ \E k \in DOMAIN r.CustomClaims : TooLong(k, r.CustomClaims[k])

(* What becomes of the custom claims does not depend on the order in which *)
(* the loop meets them, although one turn may end the request and another  *)
(* one skip an entry (generator.go:107-123).                               *)
ClaimsOrderFree ==
    /\ token # None =>
          ~Oversized(request) /\ accepted = DOMAIN request.CustomClaims \ reservedClaims
    /\ reply # None /\ minted # None =>
          (reply.Error = "invalid_request" <=> Oversized(request))

(* A host that the list covers: one of it, or a proper subdomain.          *)
Covered(host, allowed) ==
    \E p \in allowed :
        IF p.wild
        THEN \E n \in 1..Len(host) : host = SubSeq(host, 1, n) \o p.labels
        ELSE host = p.labels

(* An invite leads somewhere, and where it leads is the configured         *)
(* default, or an https address of a listed host (README.md:39), unless    *)
(* the list is empty (notification.go:32-34).                              *)
DestinationAllowed ==
    stored # None =>
        \/ stored.ReturnURL = config.DefaultReturnURL /\ stored.ReturnURL # ""
        \/ config.AllowedReturnURLHosts = {}
        \/ LET u == ParseURL[stored.ReturnURL] IN
           u.scheme = "https" /\ Covered(u.host, config.AllowedReturnURLHosts)

(* The first of two texts that says something.                             *)
Either(a, b) == IF a # "" THEN a ELSE b

PersonGiven(o)   == IF o = None THEN [f \in {"Name", "Email", "Username", "Avatar"} |-> ""] ELSE o
ResourceGiven(o) == IF o = None THEN [f \in {"UID", "Name", "Type", "ParentName"} |-> ""] ELSE o

(* Nothing that the contract lets a requester say is lost on the way       *)
(* through the internal request, its resolution and the record or payload  *)
(* ("omissions are caught", request_mapping.go:11-14), and what the        *)
(* structured objects say prevails over the scalars (pkg/api:160-164).     *)
NothingLost ==
    stored # None =>
        LET to == PersonGiven(request.Recipient)
            by == PersonGiven(request.Inviter)
            at == ResourceGiven(request.Resource)
        IN  /\ stored.Recipient.Name = Either(to.Name, request.RecipientName)
            /\ stored.Recipient.Username = to.Username
            /\ stored.Recipient.Avatar = to.Avatar
            /\ stored.Inviter = [by EXCEPT !.Name = Either(by.Name, request.InviterName)]
            /\ stored.Resource =
                  [ UID |-> Either(at.UID, request.ResourceUID),
                    Name |-> Either(at.Name, request.ResourceName),
                    Type |-> Either(at.Type, request.ResourceType),
                    ParentName |-> at.ParentName ]
            /\ stored.OrgName = request.OrgName
            /\ mailed # None =>
                  /\ mailed.ParentResourceName = at.ParentName
                  /\ mailed.RecipientName = stored.Recipient.Name
                  /\ mailed.InviterName = stored.Inviter.Name
                  /\ mailed.ResourceName = stored.Resource.Name
                  /\ mailed.RecipientHasAccount = request.RecipientHasAccount

(* A lookup by e-mail finds the invite under the address that the          *)
(* requester gave, display name and all, and under the one in the reply,   *)
(* although what is stored is neither (invite_read.go:56-58).              *)
LookupFindsRecipient ==
    stored # None =>
        \A e \in {Either(PersonGiven(request.Recipient).Email, request.RecipientEmail),
                  stored.Recipient.Email} :
            AddressKey[LookupAddress(e)] = AddressKey[stored.Recipient.Email]

-----------------------------------------------------------------------------
(* Why they hold                                                           *)

(* The internal form of the request at hand.                               *)
Internal == apiToModelRequest(request)

(* The turns of the loop that are over have kept what is not reserved, and *)
(* found nothing too long.                                                 *)
LoopInv ==
    /\ left \subseteq DOMAIN request.CustomClaims
    /\ accepted = (DOMAIN request.CustomClaims \ left) \ reservedClaims
    /\ ~(Cardinality(DOMAIN request.CustomClaims) > MaxCustomClaims)
    /\ \A k \in DOMAIN request.CustomClaims \ left : ~TooLong(k, request.CustomClaims[k])

(* The token is signed, and the loop before it is over.                    *)
Signed ==
    /\ minted # None
    /\ left = {} /\ LoopInv
    /\ token = TokenClaims(Internal)

(* What the handler has made, and what it made it from.                    *)
RequestMade ==
    /\ config.DefaultReturnURL \in Text \ {""}
    /\ config.AllowedReturnURLHosts \subseteq Pattern
    /\ request \in Request \cup {None}
    /\ pc \in {"generate", "claims", "create", "send"} =>
          request # None /\ Valid(Internal) /\ reply = None
    /\ pc \in {"idle", "generate"} =>
          /\ minted = None /\ token = None /\ stored = None /\ mailed = None /\ reply = None
          /\ accepted = {}
    /\ pc = "claims" => minted # None /\ LoopInv /\ token = None /\ stored = None /\ mailed = None
    /\ minted # None =>
          /\ request # None /\ Valid(Internal)
          /\ minted \in Link /\ minted.expires = ExpiresAt(Internal, minted.at)
    /\ pc \in {"create", "send"} \/ token # None \/ stored # None \/ mailed # None => Signed
    /\ stored # None => stored = buildInviteRecord(Internal)
    /\ mailed # None => mailed = InviteEmailPayload(Internal)
    /\ reply # None /\ minted # None => (reply.Error = "invalid_request" <=> Oversized(request))
    /\ reply # None /\ reply.InviteData # None =>
          reply.InviteData = [ UID |-> minted.uid, Email |-> CanonicalEmail(Internal),
                               ExpiresAt |-> minted.expires ]

RequestInv == RequestTypeOK /\ RequestMade

-----------------------------------------------------------------------------
(* What the documentation says and the code does not                       *)

(* "resource.type [...] Defaults to "resource" when empty" (README.md:37): *)
(* no invite is without a type.                                            *)
ResourceTypeDefaulted == stored # None => stored.Resource.Type # ""
=============================================================================
