------------------------ MODULE InviteRequestProofs -----------------------
(***************************************************************************)
(* The properties of InviteRequest, for all requests, texts, parsers,      *)
(* lengths and environments.                                               *)
(***************************************************************************)
EXTENDS InviteRequest, SequenceTheorems, TLAPS

-----------------------------------------------------------------------------
(* Operators                                                               *)

(* The mapping changes the objects of a request and nothing else.          *)
LEMMA MapKeeps ==
    ASSUME NEW r \in Request
    PROVE  LET m == apiToModelRequest(r) IN
           /\ m \in RequestType
           /\ m.Recipient = CopyPerson(r.Recipient)
           /\ m.Inviter = CopyPerson(r.Inviter)
           /\ m.Resource = CopyResource(r.Resource)
           /\ m.RecipientEmail = r.RecipientEmail /\ m.RecipientName = r.RecipientName
           /\ m.InviterName = r.InviterName /\ m.ResourceUID = r.ResourceUID
           /\ m.ResourceName = r.ResourceName /\ m.ResourceType = r.ResourceType
           /\ m.OrgName = r.OrgName /\ m.CustomClaims = r.CustomClaims
           /\ m.RecipientHasAccount = r.RecipientHasAccount
           /\ m.ExpirationDays = r.ExpirationDays
  <1>1. r \in RequestType
    BY InputAssumption
  <1>2. /\ CopyPerson(r.Recipient) \in PersonType \cup {None}
        /\ CopyPerson(r.Inviter) \in PersonType \cup {None}
        /\ CopyResource(r.Resource) \in ResourceType \cup {None}
    BY <1>1 DEF RequestType, CopyPerson, CopyResource, PersonType, ResourceType
  <1> QED
    BY <1>1, <1>2 DEF apiToModelRequest, RequestType

(* What a signed token says, when no custom claim has a reserved key.      *)
LEMMA TokenReads ==
    ASSUME NEW r, accepted \cap reservedClaims = {}
    PROVE  LET tok == TokenClaims(r) IN
           /\ tok.iss = "lfx-v2-invite-service" /\ tok.aud = "lfx-self-serve"
           /\ tok.jti = minted.uid /\ tok.invite_uid = minted.uid
           /\ tok.email = CanonicalEmail(r) /\ tok.return_url = DestURL(r)
           /\ tok.resource_uid = ResolvedResourceUID(r)
           /\ tok.role = TrimSpace[r.Role]
           /\ tok.iat = Unix(minted.at) /\ tok.nbf = Unix(minted.at)
           /\ tok.exp = Unix(minted.expires)
  <1> DEFINE A == AcceptedClaims(r)
             T == TypeClaim(r)
             B == BaseClaims(r)
  <1>1. DOMAIN A = accepted
    BY DEF AcceptedClaims
  <1>2. DOMAIN T \subseteq {"resource_type"}
    BY DEF TypeClaim
  <1>3. ASSUME NEW k \in reservedClaims \ {"resource_type"}, k \in DOMAIN B
        PROVE  TokenClaims(r)[k] = B[k]
    <2>1. k \notin DOMAIN A /\ k \notin DOMAIN T
      BY <1>1, <1>2, <1>3
    <2> QED
      BY <2>1, <1>3 DEF TokenClaims, Over
  <1> QED
    BY <1>3 DEF BaseClaims, reservedClaims

(* The claims of a signed token that are not the service's own are the     *)
(* accepted ones, and there is a type in it when there is one.             *)
LEMMA TokenAdds ==
    ASSUME NEW r, accepted \cap reservedClaims = {}
    PROVE  LET tok == TokenClaims(r) IN
           /\ \A k \in ClaimKey \ reservedClaims :
                 /\ k \in DOMAIN tok <=> k \in DOMAIN AcceptedClaims(r)
                 /\ k \in DOMAIN tok => tok[k] = AcceptedClaims(r)[k]
           /\ ResolvedResourceType(r) =
                 IF "resource_type" \in DOMAIN tok THEN tok.resource_type ELSE ""
  <1> DEFINE A == AcceptedClaims(r)
             T == TypeClaim(r)
             B == BaseClaims(r)
             tok == TokenClaims(r)
  <1>1. DOMAIN A = accepted
    BY DEF AcceptedClaims
  <1>2. DOMAIN T = IF ResolvedResourceType(r) = "" THEN {} ELSE {"resource_type"}
    BY DEF TypeClaim
  <1>3. DOMAIN B = {"iss", "aud", "iat", "nbf", "exp", "jti", "invite_uid", "email",
                    "return_url", "resource_uid", "role"}
    BY DEF BaseClaims
  <1>4. "resource_type" \in reservedClaims /\ DOMAIN B \subseteq reservedClaims
    BY <1>3 DEF reservedClaims
  <1>5. /\ DOMAIN tok = DOMAIN A \cup DOMAIN T \cup DOMAIN B
        /\ \A k \in DOMAIN tok :
              tok[k] = IF k \in DOMAIN A THEN A[k] ELSE IF k \in DOMAIN T THEN T[k] ELSE B[k]
    BY DEF TokenClaims, Over
  <1>6. ASSUME NEW k \in ClaimKey \ reservedClaims
        PROVE  /\ k \in DOMAIN tok <=> k \in DOMAIN A
               /\ k \in DOMAIN tok => tok[k] = A[k]
    <2>1. k \notin DOMAIN T /\ k \notin DOMAIN B
      BY <1>2, <1>4
    <2> QED
      BY <2>1, <1>5
  <1>7. "resource_type" \notin DOMAIN A /\ "resource_type" \notin DOMAIN B
    BY <1>1, <1>3, <1>4
  <1>8. CASE ResolvedResourceType(r) = ""
    <2>1. "resource_type" \notin DOMAIN tok
      BY <1>2, <1>5, <1>7, <1>8
    <2> QED
      BY <2>1, <1>6, <1>8
  <1>9. CASE ResolvedResourceType(r) # ""
    <2>1. "resource_type" \in DOMAIN tok /\ tok["resource_type"] = T["resource_type"]
      BY <1>2, <1>5, <1>7, <1>9
    <2>2. T["resource_type"] = ResolvedResourceType(r)
      BY <1>9 DEF TypeClaim
    <2> QED
      BY <2>1, <2>2, <1>6
  <1> QED
    BY <1>8, <1>9

(* The addresses and texts that validation makes are texts.                *)
LEMMA Canonical ==
    ASSUME NEW r \in Request, Valid(apiToModelRequest(r))
    PROVE  /\ CanonicalEmail(apiToModelRequest(r)) \in Text
           /\ ResolvedRecipientEmail(apiToModelRequest(r)) \in Text
           /\ ResolvedRecipientEmail(apiToModelRequest(r)) =
                 Either(PersonGiven(r.Recipient).Email, r.RecipientEmail)
  <1> DEFINE m == apiToModelRequest(r)
  <1>1. r \in RequestType /\ m.RecipientEmail = r.RecipientEmail
        /\ m.Recipient = CopyPerson(r.Recipient)
    BY MapKeeps, InputAssumption
  <1>2. ResolvedRecipientEmail(m) = Either(PersonGiven(r.Recipient).Email, r.RecipientEmail)
    BY <1>1, InputAssumption
       DEF ResolvedRecipientEmail, Resolved, Either, PersonGiven, CopyPerson, RequestType, PersonType
  <1>3. ResolvedRecipientEmail(m) \in Text
    BY <1>1, <1>2, InputAssumption DEF Either, PersonGiven, RequestType, PersonType
  <1> QED
    BY <1>2, <1>3, RequestAssumption DEF Valid, CanonicalEmail

-----------------------------------------------------------------------------
(* The properties follow from the invariant                                *)

(* Record, link, e-mail and answer are of the same invite.                 *)
LEMMA Agreement == RequestMade => OneInviteEverywhere
  <1> SUFFICES ASSUME RequestMade, stored # None
               PROVE  OneInviteEverywhere
    BY DEF OneInviteEverywhere
  <1> DEFINE m == Internal
  <1>1. /\ token = TokenClaims(m) /\ stored = buildInviteRecord(m)
        /\ minted # None /\ LoopInv
    BY DEF RequestMade, Signed
  <1>2. accepted \cap reservedClaims = {}
    BY <1>1 DEF LoopInv
  <1>3. /\ stored.UID = minted.uid
        /\ stored.ReturnURL = DestURL(m)
        /\ stored.Resource.UID = ResolvedResourceUID(m)
        /\ stored.Resource.Type = ResolvedResourceType(m)
        /\ stored.Role = TrimSpace[m.Role]
        /\ stored.CustomClaims = AcceptedClaims(m)
        /\ stored.ExpiresAt = minted.expires
    BY <1>1 DEF buildInviteRecord
  <1>4. stored.Recipient.Email = CanonicalEmail(m)
    <2>1. request \in Request
      BY <1>1 DEF RequestMade, Signed
    <2>2. Given(m.Recipient) \in [Name : Text, Email : Text, Username : Text, Avatar : Text]
      BY <2>1, MapKeeps, RequestAssumption, InputAssumption
         DEF Internal, Given, NoPerson, RequestType, PersonType
    <2> QED
      BY <1>1, <2>2 DEF buildInviteRecord
  <1>5. mailed # None =>
          /\ mailed.InviteLink = token
          /\ mailed.RecipientEmail = CanonicalEmail(m)
          /\ mailed.Role = TrimSpace[m.Role] /\ mailed.ResourceUID = ResolvedResourceUID(m)
          /\ mailed.ResourceType = ResolvedResourceType(m)
    <2>1. mailed # None => mailed = InviteEmailPayload(m)
      BY DEF RequestMade, Signed
    <2> QED
      BY <2>1 DEF InviteEmailPayload
  <1>6. reply # None /\ reply.InviteData # None =>
          reply.InviteData = [ UID |-> minted.uid, Email |-> CanonicalEmail(m),
                               ExpiresAt |-> minted.expires ]
    BY DEF RequestMade, Signed
  <1> QED
    BY <1>1, <1>2, <1>3, <1>4, <1>5, <1>6, TokenReads, TokenAdds DEF OneInviteEverywhere

(* The claims that get into the link do not depend on their order.         *)
LEMMA OrderIsImmaterial == RequestMade => ClaimsOrderFree
  <1> SUFFICES ASSUME RequestMade
               PROVE  ClaimsOrderFree
    OBVIOUS
  <1>1. ASSUME token # None
        PROVE  ~Oversized(request) /\ accepted = DOMAIN request.CustomClaims \ reservedClaims
    <2>1. left = {} /\ LoopInv
      BY <1>1 DEF RequestMade, Signed
    <2> QED
      BY <2>1 DEF LoopInv, Oversized
  <1>2. reply # None /\ minted # None => (reply.Error = "invalid_request" <=> Oversized(request))
    BY DEF RequestMade, Signed
  <1> QED
    BY <1>1, <1>2 DEF ClaimsOrderFree

(* What the requester said is in the record and in the e-mail.             *)
LEMMA NothingIsLost == RequestMade => NothingLost
  <1> SUFFICES ASSUME RequestMade, stored # None
               PROVE  NothingLost
    BY DEF NothingLost
  <1> DEFINE m == Internal
             to == PersonGiven(request.Recipient)
             by == PersonGiven(request.Inviter)
             at == ResourceGiven(request.Resource)
  <1>1. /\ request \in Request /\ stored = buildInviteRecord(m)
        /\ mailed # None => mailed = InviteEmailPayload(m)
    BY DEF RequestMade, Signed
  <1>2. request \in RequestType
    BY <1>1, InputAssumption
  <1>3. /\ m.Recipient = CopyPerson(request.Recipient)
        /\ m.Inviter = CopyPerson(request.Inviter)
        /\ m.Resource = CopyResource(request.Resource)
        /\ m.RecipientName = request.RecipientName /\ m.InviterName = request.InviterName
        /\ m.ResourceUID = request.ResourceUID /\ m.ResourceName = request.ResourceName
        /\ m.ResourceType = request.ResourceType /\ m.OrgName = request.OrgName
        /\ m.RecipientHasAccount = request.RecipientHasAccount
    BY <1>1, MapKeeps DEF Internal
  <1>4. /\ Given(m.Recipient) = to /\ to \in PersonType
        /\ Given(m.Inviter) = by /\ by \in PersonType
    <2>1. ASSUME NEW o \in PersonType \cup {None}
          PROVE  Given(CopyPerson(o)) = PersonGiven(o) /\ PersonGiven(o) \in PersonType
      <3>1. CASE o = None
        BY <3>1, RequestAssumption DEF Given, NoPerson, PersonGiven, CopyPerson, PersonType
      <3>2. CASE o # None
        <4>1. CopyPerson(o) = o /\ PersonGiven(o) = o /\ o \in PersonType
          BY <3>2 DEF PersonGiven, CopyPerson, PersonType
        <4> QED
          BY <3>2, <4>1 DEF Given
      <3> QED
        BY <3>1, <3>2
    <2>2. request.Recipient \in PersonType \cup {None} /\ request.Inviter \in PersonType \cup {None}
      BY <1>2 DEF RequestType
    <2> QED
      BY <1>3, <2>1, <2>2
  <1>5. /\ ResolvedRecipientName(m) = Either(to.Name, request.RecipientName)
        /\ ResolvedInviterName(m) = Either(by.Name, request.InviterName)
    <2>1. ASSUME NEW o \in PersonType \cup {None}, NEW n
          PROVE  Resolved(CopyPerson(o), "Name", n) = Either(PersonGiven(o).Name, n)
      <3>1. CASE o = None
        BY <3>1 DEF Resolved, Either, PersonGiven, CopyPerson
      <3>2. CASE o # None
        <4>1. CopyPerson(o) = o /\ PersonGiven(o) = o
          BY <3>2 DEF PersonGiven, CopyPerson, PersonType
        <4> QED
          BY <3>2, <4>1 DEF Resolved, Either
      <3> QED
        BY <3>1, <3>2
    <2>2. request.Recipient \in PersonType \cup {None} /\ request.Inviter \in PersonType \cup {None}
      BY <1>2 DEF RequestType
    <2> QED
      BY <1>3, <2>1, <2>2 DEF ResolvedRecipientName, ResolvedInviterName
  <1>6. /\ ResolvedResourceUID(m) = Either(at.UID, request.ResourceUID)
        /\ ResolvedResourceName(m) = Either(at.Name, request.ResourceName)
        /\ ResolvedResourceType(m) = Either(at.Type, request.ResourceType)
        /\ ResolvedParentResourceName(m) = at.ParentName
    BY <1>2, <1>3, InputAssumption
       DEF ResolvedResourceUID, ResolvedResourceName, ResolvedResourceType,
           ResolvedParentResourceName, Resolved, Either, ResourceGiven, CopyResource,
           RequestType, ResourceType
  <1>7. /\ stored.Recipient.Name = ResolvedRecipientName(m)
        /\ stored.Recipient.Username = to.Username /\ stored.Recipient.Avatar = to.Avatar
        /\ stored.Inviter = [by EXCEPT !.Name = ResolvedInviterName(m)]
        /\ stored.Inviter.Name = ResolvedInviterName(m)
    BY <1>1, <1>4 DEF buildInviteRecord, PersonType
  <1>8. /\ stored.Resource = [ UID |-> ResolvedResourceUID(m), Name |-> ResolvedResourceName(m),
                               Type |-> ResolvedResourceType(m),
                               ParentName |-> ResolvedParentResourceName(m) ]
        /\ stored.OrgName = m.OrgName
    BY <1>1 DEF buildInviteRecord
  <1>9. mailed # None =>
          /\ mailed.ParentResourceName = ResolvedParentResourceName(m)
          /\ mailed.RecipientName = ResolvedRecipientName(m)
          /\ mailed.InviterName = ResolvedInviterName(m)
          /\ mailed.ResourceName = ResolvedResourceName(m)
          /\ mailed.RecipientHasAccount = m.RecipientHasAccount
    BY <1>1 DEF InviteEmailPayload
  <1> QED
    BY <1>3, <1>5, <1>6, <1>7, <1>8, <1>9 DEF NothingLost

(* The addresses that a requester knows lead to the one that is stored.    *)
LEMMA RecipientIsFound == RequestMade => LookupFindsRecipient
  <1> SUFFICES ASSUME RequestMade, stored # None
               PROVE  LookupFindsRecipient
    BY DEF LookupFindsRecipient
  <1> DEFINE m == Internal
             raw == Either(PersonGiven(request.Recipient).Email, request.RecipientEmail)
             canonical == CanonicalEmail(m)
  <1>1. request \in Request /\ Valid(m) /\ stored = buildInviteRecord(m)
    BY DEF RequestMade, Signed
  <1>2. raw \in Text /\ canonical \in Text /\ canonical = ParseAddress[raw] /\ canonical # None
    BY <1>1, Canonical DEF Internal, CanonicalEmail, Valid
  <1>3. stored.Recipient.Email = canonical
    <2>1. Given(m.Recipient) \in PersonType
      BY <1>1, MapKeeps, RequestAssumption, InputAssumption
         DEF Internal, Given, NoPerson, RequestType, PersonType
    <2> QED
      BY <1>1, <2>1 DEF buildInviteRecord, PersonType
  <1>4. LookupAddress(raw) = canonical
    BY <1>2 DEF LookupAddress
  <1>5. LookupAddress(canonical) = canonical
    BY <1>2, CanonicalAssumption DEF LookupAddress
  <1> QED
    BY <1>3, <1>4, <1>5 DEF LookupFindsRecipient

(* A pattern covers the names that end in its labels and have one more.    *)
LEMMA MatchIsCovered ==
    ASSUME NEW host \in Host, NEW allowed \in SUBSET Pattern, NEW p \in allowed,
           matchHost(host, p)
    PROVE  Covered(host, allowed)
  <1> DEFINE n == Len(host) - Len(p.labels)
  <1>1. p.labels \in Seq(Label) /\ host \in Seq(Label)
    BY DEF Pattern, Host
  <1>2. ASSUME p.wild
        PROVE  n \in 1..Len(host) /\ SubSeq(host, n + 1, Len(host)) = p.labels
    <2>1. n > 0 /\ SubSeq(host, n + 1, Len(host)) = p.labels
      BY <1>2, Zenon DEF matchHost
    <2>2. ASSUME NEW a \in Nat, NEW b \in Nat, a - b > 0
          PROVE  a - b \in 1..a
      BY <2>2
    <2>3. Len(host) \in Nat /\ Len(p.labels) \in Nat
      BY <1>1
    <2> QED
      BY <2>1, <2>2, <2>3
  <1>3. ASSUME p.wild
        PROVE  host = SubSeq(host, 1, n) \o p.labels
    <2>0. /\ 1 \in 1..Len(host) + 1 /\ n \in (1 - 1)..Len(host)
          /\ Len(host) \in n..Len(host)
      BY <1>2, <1>3
    <2>1. SubSeq(host, 1, n) \o SubSeq(host, n + 1, Len(host)) = SubSeq(host, 1, Len(host))
      <3> HIDE DEF n
      <3> QED
        BY <1>1, <2>0, ConcatAdjacentSubSeq
    <2> QED
      BY <1>1, <1>2, <1>3, <2>1, SubSeqFull
  <1> QED
    BY <1>2, <1>3 DEF Covered, matchHost

(* A link leads to a destination that is allowed.                          *)
LEMMA DestinationIsAllowed == RequestMade => DestinationAllowed
  <1> SUFFICES ASSUME RequestMade, stored # None,
                      stored.ReturnURL # config.DefaultReturnURL,
                      config.AllowedReturnURLHosts # {}
               PROVE  LET u == ParseURL[stored.ReturnURL] IN
                      u.scheme = "https" /\ Covered(u.host, config.AllowedReturnURLHosts)
    BY DEF DestinationAllowed, RequestMade
  <1> DEFINE m == Internal
             u == ParseURL[stored.ReturnURL]
  <1>1. Valid(m) /\ stored = buildInviteRecord(m) /\ request \in Request
    BY DEF RequestMade, Signed
  <1>2. stored.ReturnURL = DestURL(m)
    BY <1>1 DEF buildInviteRecord
  <1>3. m.ReturnURL # "" /\ stored.ReturnURL = m.ReturnURL
    BY <1>2 DEF DestURL
  <1>4. stored.ReturnURL \in Text
    BY <1>1, <1>3, MapKeeps DEF Internal, RequestType
  <1>5. /\ u # None /\ u.scheme = "https"
        /\ \E p \in config.AllowedReturnURLHosts : matchHost(u.host, p)
    BY <1>1, <1>3 DEF Valid, validateReturnURL
  <1>6. u.host \in Host
    BY <1>4, <1>5, URLAssumption
  <1>7. config.AllowedReturnURLHosts \subseteq Pattern
    BY DEF RequestMade, Signed
  <1> QED
    BY <1>5, <1>6, <1>7, MatchIsCovered

(* Cutting an instant down to a second loses less than a second.           *)
LEMMA WholeSeconds ==
    ASSUME NEW t \in Nat
    PROVE  /\ Unix(t) \in Nat
           /\ Unix(t) * Second <= t
           /\ t < Unix(t) * Second + Second
  BY ClockAssumption DEF Unix

(* The token opens the record while it lasts, and hardly longer.            *)
LEMMA TokenLives == RequestMade => TokenLivesWithRecord
  <1> SUFFICES ASSUME RequestMade, stored # None,
                      NEW t \in minted.at .. stored.ExpiresAt + Leeway * Second
               PROVE  /\ t < stored.ExpiresAt => Verify(token, t) /\ Binds(token, stored)
                      /\ Verify(token, t) => t < stored.ExpiresAt + Leeway * Second
    BY DEF TokenLivesWithRecord
  <1> DEFINE m == Internal
             a == Unix(minted.at)
             e == Unix(minted.expires)
  <1>1. /\ token = TokenClaims(m) /\ stored = buildInviteRecord(m) /\ LoopInv
        /\ minted \in Link /\ request \in Request /\ Valid(m)
    BY DEF RequestMade, Signed
  <1>2. accepted \cap reservedClaims = {}
    BY <1>1 DEF LoopInv
  <1>3. /\ token.iss = "lfx-v2-invite-service" /\ token.aud = "lfx-self-serve"
        /\ token.jti = minted.uid /\ token.invite_uid = minted.uid
        /\ token.email = CanonicalEmail(m)
        /\ token.iat = a /\ token.nbf = a /\ token.exp = e
    BY <1>1, <1>2, TokenReads
  <1>4. stored.ExpiresAt = minted.expires /\ stored.UID = minted.uid
    BY <1>1 DEF buildInviteRecord
  <1>5. stored.Recipient.Email = CanonicalEmail(m)
    <2>1. Given(m.Recipient) \in PersonType
      BY <1>1, MapKeeps, RequestAssumption, InputAssumption
         DEF Internal, Given, NoPerson, RequestType, PersonType
    <2> QED
      BY <1>1, <2>1 DEF buildInviteRecord, PersonType
  <1>6. minted.uid # "" /\ CanonicalEmail(m) # ""
    <2>1. minted.uid # ""
      BY <1>1, RequestAssumption DEF Link
    <2>2. ResolvedRecipientEmail(m) \in Text /\ ParseAddress[ResolvedRecipientEmail(m)] # None
      BY <1>1, Canonical DEF Internal, Valid
    <2> QED
      BY <2>1, <2>2, RequestAssumption DEF CanonicalEmail
  <1>7. /\ minted.at \in Nat /\ minted.expires \in Nat
        /\ Second \in Nat /\ Second > 0 /\ Leeway \in Nat /\ Leeway > 0
    BY <1>1, ClockAssumption DEF Link
  <1>8. /\ a \in Nat /\ a * Second <= minted.at
        /\ e \in Nat /\ e * Second <= minted.expires /\ minted.expires < e * Second + Second
    BY <1>7, WholeSeconds
  <1>9. /\ (e + Leeway) * Second = e * Second + Leeway * Second
        /\ (a - Leeway) * Second = a * Second - Leeway * Second
        /\ Leeway * Second >= Second
        /\ Leeway * Second \in Nat /\ e * Second \in Nat /\ a * Second \in Nat
    <2> HIDE DEF a, e
    <2> QED
      BY <1>7, <1>8
  <1>10. t \in Int /\ minted.at <= t
    BY <1>4, <1>7, <1>9
  <1>11. t < stored.ExpiresAt => Timely(token, t)
    <2> HIDE DEF a, e
    <2> QED
      BY <1>3, <1>4, <1>7, <1>8, <1>9, <1>10 DEF Timely
  <1>12. Timely(token, t) => t < stored.ExpiresAt + Leeway * Second
    <2> HIDE DEF a, e
    <2> QED
      BY <1>3, <1>4, <1>7, <1>8, <1>9, <1>10 DEF Timely
  <1> QED
    BY <1>3, <1>4, <1>5, <1>6, <1>11, <1>12 DEF Verify, Binds

-----------------------------------------------------------------------------
(* The invariant is inductive                                              *)

(* What is derived from the request, the configuration, the link and the   *)
(* accepted claims changes with one of them only.                          *)
LEMMA Derived ==
    ASSUME UNCHANGED <<config, request>>
    PROVE  /\ Internal' = Internal
           /\ Valid(Internal)' <=> Valid(Internal)
           /\ CanonicalEmail(Internal)' = CanonicalEmail(Internal)
           /\ \A t : ExpiresAt(Internal, t)' = ExpiresAt(Internal, t')
           /\ Oversized(request)' <=> Oversized(request)
           /\ UNCHANGED <<minted, accepted>> =>
                 /\ TokenClaims(Internal)' = TokenClaims(Internal)
                 /\ buildInviteRecord(Internal)' = buildInviteRecord(Internal)
                 /\ UNCHANGED token =>
                       InviteEmailPayload(Internal)' = InviteEmailPayload(Internal)
  <1>1. Internal' = Internal
    BY DEF Internal
  <1>2. Valid(Internal)' <=> Valid(Internal)
    BY <1>1 DEF Valid
  <1>3. CanonicalEmail(Internal)' = CanonicalEmail(Internal) /\ DestURL(Internal)' = DestURL(Internal)
    BY <1>1 DEF CanonicalEmail, DestURL
  <1>4. \A t : ExpiresAt(Internal, t)' = ExpiresAt(Internal, t')
    BY <1>1 DEF ExpiresAt
  <1>5. Oversized(request)' <=> Oversized(request)
    BY DEF Oversized
  <1>6. ASSUME UNCHANGED <<minted, accepted>>
        PROVE  /\ TokenClaims(Internal)' = TokenClaims(Internal)
               /\ buildInviteRecord(Internal)' = buildInviteRecord(Internal)
               /\ UNCHANGED token =>
                     InviteEmailPayload(Internal)' = InviteEmailPayload(Internal)
    <2>1. AcceptedClaims(Internal)' = AcceptedClaims(Internal)
      BY <1>1, <1>6 DEF AcceptedClaims
    <2>2. BaseClaims(Internal)' = BaseClaims(Internal)
      BY <1>1, <1>3, <1>6 DEF BaseClaims
    <2>3. TypeClaim(Internal)' = TypeClaim(Internal)
      BY <1>1 DEF TypeClaim
    <2>4. TokenClaims(Internal)' = TokenClaims(Internal)
      BY <2>1, <2>2, <2>3 DEF TokenClaims
    <2>5. buildInviteRecord(Internal)' = buildInviteRecord(Internal)
      BY <1>1, <1>3, <1>6, <2>1 DEF buildInviteRecord
    <2>6. UNCHANGED token => InviteEmailPayload(Internal)' = InviteEmailPayload(Internal)
      BY <1>1, <1>3 DEF InviteEmailPayload
    <2> QED
      BY <2>4, <2>5, <2>6
  <1> QED
    BY <1>1, <1>2, <1>3, <1>4, <1>5, <1>6

(* Nothing is made at first.                                               *)
LEMMA InitRequest == Init => RequestMade
  <1> SUFFICES ASSUME NEW env \in Environment, config = AppConfigFromEnv(env),
                      pc = "idle", request = None, minted = None, token = None,
                      stored = None, mailed = None, reply = None, accepted = {}
               PROVE  RequestMade
    BY DEF Init
  <1>1. env.selfServe \in Text /\ env.returnURL \in Text /\ env.allowed \in Seq(Pattern \cup {None})
    BY URLAssumption
  <1>2. SelfServeBaseURL(env) \in Text \ {""}
    BY <1>1, RequestAssumption DEF SelfServeBaseURL
  <1>3. config.DefaultReturnURL \in Text \ {""}
    BY <1>1, <1>2 DEF AppConfigFromEnv
  <1>4. DefaultPatterns \subseteq Pattern
    <2>1. <<"lfx", "dev">> \in Seq(Label) /\ <<"linuxfoundation", "org">> \in Seq(Label)
      <3>1. \A a, b \in Label : <<a, b>> \in Seq(Label)
        OBVIOUS
      <3> QED
        BY <3>1, URLAssumption
    <2> QED
      BY <2>1 DEF DefaultPatterns, Pattern
  <1>5. parseAllowedReturnURLHosts(env.allowed) \subseteq Pattern
    BY <1>1, <1>4 DEF parseAllowedReturnURLHosts
  <1>6. config.AllowedReturnURLHosts \subseteq Pattern
    BY <1>5 DEF AppConfigFromEnv
  <1> QED
    BY <1>3, <1>6 DEF RequestMade

(* A request that cannot be read is answered, and makes nothing.           *)
LEMMA MalformedKeeps == RequestMade /\ Malformed => RequestMade'
  <1> SUFFICES ASSUME RequestMade, Malformed
               PROVE  RequestMade'
    OBVIOUS
  <1>1. /\ UNCHANGED <<config, request, minted, token, stored, mailed>>
        /\ pc' = "reply" /\ reply' = [ Error |-> "malformed_request", InviteData |-> None ]
        /\ minted = None /\ token = None /\ stored = None /\ mailed = None
    BY DEF RequestMade, Malformed, Answer, madeVars
  <1> QED
    BY <1>1 DEF RequestMade

(* So is one that is refused; any other is taken up.                       *)
LEMMA ValidateKeeps ==
    ASSUME RequestMade, NEW r \in Request, Validate(r)
    PROVE  RequestMade'
  <1>1. Valid(apiToModelRequest(r)) => Valid(Internal)'
    BY DEF Validate, Valid, Internal
  <1>2. request' \in Request /\ request' # None
    BY InputAssumption DEF Validate
  <1>3. /\ UNCHANGED <<config, minted, left, accepted, token, stored, mailed>>
        /\ minted = None /\ token = None /\ stored = None /\ mailed = None /\ reply = None
        /\ accepted = {}
    BY DEF RequestMade, Validate, madeVars
  <1>4. CASE pc' = "generate" /\ reply' = reply /\ Valid(Internal)'
    BY <1>2, <1>3, <1>4 DEF RequestMade
  <1>5. CASE pc' = "reply" /\ reply' = [ Error |-> "invalid_request", InviteData |-> None ]
    BY <1>2, <1>3, <1>5 DEF RequestMade
  <1> QED
    BY <1>1, <1>4, <1>5 DEF Validate, Answer

(* A new link is a link.                                                   *)
LEMMA MintLinks ==
    ASSUME RequestMade, NEW u \in UID, NEW t \in Instant, Mint(u, t)
    PROVE  minted' \in Link /\ minted' # None
  <1>1. /\ minted' = [ uid |-> u, at |-> t, expires |-> ExpiresAt(Internal, t) ]
        /\ request \in Request
    BY DEF Mint, Internal, RequestMade
  <1>2. Lifetime(Internal.ExpirationDays) \in Nat
    <2>1. Internal.ExpirationDays \in Int
      BY <1>1, MapKeeps DEF Internal, RequestType
    <2> QED
      BY <2>1, ClockAssumption DEF Lifetime
  <1>3. Lifetime(Internal.ExpirationDays) * Day \in Nat
    <2>1. \A a, b \in Nat : a * b \in Nat
      OBVIOUS
    <2> QED
      BY <1>2, <2>1, ClockAssumption
  <1>4. ExpiresAt(Internal, t) \in Nat
    BY <1>3, ClockAssumption DEF ExpiresAt
  <1> QED
    BY <1>1, <1>4, ClockAssumption, InputAssumption DEF Link

(* An invite gets its identity and its expiry once.                        *)
LEMMA MintKeeps ==
    ASSUME RequestMade, NEW u \in UID, NEW t \in Instant, Mint(u, t)
    PROVE  RequestMade'
  <1>1. /\ UNCHANGED <<config, request, accepted, token, stored, mailed>>
        /\ minted' = [ uid |-> u, at |-> t, expires |-> ExpiresAt(Internal, t) ]
        /\ left' = DOMAIN Internal.CustomClaims
        /\ pc = "generate" /\ request \in Request /\ Valid(Internal) /\ request # None
        /\ accepted = {}
    BY DEF Mint, Internal, RequestMade
  <1>2. Internal' = Internal /\ Valid(Internal)' /\ (Oversized(request)' <=> Oversized(request))
    BY <1>1, Derived
  <1>4. minted' \in Link /\ minted' # None
    BY MintLinks
  <1>5. minted'.expires = ExpiresAt(Internal, minted.at)'
    BY <1>1, <1>2 DEF ExpiresAt
  <1>6. Internal.CustomClaims = request.CustomClaims
    BY <1>1, MapKeeps DEF Internal
  <1>7. CASE Cardinality(left') > MaxCustomClaims
    <2>1. Oversized(request)
      BY <1>1, <1>6, <1>7 DEF Oversized
    <2>2. pc' = "reply" /\ reply' = [ Error |-> "invalid_request", InviteData |-> None ]
      BY <1>7 DEF Mint, Answer
    <2> QED
      BY <1>1, <1>2, <1>4, <1>5, <2>1, <2>2 DEF RequestMade
  <1>8. CASE ~(Cardinality(left') > MaxCustomClaims)
    <2>1. pc' = "claims" /\ reply' = reply
      BY <1>8 DEF Mint
    <2>2. LoopInv'
      BY <1>1, <1>6, <1>8 DEF LoopInv
    <2> QED
      BY <1>1, <1>2, <1>4, <1>5, <2>1, <2>2 DEF RequestMade
  <1> QED
    BY <1>7, <1>8

(* A claim is taken or left.                                               *)
LEMMA VisitClaimKeeps ==
    ASSUME RequestMade, NEW k \in ClaimKey, VisitClaim(k)
    PROVE  RequestMade'
  <1> DEFINE v == request.CustomClaims[k]
  <1>1. /\ UNCHANGED <<config, request, minted, token, stored, mailed>>
        /\ left' = left \ {k} /\ k \in left /\ pc = "claims"
        /\ LoopInv /\ token = None /\ stored = None /\ mailed = None /\ reply = None
        /\ minted # None /\ request # None /\ Valid(Internal)
    BY DEF VisitClaim, RequestMade
  <1>2. /\ Internal' = Internal /\ Valid(Internal)' /\ (Oversized(request)' <=> Oversized(request))
        /\ ExpiresAt(Internal, minted.at)' = ExpiresAt(Internal, minted.at)
    BY <1>1, Derived
  <1>3. CASE TooLong(k, v)
    <2>1. pc' = "reply" /\ reply' = [ Error |-> "invalid_request", InviteData |-> None ]
      BY <1>3 DEF VisitClaim, Answer
    <2>2. Oversized(request)
      BY <1>1, <1>3 DEF LoopInv, Oversized
    <2> QED
      BY <1>1, <1>2, <2>1, <2>2 DEF RequestMade
  <1>4. CASE ~TooLong(k, v)
    <2>1. /\ accepted' = IF k \in reservedClaims THEN accepted ELSE accepted \cup {k}
          /\ pc' = pc /\ reply' = reply
      BY <1>4 DEF VisitClaim, IsReserved
    <2>2. LoopInv'
      BY <1>1, <1>4, <2>1 DEF LoopInv
    <2> QED
      BY <1>1, <1>2, <2>1, <2>2 DEF RequestMade
  <1> QED
    BY <1>3, <1>4

(* The token is signed when all claims were seen, or never.                *)
LEMMA SignKeeps == RequestMade /\ Sign => RequestMade'
  <1> SUFFICES ASSUME RequestMade, Sign
               PROVE  RequestMade'
    OBVIOUS
  <1>1. /\ UNCHANGED <<config, request, minted, left, accepted, stored, mailed>>
        /\ left = {} /\ LoopInv /\ token = None /\ stored = None /\ mailed = None
        /\ minted # None /\ request # None /\ Valid(Internal)
    BY DEF Sign, RequestMade
  <1>2. /\ Internal' = Internal /\ Valid(Internal)' /\ (Oversized(request)' <=> Oversized(request))
        /\ ExpiresAt(Internal, minted.at)' = ExpiresAt(Internal, minted.at)
        /\ TokenClaims(Internal)' = TokenClaims(Internal)
    BY <1>1, Derived
  <1>3. ~Oversized(request)
    BY <1>1 DEF LoopInv, Oversized
  <1>4. LoopInv'
    BY <1>1 DEF LoopInv
  <1>5. CASE token' = TokenClaims(Internal) /\ pc' = "create" /\ reply' = reply
    <2>1. Signed'
      BY <1>1, <1>2, <1>4, <1>5 DEF Signed
    <2> QED
      BY <1>1, <1>2, <1>5, <2>1 DEF RequestMade, Sign
  <1>6. CASE Answer("internal_error", None) /\ token' = token
    BY <1>1, <1>2, <1>3, <1>6 DEF RequestMade, Answer
  <1> QED
    BY <1>5, <1>6 DEF Sign, Internal

(* The steps after the token was signed leave what it was made of.         *)
LEMMA SignedKeeps ==
    ASSUME Signed, UNCHANGED <<config, request, minted, left, accepted, token>>
    PROVE  Signed' /\ ~Oversized(request)
  <1>1. TokenClaims(Internal)' = TokenClaims(Internal)
    BY Derived
  <1>2. LoopInv'
    BY DEF LoopInv, Signed
  <1> QED
    BY <1>1, <1>2 DEF Signed, LoopInv, Oversized

(* The record is of what was minted.                                       *)
LEMMA PersistKeeps == RequestMade /\ Persist => RequestMade'
  <1> SUFFICES ASSUME RequestMade, Persist
               PROVE  RequestMade'
    OBVIOUS
  <1>1. /\ UNCHANGED <<config, request, minted, left, accepted, token, mailed>>
        /\ pc = "create"
    BY DEF Persist
  <1>0. /\ Signed /\ reply = None
        /\ minted # None /\ request # None /\ Valid(Internal)
    BY <1>1 DEF RequestMade, Signed
  <1>2. /\ Internal' = Internal /\ Valid(Internal)' /\ (Oversized(request)' <=> Oversized(request))
        /\ ExpiresAt(Internal, minted.at)' = ExpiresAt(Internal, minted.at)
        /\ buildInviteRecord(Internal)' = buildInviteRecord(Internal)
        /\ InviteEmailPayload(Internal)' = InviteEmailPayload(Internal)
    BY <1>0, <1>1, Derived
  <1>3. Signed' /\ ~Oversized(request)
    BY <1>0, <1>1, SignedKeeps
  <1>4. CASE stored' = buildInviteRecord(Internal) /\ pc' = "send" /\ reply' = reply
    BY <1>0, <1>1, <1>2, <1>3, <1>4 DEF RequestMade
  <1>5. CASE Answer("internal_error", None) /\ stored' = stored
    BY <1>0, <1>1, <1>2, <1>3, <1>5 DEF RequestMade, Answer
  <1> QED
    BY <1>4, <1>5 DEF Persist, Internal

(* And so is the e-mail.                                                   *)
LEMMA DispatchKeeps == RequestMade /\ Dispatch => RequestMade'
  <1> SUFFICES ASSUME RequestMade, Dispatch
               PROVE  RequestMade'
    OBVIOUS
  <1>1. /\ UNCHANGED <<config, request, minted, left, accepted, token>>
        /\ mailed' = InviteEmailPayload(Internal)
        /\ pc' = "reply" /\ pc = "send"
    BY DEF Dispatch, Answer, Internal
  <1>0. /\ Signed
        /\ minted # None /\ request # None /\ Valid(Internal)
    BY <1>1 DEF RequestMade, Signed
  <1>2. /\ Internal' = Internal /\ Valid(Internal)' /\ (Oversized(request)' <=> Oversized(request))
        /\ ExpiresAt(Internal, minted.at)' = ExpiresAt(Internal, minted.at)
        /\ CanonicalEmail(Internal)' = CanonicalEmail(Internal)
        /\ buildInviteRecord(Internal)' = buildInviteRecord(Internal)
        /\ InviteEmailPayload(Internal)' = InviteEmailPayload(Internal)
    BY <1>0, <1>1, Derived
  <1>3. Signed' /\ ~Oversized(request)
    BY <1>0, <1>1, SignedKeeps
  <1>4. stored' \in {stored, None}
    BY DEF Dispatch
  <1>5. \/ reply' = [ Error |-> "", InviteData |->
                          [ UID |-> minted.uid, Email |-> CanonicalEmail(Internal),
                            ExpiresAt |-> minted.expires ] ]
        \/ reply' = [ Error |-> "email_dispatch_failed", InviteData |-> None ]
    BY DEF Dispatch, Answer, Internal
  <1>6. /\ reply'.Error # "invalid_request"
        /\ reply'.InviteData # None =>
              reply'.InviteData = [ UID |-> minted.uid, Email |-> CanonicalEmail(Internal),
                                    ExpiresAt |-> minted.expires ]
    <2>1. CASE reply' = [ Error |-> "", InviteData |->
                            [ UID |-> minted.uid, Email |-> CanonicalEmail(Internal),
                              ExpiresAt |-> minted.expires ] ]
      BY <2>1
    <2>2. CASE reply' = [ Error |-> "email_dispatch_failed", InviteData |-> None ]
      BY <2>2
    <2> QED
      BY <1>5, <2>1, <2>2
  <1>7. stored' # None => stored' = buildInviteRecord(Internal)
    BY <1>4 DEF RequestMade
  <1>8. config.DefaultReturnURL \in Text \ {""} /\ config.AllowedReturnURLHosts \subseteq Pattern
        /\ request \in Request /\ minted \in Link
        /\ minted.expires = ExpiresAt(Internal, minted.at)
    BY <1>0 DEF RequestMade
  <1> QED
    BY <1>0, <1>1, <1>2, <1>3, <1>6, <1>7, <1>8 DEF RequestMade

(* And so is the answer.                                                   *)
LEMMA ReplyKeeps == RequestMade /\ Reply => RequestMade'
  BY DEF RequestMade, Reply

(* A step of nobody changes nothing.                                       *)
LEMMA StutterKeeps == RequestMade /\ UNCHANGED vars => RequestMade'
  <1> SUFFICES ASSUME RequestMade, UNCHANGED vars
               PROVE  RequestMade'
    OBVIOUS
  <1>1. UNCHANGED <<config, pc, request, minted, left, accepted, token, stored, mailed, reply>>
    BY DEF vars, madeVars
  <1>2. /\ Internal' = Internal /\ (Valid(Internal)' <=> Valid(Internal))
        /\ (Oversized(request)' <=> Oversized(request))
        /\ ExpiresAt(Internal, minted.at)' = ExpiresAt(Internal, minted.at)
        /\ CanonicalEmail(Internal)' = CanonicalEmail(Internal)
        /\ TokenClaims(Internal)' = TokenClaims(Internal)
        /\ buildInviteRecord(Internal)' = buildInviteRecord(Internal)
        /\ InviteEmailPayload(Internal)' = InviteEmailPayload(Internal)
    BY <1>1, Derived
  <1>3. (LoopInv' <=> LoopInv) /\ (Signed' <=> Signed)
    BY <1>1, <1>2 DEF LoopInv, Signed
  <1> QED
    BY <1>1, <1>2, <1>3 DEF RequestMade

(* Every step keeps what is made of a request as it was asked for.         *)
LEMMA NextRequest == RequestMade /\ [Next]_vars => RequestMade'
  BY MalformedKeeps, ValidateKeeps, MintKeeps, VisitClaimKeeps, SignKeeps, PersistKeeps,
     DispatchKeeps, ReplyKeeps, StutterKeeps DEF Next

(* The type invariant needs the other one: what a claim of the loop is     *)
(* about, and that a new link is a link.                                   *)
LEMMA TypeKeeps == RequestMade /\ RequestMade' /\ RequestTypeOK /\ [Next]_vars => RequestTypeOK'
  <1> SUFFICES ASSUME RequestMade, RequestMade', RequestTypeOK, [Next]_vars
               PROVE  RequestTypeOK'
    OBVIOUS
  <1>1. /\ config'.DefaultReturnURL \in Text \ {""} /\ request' \in Request \cup {None}
        /\ minted' \in Link \cup {None}
        /\ pc' \in {"generate", "claims", "create", "send"} => request' # None
        /\ pc' \in {"claims", "create", "send"} => minted' # None
    BY DEF RequestMade, Signed
  <1>2. /\ pc' \in {"idle", "generate", "claims", "create", "send", "reply"}
        /\ accepted' \cap left' = {}
        /\ left' \cup accepted' # {} => minted' # None
        /\ pc' = "idle" =>
              /\ <<request, minted, token, stored, mailed, reply>>' =
                    <<None, None, None, None, None, None>>
              /\ left' \cup accepted' = {}
    <2>1. CASE Malformed
      BY <2>1 DEF Malformed, Answer, madeVars, RequestTypeOK
    <2>2. CASE \E r \in Request : Validate(r)
      BY <2>2 DEF Validate, Answer, madeVars, RequestTypeOK
    <2>3. CASE \E u \in UID, t \in Instant : Mint(u, t)
      <3>1. accepted = {} /\ accepted' = {}
        BY <2>3 DEF Mint, RequestMade
      <3>2. minted' # None /\ pc' \in {"claims", "reply"}
        BY <2>3, MintLinks DEF Mint, Answer
      <3> QED
        BY <3>1, <3>2
    <2>4. CASE \E k \in ClaimKey : VisitClaim(k)
      BY <2>4 DEF VisitClaim, Answer, RequestTypeOK
    <2>5. CASE Sign
      BY <2>5 DEF Sign, Answer, RequestTypeOK
    <2>6. CASE Persist
      BY <2>6 DEF Persist, Answer, RequestTypeOK
    <2>7. CASE Dispatch
      BY <2>7 DEF Dispatch, Answer, RequestTypeOK
    <2>8. CASE Reply
      BY <2>8 DEF Reply
    <2>9. CASE UNCHANGED vars
      BY <2>9 DEF vars, madeVars, RequestTypeOK
    <2> QED
      BY <2>1, <2>2, <2>3, <2>4, <2>5, <2>6, <2>7, <2>8, <2>9 DEF Next
  <1> QED
    BY <1>1, <1>2 DEF RequestTypeOK

(* The types hold at first.                                                *)
LEMMA InitType == Init => RequestTypeOK
  BY InitRequest DEF Init, RequestTypeOK, RequestMade

-----------------------------------------------------------------------------
(* Theorems                                                                *)

(* The invariant that the properties follow from holds of every request,   *)
(* under every environment: a handler has what the calls before gave it,   *)
(* made of this request, this link and this configuration, and, between    *)
(* two requests, nothing of the last.                                      *)
THEOREM RequestInvariance == Spec => []RequestInv
  BY InitRequest, NextRequest, InitType, TypeKeeps, PTL DEF Spec, RequestInv

(* No custom claim, however it is called, makes the link, the record, the  *)
(* e-mail and the reply disagree about the invite.                         *)
THEOREM LinkMatchesRecord == Spec => []OneInviteEverywhere
  BY RequestInvariance, Agreement, PTL DEF RequestInv

(* Whatever the length of a second, of a day and of the leeway, the link   *)
(* lives as long as the record, and no longer than the leeway after it.    *)
THEOREM LinkOutlivesNoRecord == Spec => []TokenLivesWithRecord
  BY RequestInvariance, TokenLives, PTL DEF RequestInv

(* The order in which a Go map is walked does not show.                    *)
THEOREM ClaimsAreOrderFree == Spec => []ClaimsOrderFree
  BY RequestInvariance, OrderIsImmaterial, PTL DEF RequestInv

(* Every invite leads to the default or to a host that the list covers,    *)
(* whatever the parser of URLs, the list and the request.                  *)
THEOREM DestinationsAllowed == Spec => []DestinationAllowed
  BY RequestInvariance, DestinationIsAllowed, PTL DEF RequestInv

(* Every field of every request arrives.                                   *)
THEOREM RequestsArriveWhole == Spec => []NothingLost
  BY RequestInvariance, NothingIsLost, PTL DEF RequestInv

(* An invite is found under the address it was requested for, whatever the *)
(* parser of addresses, as long as what it returns is canonical.           *)
THEOREM RecipientsAreFound == Spec => []LookupFindsRecipient
  BY RequestInvariance, RecipientIsFound, PTL DEF RequestInv
=============================================================================
