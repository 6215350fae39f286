---------------------------- MODULE SendInvite ----------------------------
(***************************************************************************)
(* The send_invite handler: the subscription of subscriptions.go, around   *)
(* NotificationService.HandleSendInvite (notification.go), around the      *)
(* repository's Create and Delete (invite_repository.go) and the e-mail    *)
(* request of NATSEmailSender (email_sender.go).                           *)
(*                                                                         *)
(* A replica handles the messages of its subscription one at a time.  One  *)
(* action stands for one call that the handler makes to the bucket, to the *)
(* e-mail service or to the requester, with all the code up to the next    *)
(* call: those calls are where other handlers interleave.                  *)
(***************************************************************************)
EXTENDS InviteBucket, InviteTerms

CONSTANT
    RequestDays  \* the values of expiration_days that requests carry

ASSUME SendAssumption ==
    /\ RequestDays \subseteq Int
    /\ DefaultDays \in Nat
    /\ MaxDays \in Nat

VARIABLES
    sendPc,   \* [Replica -> the call the handler makes next]
    sendUid,  \* [Replica -> the UID the handler minted, or None]
    code,     \* [Replica -> what the handler is about to answer]
    issued,   \* [UID -> the record built for it, or None]; its token holds the
              \*   UID, the e-mail and the expiry of that record
    mail,     \* [UID -> what became of the e-mail that carries the token]
    told      \* [UID -> the answer the requester received about it]

handlerVars == <<sendPc, sendUid, code>>
sendVars    == <<sendPc, sendUid, code, issued, mail, told>>

SendPC ==
    { "idle", "putRecord", "putIndex", "undoRecord", "requestEmail", "awaitEmail",
      "findRecord", "deleteRecord", "deleteIndex", "reply" }

Code ==
    { "none", "ok", "malformed_request", "invalid_request", "internal_error",
      "email_dispatch_failed" }

MailState == { "none", "queued", "delivered", "refused" }

-----------------------------------------------------------------------------

(* The record that buildInviteRecord makes of a request.                   *)
NewRecord(e, name, d, t) ==
    [ status |-> "pending", email |-> e, username |-> name,
      expires |-> t + Lifetime(d), by |-> None, at |-> None ]

(* The handler of r makes its next call from here.                         *)
Goto(r, pc) ==
    /\ sendPc' = [sendPc EXCEPT ![r] = pc]
    /\ UNCHANGED <<sendUid, code>>

(* The handler of r has its answer.                                        *)
Answer(r, c) ==
    /\ sendPc' = [sendPc EXCEPT ![r] = "reply"]
    /\ code' = [code EXCEPT ![r] = c]
    /\ UNCHANGED sendUid

(* The writes the handler of r makes, and the one it is making now, which  *)
(* is on the wire if the process stops here.                               *)
CreateRecord(u) == Put(u, issued[u])
CreateIndex(u)  == AddEntry(issued[u].email, u)
DeleteRecord(u) == Put(u, Tombstone)
DeleteIndex(u)  == DropEntry(issued[u].email, u)

SendOnWire(r) ==
    LET u == sendUid[r] IN
    CASE sendPc[r] = "putRecord" -> {CreateRecord(u)}
      [] sendPc[r] = "putIndex" -> {CreateIndex(u)}
      [] sendPc[r] \in {"undoRecord", "deleteRecord"} -> {DeleteRecord(u)}
      [] sendPc[r] = "deleteIndex" -> {DeleteIndex(u)}
      [] OTHER -> {}

-----------------------------------------------------------------------------

(* A request that is refused before anything is stored: its JSON does not  *)
(* parse, its fields do not validate, or the link cannot be signed.        *)
Reject(r, c) ==
    /\ sendPc[r] = "idle"
    /\ c \in {"malformed_request", "invalid_request", "internal_error"}
    /\ Answer(r, c)
    /\ UNCHANGED <<bucketVars, issued, mail, told>>

(* A valid request: Generate mints a UID, an expiry and the token, and the *)
(* handler builds the record it is going to store.                         *)
Issue(r, u, e, name, d) ==
    /\ sendPc[r] = "idle"
    /\ issued[u] = None
    /\ issued' = [issued EXCEPT ![u] = NewRecord(e, name, d, now)]
    /\ sendUid' = [sendUid EXCEPT ![r] = u]
    /\ sendPc' = [sendPc EXCEPT ![r] = "putRecord"]
    /\ UNCHANGED <<bucketVars, code, mail, told>>

(* Create, first write.  Any error aborts the send before the e-mail.      *)
PutRecord(r) ==
    LET w == CreateRecord(sendUid[r]) IN
    /\ sendPc[r] = "putRecord"
    /\ \/ Acked(w) /\ Goto(r, "putIndex")
       \/ (Refused \/ TimedOut(w)) /\ Answer(r, "internal_error")
    /\ UNCHANGED <<issued, mail, told>>

(* Mutant: a failure to write the index is logged and the send goes on.    *)
PutIndexBestEffort(r) ==
    LET w == CreateIndex(sendUid[r]) IN
    /\ sendPc[r] = "putIndex"
    /\ Acked(w) \/ Refused \/ TimedOut(w)
    /\ Goto(r, "requestEmail")
    /\ UNCHANGED <<issued, mail, told>>

(* Create, second write.  After an error the primary key is deleted again; *)
(* after a timeout that delete is attempted with the context that has just *)
(* expired, and the client library refuses it without sending it.          *)
PutIndex(r) ==
    LET w == CreateIndex(sendUid[r]) IN
    /\ sendPc[r] = "putIndex"
    /\ \/ Acked(w) /\ Goto(r, "requestEmail")
       \/ Refused /\ Goto(r, "undoRecord")
       \/ TimedOut(w) /\ Answer(r, "internal_error")
    /\ UNCHANGED <<issued, mail, told>>

(* Create, best-effort rollback of the first write.                        *)
UndoRecord(r) ==
    LET w == DeleteRecord(sendUid[r]) IN
    /\ sendPc[r] = "undoRecord"
    /\ Acked(w) \/ Refused \/ TimedOut(w)
    /\ Answer(r, "internal_error")
    /\ UNCHANGED <<issued, mail, told>>

(* SendNotification, up to the request: it reaches the e-mail service or   *)
(* nobody is listening.                                                    *)
RequestEmail(r) ==
    /\ sendPc[r] = "requestEmail"
    /\ \/ /\ mail' = [mail EXCEPT ![sendUid[r]] = "queued"]
          /\ Goto(r, "awaitEmail")
       \/ /\ Goto(r, "findRecord")
          /\ UNCHANGED mail
    /\ UNCHANGED <<bucketVars, issued, told>>

(* The e-mail service (external) sends the message, or refuses to.         *)
EmailService(u) ==
    /\ mail[u] = "queued"
    /\ mail' = [mail EXCEPT ![u] = "delivered"] \/ mail' = [mail EXCEPT ![u] = "refused"]
    /\ UNCHANGED <<bucketVars, handlerVars, issued, told>>

(* Mutant: a garbled reply of the e-mail service is taken for success.     *)
AwaitEmailLenient(r) ==
    /\ sendPc[r] = "awaitEmail"
    /\ Answer(r, "ok") \/ Goto(r, "findRecord")
    /\ UNCHANGED <<bucketVars, issued, mail, told>>

(* SendNotification, from the answer of the e-mail service on.  An empty   *)
(* reply is success, an error reply is not; and whatever the service does, *)
(* its reply may be late, lost or garbled.                                 *)
AwaitEmail(r) ==
    /\ sendPc[r] = "awaitEmail"
    /\ \/ mail[sendUid[r]] = "delivered" /\ Answer(r, "ok")
       \/ Goto(r, "findRecord")
    /\ UNCHANGED <<bucketVars, issued, mail, told>>

(* Delete, the read that gives the index key.  Without a record, or after  *)
(* an error, the rollback is over.                                         *)
FindRecord(r) ==
    LET u == sendUid[r] IN
    /\ sendPc[r] = "findRecord"
    /\ \/ /\ \E n \in Readable(u) :
                IF Found(u, n) THEN Goto(r, "deleteRecord")
                ELSE Answer(r, "email_dispatch_failed")
          /\ UNCHANGED bucketVars
       \/ Refused /\ Answer(r, "email_dispatch_failed")
    /\ UNCHANGED <<issued, mail, told>>

(* Mutant: the rollback goes on when the record could not be deleted.      *)
RemoveRecordGoesOn(r) ==
    LET w == DeleteRecord(sendUid[r]) IN
    /\ sendPc[r] = "deleteRecord"
    /\ Acked(w) \/ Refused \/ TimedOut(w)
    /\ Goto(r, "deleteIndex")
    /\ UNCHANGED <<issued, mail, told>>

(* Delete, the primary key.  The delete carries no revision: it removes    *)
(* whatever version is there.                                              *)
RemoveRecord(r) ==
    LET w == DeleteRecord(sendUid[r]) IN
    /\ sendPc[r] = "deleteRecord"
    /\ \/ Acked(w) /\ Goto(r, "deleteIndex")
       \/ (Refused \/ TimedOut(w)) /\ Answer(r, "email_dispatch_failed")
    /\ UNCHANGED <<issued, mail, told>>

(* Delete, the index key.  Its failure is only logged.                     *)
RemoveIndex(r) ==
    LET w == DeleteIndex(sendUid[r]) IN
    /\ sendPc[r] = "deleteIndex"
    /\ Acked(w) \/ Refused \/ TimedOut(w)
    /\ Answer(r, "email_dispatch_failed")
    /\ UNCHANGED <<issued, mail, told>>

(* The reply, which the requester may miss.                                *)
Reply(r) ==
    /\ sendPc[r] = "reply"
    /\ \/ /\ sendUid[r] \in UID
          /\ told' = [told EXCEPT ![sendUid[r]] = code[r]]
       \/ UNCHANGED told
    /\ sendPc' = [sendPc EXCEPT ![r] = "idle"]
    /\ sendUid' = [sendUid EXCEPT ![r] = None]
    /\ code' = [code EXCEPT ![r] = "none"]
    /\ UNCHANGED <<bucketVars, issued, mail>>

-----------------------------------------------------------------------------

(* A step of the handler of r once it has a message: it never waits for    *)
(* another message, and each of its calls returns.                         *)
SendStep(r) ==
    \/ PutRecord(r) \/ PutIndex(r) \/ UndoRecord(r)
    \/ RequestEmail(r) \/ AwaitEmail(r)
    \/ FindRecord(r) \/ RemoveRecord(r) \/ RemoveIndex(r)
    \/ Reply(r)

SendNext ==
    \/ \E r \in Replica :
          \/ SendStep(r)
          \/ \E c \in Code : Reject(r, c)
          \/ \E u \in UID, e \in Email, name \in User \cup {None}, d \in RequestDays :
                Issue(r, u, e, name, d)
    \/ \E u \in UID : EmailService(u)

(* The process stops: the handler is gone, and the write it was making may *)
(* still reach the bucket.                                                 *)
SendCrash(r) ==
    /\ sendPc' = [sendPc EXCEPT ![r] = "idle"]
    /\ sendUid' = [sendUid EXCEPT ![r] = None]
    /\ code' = [code EXCEPT ![r] = "none"]
    /\ UNCHANGED <<issued, mail, told>>

SendInit ==
    /\ sendPc = [r \in Replica |-> "idle"]
    /\ sendUid = [r \in Replica |-> None]
    /\ code = [r \in Replica |-> "none"]
    /\ issued = [u \in UID |-> None]
    /\ mail = [u \in UID |-> "none"]
    /\ told = [u \in UID |-> "none"]

(* A handler holds a UID while it works on an issued invite, and an e-mail *)
(* is about an issued invite.                                              *)
SendTypeOK ==
    /\ sendPc \in [Replica -> SendPC]
    /\ sendUid \in [Replica -> UID \cup {None}]
    /\ code \in [Replica -> Code]
    /\ issued \in [UID -> Record \cup {None}]
    /\ mail \in [UID -> MailState]
    /\ told \in [UID -> Code]
    /\ \A r \in Replica :
          /\ sendPc[r] \notin {"idle", "reply"} => sendUid[r] \in UID
          /\ sendUid[r] \in UID => issued[sendUid[r]] \in Record
    /\ \A u \in UID : mail[u] # "none" => issued[u] \in Record
=============================================================================
