--------------------------- MODULE ProfileApiProofs ---------------------------
(****************************************************************************)
(* ApiInv is inductive, and the promises of the profile routes follow from  *)
(* it, for any number of requests, profiles, revisions and history limit.   *)
(****************************************************************************)
EXTENDS ProfileApi, TLAPS

USE DEF AnswerKinds, NoArgs, Unsent, Pending, NoDocument, NoAnswer, Revision

\* What a client may send.
LEMMA InputsTyped ==
    ASSUME NEW q \in Inputs
    PROVE  /\ q.route \in {"get", "export", "put", "import"}
           /\ q.profile \in Profiles
           /\ q.revision \in Nat
           /\ q # Unsent
           /\ q.tag = NoEtag \/ q.tag \in Profiles \X Nat
<1>1. Revisions \subseteq Nat
  BY RevisionsAssumption
<1>2. q \in Reads \cup Writes
  BY DEF Inputs
<1>3. ASSUME NEW t \in Tags PROVE t = NoEtag \/ t \in Profiles \X Nat
  BY <1>1, <1>3 DEF Tags, Etag
<1>4. CASE q \in Reads
  BY <1>3, <1>4 DEF Reads
<1>5. CASE q \in Writes
  <2>1. /\ q.route \in {"put", "import"} /\ q.profile \in Profiles
        /\ q.revision \in Revisions /\ q.tag \in Tags \cup {NoEtag}
    BY <1>5 DEF Writes
  <2>2. q.revision \in Nat
    BY <1>1, <2>1
  <2>3. q.tag = NoEtag \/ q.tag \in Profiles \X Nat
    BY <1>3, <2>1
  <2> QED
    BY <2>1, <2>2, <2>3
<1> QED
  BY <1>2, <1>4, <1>5

\* What the repository is called with for it.
LEMMA CallArgsTyped ==
    ASSUME NEW q \in Inputs
    PROVE  /\ CallArgs(q) # NoArgs
           /\ CallArgs(q).profile = q.profile
           /\ CallArgs(q).expected \in Nat
           /\ CallArgs(q).op = "save" <=> q.route \in {"put", "import"}
           /\ CallArgs(q).op = "load" <=> q.route \in {"get", "export"}
BY InputsTyped DEF CallArgs, ExpectedRevision

\* What is known of a request the repository was called for.
LEMMA CalledTyped ==
    ASSUME TypeOK, CallsAreChecked, NEW r \in Requests, args[r] # NoArgs
    PROVE  /\ request[r] \in Inputs
           /\ args[r] = CallArgs(request[r])
           /\ args[r].profile \in Profiles
           /\ args[r].profile = request[r].profile
           /\ args[r].expected \in Nat
           /\ Revision(r) \in Nat
<1>1. request[r] \in Inputs /\ args[r] = CallArgs(request[r])
  BY DEF TypeOK, CallsAreChecked
<1> QED
  BY <1>1, CallArgsTyped, InputsTyped DEF TypeOK, Document

\* A document stays one while applied saves stay what they are.
LEMMA DocumentsStay ==
    ASSUME applied \subseteq applied', \A r \in applied : args'[r] = args[r],
           NEW p, NEW record, IsDocument(p, record)
    PROVE  IsDocument(p, record)'
BY DEF IsDocument

-----------------------------------------------------------------------------
(* The inductive invariant.                                                 *)

\* An empty store and no request.
LEMMA InitApi == Init => ApiInv
<1> SUFFICES ASSUME Init PROVE ApiInv
  OBVIOUS
<1>1. TypeOK
  <2>1. NoDocument \in Document /\ NoAnswer \in [kind : AnswerKinds, revision : Nat]
    BY DEF Document
  <2>2. response \in [Requests -> [status : Nat, record : Document,
                                  etag : {NoEtag} \cup (Profiles \X Nat)]]
    BY <2>1 DEF Init
  <2>3. \A r \in Requests : response[r].status \in Statuses(request[r].route)
    BY DEF Init, Statuses
  <2> QED
    BY <2>1, <2>2, <2>3 DEF Init, TypeOK
<1>2. CallsAreChecked /\ SavesAreChained
  BY DEF Init, CallsAreChecked, SavesAreChained
<1>3. DocumentsAreApplied
  BY DEF Init, DocumentsAreApplied, IsDocument, HasDocument
<1> QED
  BY <1>1, <1>2, <1>3 DEF ApiInv

\* A refused request never reaches the repository.
LEMMA RefuseSafe ==
    ASSUME ApiInv, NEW r \in Requests, NEW q \in Inputs, Refuse(r, q)
    PROVE  ApiInv'
<1>1. TypeOK /\ CallsAreChecked /\ SavesAreChained /\ DocumentsAreApplied
  BY DEF ApiInv
<1>2. args[r] = NoArgs /\ q # Unsent
  BY <1>1, InputsTyped DEF Refuse, CallsAreChecked
<1>3. DomainStatus(Error(q)) \in Statuses(q.route) \cap {400, 404, 422}
  BY DEF Inputs, Reads, Writes, WriteDefects, Error, IfMatchError, DomainStatus,
     Statuses, Refuse
<1>4. response' = [response EXCEPT ![r] = [status |-> DomainStatus(Error(q)),
                                            etag |-> NoEtag, record |-> NoDocument]]
  BY DEF Refuse, Respond
<1>5. TypeOK'
  BY <1>1, <1>3, <1>4 DEF Refuse, TypeOK, Document, storeVars
<1>6. CallsAreChecked'
  BY <1>1, <1>2, <1>3, <1>4 DEF Refuse, CallsAreChecked, storeVars, TypeOK
<1>7. SavesAreChained'
  BY <1>1 DEF Refuse, SavesAreChained, storeVars
<1>8. DocumentsAreApplied'
  BY <1>1, <1>2, <1>3, <1>4 DEF Refuse, DocumentsAreApplied, IsDocument,
     HasDocument, storeVars, TypeOK
<1> QED
  BY <1>5, <1>6, <1>7, <1>8 DEF ApiInv

\* A request that passed the checks becomes a call of the repository.
LEMMA CallSafe ==
    ASSUME ApiInv, NEW r \in Requests, NEW q \in Inputs, Call(r, q)
    PROVE  ApiInv'
<1>1. TypeOK /\ CallsAreChecked /\ SavesAreChained /\ DocumentsAreApplied
  BY DEF ApiInv
<1>2. /\ args[r] = NoArgs /\ response[r] = Pending /\ answer[r] = NoAnswer
      /\ r \notin applied /\ q # Unsent /\ CallArgs(q) # NoArgs
  <2>1. args[r] = NoArgs /\ response[r] = Pending /\ answer[r] = NoAnswer
    BY <1>1 DEF Call, CallsAreChecked
  <2>2. r \notin applied
    BY <1>1, <2>1 DEF SavesAreChained
  <2> QED
    BY <2>1, <2>2, InputsTyped, CallArgsTyped
<1>3. TypeOK'
  BY <1>1, <1>2 DEF Call, TypeOK, Statuses
<1>4. CallsAreChecked'
  <2>1. /\ args'[r] = CallArgs(q) /\ request'[r] = q /\ Error(q) = "none"
        /\ UNCHANGED <<answer, response>>
    BY <1>1 DEF Call, TypeOK
  <2>2. ASSUME NEW o \in Requests, o # r
        PROVE  args'[o] = args[o] /\ request'[o] = request[o]
    BY <1>1, <2>2 DEF Call, TypeOK
  <2> HIDE DEF NoArgs, Unsent, Pending
  <2>3. answer[r].kind = "none" /\ args'[r] # NoArgs /\ request'[r] # Unsent
    BY <1>2, <2>1
  <2> QED
    BY <1>1, <2>1, <2>2, <2>3 DEF CallsAreChecked
<1>5. SavesAreChained'
  BY <1>1, <1>2 DEF Call, SavesAreChained, TypeOK
<1>6. DocumentsAreApplied'
  <2>1. UNCHANGED <<rows, applied, answer, response>>
    BY DEF Call
  <2>2. ASSUME NEW o \in Requests, o # r
        PROVE  args'[o] = args[o] /\ request'[o] = request[o]
    BY <1>1, <2>2 DEF Call, TypeOK
  <2>3. ASSUME NEW p, NEW record, IsDocument(p, record)
        PROVE  IsDocument(p, record)'
    BY <1>1, <1>2, <2>1, <2>2, <2>3, DocumentsStay DEF TypeOK
  <2>4. ASSUME NEW p \in Profiles
        PROVE  IsDocument(p, rows[p])'
    BY <1>1, <2>1, <2>3 DEF DocumentsAreApplied, IsDocument
  <2>5. ASSUME NEW o \in Requests, HasDocument(o)'
        PROVE  IsDocument(args[o].profile, response[o].record)'
    <3>1. o # r /\ HasDocument(o)
      BY <1>2, <2>1, <2>5 DEF HasDocument
    <3>2. IsDocument(args[o].profile, response[o].record)
      BY <1>1, <3>1 DEF DocumentsAreApplied
    <3> QED
      BY <2>1, <2>2, <2>3, <3>1, <3>2 DEF IsDocument
  <2> HIDE DEF NoArgs
  <2>6. response[r].status = 0
    BY <1>2
  <2> QED
    BY <1>1, <2>1, <2>2, <2>4, <2>5, <2>6 DEF DocumentsAreApplied, HasDocument,
       IsDocument
<1> QED
  BY <1>3, <1>4, <1>5, <1>6 DEF ApiInv

\* A commit appends one save to its profile's chain.
LEMMA CommitSafe ==
    ASSUME ApiInv, NEW r \in Requests, Commit(r)
    PROVE  ApiInv'
<1>1. TypeOK /\ CallsAreChecked /\ SavesAreChained /\ DocumentsAreApplied
  BY DEF ApiInv
<1> DEFINE p == args[r].profile
           row == [revision |-> args[r].expected + 1, state |-> r]
<1>2. /\ args[r].op = "save" /\ args[r].valid /\ r \notin applied
      /\ answer[r].kind \in {"none", "failed"}
      /\ Revision(r) = args[r].expected
      /\ rows' = [rows EXCEPT ![p] = row]
      /\ applied' = applied \cup {r}
      /\ UNCHANGED <<args, answer, request, response>>
  BY DEF Commit, Apply
<1>3. args[r] # NoArgs
  BY <1>2
<1>4. p \in Profiles /\ args[r].expected \in Nat /\ row \in Document
  <2>1. p \in Profiles /\ args[r].expected \in Nat
    BY <1>1, <1>3, CalledTyped
  <2> QED
    BY <2>1 DEF Document
<1>5. TypeOK'
  BY <1>1, <1>2, <1>4 DEF TypeOK
<1>6. CallsAreChecked'
  BY <1>1, <1>2 DEF CallsAreChecked
<1>7. SavesAreChained'
  <2>1. ASSUME NEW q \in applied
        PROVE  /\ args[q].expected \in Nat /\ args[q].profile \in Profiles
               /\ args[q].expected < rows[args[q].profile].revision
               /\ rows[args[q].profile].revision \in Nat
    BY <1>1, CalledTyped DEF SavesAreChained, TypeOK
  <2>2. ASSUME NEW q \in applied'
        PROVE  args'[q].expected < Revision(q)'
    BY <1>1, <1>2, <1>4, <2>1, <2>2 DEF TypeOK
  <2>3. ASSUME NEW q \in applied, args[q].profile = p
        PROVE  args[q].expected # args[r].expected
    BY <1>2, <1>4, <2>1, <2>3
  <2> QED
    BY <1>1, <1>2, <2>2, <2>3 DEF SavesAreChained
<1>8. DocumentsAreApplied'
  <2>1. ASSUME NEW o, NEW record, IsDocument(o, record)
        PROVE  IsDocument(o, record)'
    BY <1>2, <2>1, DocumentsStay
  <2>2. IsDocument(p, row)'
    BY <1>2 DEF IsDocument
  <2>3. \A o \in Profiles : IsDocument(o, rows[o])'
    BY <1>1, <1>2, <1>4, <2>1, <2>2 DEF DocumentsAreApplied, IsDocument, TypeOK
  <2>4. ASSUME NEW q \in Requests, HasDocument(q)
        PROVE  IsDocument(args[q].profile, response[q].record)'
    BY <1>1, <1>2, <2>1, <2>4, CalledTyped DEF DocumentsAreApplied, IsDocument
  <2>5. UNCHANGED <<args, answer, request, response>> /\ applied \subseteq applied'
    BY <1>2
  <2>6. DocumentsAreApplied
    BY <1>1
  <2> HIDE DEF p, row, NoArgs
  <2> QED
    BY <2>3, <2>4, <2>5, <2>6 DEF DocumentsAreApplied, HasDocument, IsDocument
<1> QED
  BY <1>5, <1>6, <1>7, <1>8 DEF ApiInv

\* A handler that waits for the repository did call it.
LEMMA CallingCalled ==
    ASSUME TypeOK, CallsAreChecked, NEW r \in Requests, Calling(r)
    PROVE  /\ args[r] # NoArgs
           /\ request[r].route \in {"get", "export", "put", "import"}
           /\ args[r].op = "save" <=> request[r].route \in {"put", "import"}
           /\ args[r].op = "load" <=> request[r].route \in {"get", "export"}
<1>1. args[r] # NoArgs
  BY DEF Calling, CallsAreChecked
<1> QED
  BY <1>1, CalledTyped, CallArgsTyped, InputsTyped

\* What an answer of the repository and the response made of it must satisfy.
IsReply(r, told, sent) ==
    /\ told \in [kind : AnswerKinds \ {"none"}, revision : Nat]
    /\ sent \in [status : Nat \ {0}, record : Document,
                 etag : {NoEtag} \cup (Profiles \X Nat)]
    /\ told.kind = "rejected" => ~args[r].valid
    /\ told.kind = "loaded" => args[r].op = "load"
    /\ r \in applied => told.kind \in {"failed", "saved"}
    /\ sent.status \in Statuses(request[r].route)
    /\ sent.status \in {200, 201} =>
          /\ IsDocument(args[r].profile, sent.record)
          /\ sent.etag \in {NoEtag, Etag(args[r].profile, sent.record.revision)}
          /\ args[r].op = "save" => r \in applied
    /\ sent.status = 304 =>
          request[r].tag = Etag(request[r].profile, told.revision)
    /\ sent.status \in {400, 404, 409, 422, 503} =>
          told.kind \in {"conflict", "rejected", "unavailable"}

Replies(r, told, sent) ==
    /\ answer' = [answer EXCEPT ![r] = told]
    /\ response' = [response EXCEPT ![r] = sent]
    /\ UNCHANGED <<rows, history, args, applied, request>>

\* The repository's answer reaches the client.
LEMMA ReplySafe ==
    ASSUME ApiInv, NEW r \in Requests, Calling(r), NEW told, NEW sent,
           IsReply(r, told, sent), Replies(r, told, sent)
    PROVE  ApiInv'
<1>1. TypeOK /\ CallsAreChecked /\ SavesAreChained /\ DocumentsAreApplied
  BY DEF ApiInv
<1>2. args[r] # NoArgs
  BY <1>1, CallingCalled
<1>3. /\ answer'[r] = told /\ response'[r] = sent
      /\ \A o \in Requests : o # r => /\ answer'[o] = answer[o]
                                      /\ response'[o] = response[o]
  BY <1>1 DEF TypeOK, Replies
<1>4. TypeOK'
  BY <1>1, <1>3 DEF TypeOK, IsReply, Replies
<1> HIDE DEF NoArgs, Unsent, Pending, NoAnswer
<1>5. response'[r] # Pending /\ request[r] # Unsent
  BY <1>3 DEF Pending, Calling, IsReply
<1>6. CallsAreChecked'
  BY <1>1, <1>2, <1>3, <1>5 DEF CallsAreChecked, IsReply, Replies
<1>7. SavesAreChained'
  BY <1>1, <1>3 DEF SavesAreChained, IsReply, Replies
<1>8. DocumentsAreApplied'
  BY <1>1, <1>2, <1>3 DEF DocumentsAreApplied, IsDocument, HasDocument, IsReply,
     Replies
<1> QED
  BY <1>4, <1>6, <1>7, <1>8 DEF ApiInv

\* A document sent back belongs under the ETag sent with it.
LEMMA ReadSafe ==
    ASSUME ApiInv, NEW r \in Requests, Loaded(r)
    PROVE  ApiInv'
<1>1. TypeOK /\ CallsAreChecked /\ DocumentsAreApplied /\ Calling(r)
  BY DEF ApiInv, Loaded
<1>2. /\ args[r] # NoArgs /\ request[r].route \in {"get", "export"}
      /\ args[r].op = "load" /\ args[r].profile = request[r].profile
      /\ args[r].profile \in Profiles /\ Revision(r) \in Nat
      /\ rows[args[r].profile] \in Document
  BY <1>1, CallingCalled, CalledTyped DEF Loaded, TellLoaded, TypeOK
<1> DEFINE etag == Etag(request[r].profile, Revision(r))
<1>3. etag \in Profiles \X Nat /\ NoDocument \in Document
  BY <1>2 DEF Etag, Document
<1>4. IsDocument(args[r].profile, rows[args[r].profile])
  BY <1>1, <1>2 DEF DocumentsAreApplied
<1>5. /\ answer' = [answer EXCEPT ![r] = [kind |-> "loaded", revision |-> Revision(r)]]
      /\ UNCHANGED <<rows, history, args, applied, request>>
      /\ r \notin applied
  <2>1. r \in applied => args[r].op = "save"
    BY DEF ApiInv, SavesAreChained
  <2> QED
    BY <1>2, <2>1 DEF Loaded, TellLoaded, Tell
<1>6. CASE request[r].route = "export"
  <2>1. response' = [response EXCEPT ![r] =
           [status |-> 200, etag |-> NoEtag, record |-> rows[args[r].profile]]]
    BY <1>2, <1>6 DEF Loaded, Respond
  <2>2. 200 \in Statuses(request[r].route)
    BY <1>6 DEF Statuses
  <2> DEFINE told == [kind |-> "loaded", revision |-> Revision(r)]
             sent == [status |-> 200, etag |-> NoEtag, record |-> rows[args[r].profile]]
  <2>8. IsReply(r, told, sent)
    BY <1>1, <1>2, <1>4, <1>5, <2>1, <2>2 DEF IsReply
  <2>9. Replies(r, told, sent)
    BY <1>1, <1>2, <1>4, <1>5, <2>1, <2>2 DEF Replies
  <2> HIDE DEF told, sent
  <2> QED
    BY <1>1, <2>8, <2>9, ReplySafe
<1>7. CASE request[r].route = "get" /\ request[r].tag # etag
  <2>1. response' = [response EXCEPT ![r] =
           [status |-> 200, etag |-> etag, record |-> rows[args[r].profile]]]
    BY <1>2, <1>7 DEF Loaded, Respond
  <2>2. 200 \in Statuses(request[r].route)
    BY <1>7 DEF Statuses
  <2>3. etag = Etag(args[r].profile, rows[args[r].profile].revision)
    BY <1>2
  <2> DEFINE told == [kind |-> "loaded", revision |-> Revision(r)]
             sent == [status |-> 200, etag |-> etag, record |-> rows[args[r].profile]]
  <2>8. IsReply(r, told, sent)
    BY <1>1, <1>2, <1>3, <1>4, <1>5, <2>1, <2>2, <2>3 DEF IsReply
  <2>9. Replies(r, told, sent)
    BY <1>1, <1>2, <1>3, <1>4, <1>5, <2>1, <2>2, <2>3 DEF Replies
  <2> HIDE DEF told, sent
  <2> QED
    BY <1>1, <2>8, <2>9, ReplySafe
<1>8. CASE request[r].route = "get" /\ request[r].tag = etag
  <2>1. response' = [response EXCEPT ![r] =
           [status |-> 304, etag |-> etag, record |-> NoDocument]]
    BY <1>2, <1>8 DEF Loaded, Respond
  <2>2. 304 \in Statuses(request[r].route)
    BY <1>8 DEF Statuses
  <2> DEFINE told == [kind |-> "loaded", revision |-> Revision(r)]
             sent == [status |-> 304, etag |-> etag, record |-> NoDocument]
  <2>8. IsReply(r, told, sent)
    BY <1>1, <1>2, <1>3, <1>5, <1>8, <2>1, <2>2 DEF IsReply
  <2>9. Replies(r, told, sent)
    BY <1>1, <1>2, <1>3, <1>5, <1>8, <2>1, <2>2 DEF Replies
  <2> HIDE DEF told, sent
  <2> QED
    BY <1>1, <2>8, <2>9, ReplySafe
<1> QED
  BY <1>2, <1>6, <1>7, <1>8

\* "saved" is told of an applied save, with the document it put there.
LEMMA SavedSafe ==
    ASSUME ApiInv, NEW r \in Requests, Saved(r)
    PROVE  ApiInv'
<1> DEFINE k == args[r].expected + 1
           record == [revision |-> k, state |-> r]
           status == SavedStatus(request[r])
<1>1. TypeOK /\ CallsAreChecked /\ Calling(r) /\ r \in applied
  BY DEF ApiInv, Saved, TellSaved
<1>2. args[r].op = "save"
  BY <1>1 DEF ApiInv, SavesAreChained
<1>3. /\ args[r] # NoArgs /\ request[r].route \in {"put", "import"}
      /\ args[r].profile \in Profiles /\ args[r].profile = request[r].profile
      /\ args[r].expected \in Nat
  BY <1>1, <1>2, CallingCalled, CalledTyped
<1>4. /\ k \in Nat /\ record \in Document
      /\ Etag(args[r].profile, k) \in Profiles \X Nat
  BY <1>3 DEF Document, Etag
<1>5. status \in {200, 201} /\ status \in Statuses(request[r].route)
  BY <1>3 DEF SavedStatus, Statuses
<1>6. IsDocument(args[r].profile, record)
  BY <1>1 DEF IsDocument
<1>7. /\ answer' = [answer EXCEPT ![r] = [kind |-> "saved", revision |-> k]]
      /\ response' = [response EXCEPT ![r] = [status |-> status,
             etag |-> Etag(args[r].profile, record.revision), record |-> record]]
      /\ UNCHANGED <<rows, history, args, applied, request>>
  BY <1>3 DEF Saved, TellSaved, Tell, Respond
<1> HIDE DEF status
<1> DEFINE told == [kind |-> "saved", revision |-> k]
           sent == [status |-> status, record |-> record,
        etag |-> Etag(args[r].profile, record.revision)]
<1>8. IsReply(r, told, sent)
  BY <1>1, <1>2, <1>4, <1>5, <1>6, <1>7 DEF IsReply
<1>9. Replies(r, told, sent)
  BY <1>1, <1>2, <1>4, <1>5, <1>6, <1>7 DEF Replies
<1> HIDE DEF told, sent
<1> QED
  BY <1>1, <1>8, <1>9, ReplySafe

\* Every other answer leaves the client with a status and no document.
LEMMA ErrorSafe ==
    ASSUME ApiInv, NEW r \in Requests,
           Conflicts(r) \/ Rejected(r) \/ Unavailable(r) \/ Fails(r)
    PROVE  ApiInv'
<1>1. TypeOK /\ CallsAreChecked /\ Calling(r)
  BY DEF ApiInv, Conflicts, Rejected, Unavailable, Fails
<1>2. /\ args[r] # NoArgs /\ request[r].route \in {"get", "export", "put", "import"}
      /\ args[r].op = "save" <=> request[r].route \in {"put", "import"}
      /\ Revision(r) \in Nat
      /\ r \in applied => args[r].op = "save" /\ args[r].valid
  BY <1>1, CallingCalled, CalledTyped DEF ApiInv, SavesAreChained
<1>3. NoDocument \in Document /\ [revision |-> Revision(r), state |-> NoRequest] \in Document
  BY <1>2 DEF Document
<1>4. CASE Conflicts(r)
  <2>1. 409 \in Statuses(request[r].route)
    BY <1>2, <1>4 DEF Conflicts, TellConflict, Statuses
  <2>2. r \notin applied
    BY <1>4 DEF Conflicts, TellConflict
  <2>3. /\ answer' = [answer EXCEPT ![r] = [kind |-> "conflict", revision |-> Revision(r)]]
        /\ response' = [response EXCEPT ![r] = [status |-> 409, etag |-> NoEtag,
               record |-> [revision |-> Revision(r), state |-> NoRequest]]]
        /\ UNCHANGED <<rows, history, args, applied, request>>
    BY <1>4 DEF Conflicts, TellConflict, Tell, Respond
  <2> DEFINE told == [kind |-> "conflict", revision |-> Revision(r)]
             sent == [status |-> 409, etag |-> NoEtag,
          record |-> [revision |-> Revision(r), state |-> NoRequest]]
  <2>8. IsReply(r, told, sent)
    BY <1>1, <1>2, <1>3, <2>1, <2>2, <2>3 DEF IsReply
  <2>9. Replies(r, told, sent)
    BY <1>1, <1>2, <1>3, <2>1, <2>2, <2>3 DEF Replies
  <2> HIDE DEF told, sent
  <2> QED
    BY <1>1, <2>8, <2>9, ReplySafe
<1>5. CASE Rejected(r)
  <2> DEFINE status == DomainStatus(request[r].defect)
  <2>1. ~args[r].valid /\ r \notin applied
    BY <1>2, <1>5 DEF Rejected, TellRejected
  <2>2. status \in {400, 404, 422} /\ status \in Statuses(request[r].route)
    <3>1. request[r] \in Inputs /\ args[r] = CallArgs(request[r])
          /\ Error(request[r]) = "none"
      BY <1>1, <1>2, CalledTyped DEF CallsAreChecked
    <3> QED
      BY <1>2, <3>1 DEF DomainStatus, Statuses, Inputs, Reads, Writes, WriteDefects,
         Error
  <2>3. /\ answer' = [answer EXCEPT ![r] = [kind |-> "rejected", revision |-> 0]]
        /\ response' = [response EXCEPT ![r] =
               [status |-> status, etag |-> NoEtag, record |-> NoDocument]]
        /\ UNCHANGED <<rows, history, args, applied, request>>
    BY <1>5 DEF Rejected, TellRejected, Tell, Respond
  <2> HIDE DEF status
  <2> DEFINE told == [kind |-> "rejected", revision |-> 0]
             sent == [status |-> status, etag |-> NoEtag, record |-> NoDocument]
  <2>8. IsReply(r, told, sent)
    BY <1>1, <1>3, <2>1, <2>2, <2>3 DEF IsReply
  <2>9. Replies(r, told, sent)
    BY <1>1, <1>3, <2>1, <2>2, <2>3 DEF Replies
  <2> HIDE DEF told, sent
  <2> QED
    BY <1>1, <2>8, <2>9, ReplySafe
<1>6. CASE Unavailable(r)
  <2>1. 503 \in Statuses(request[r].route)
    BY <1>2 DEF Statuses
  <2>2. /\ answer' = [answer EXCEPT ![r] = [kind |-> "unavailable", revision |-> 0]]
        /\ response' = [response EXCEPT ![r] =
               [status |-> 503, etag |-> NoEtag, record |-> NoDocument]]
        /\ UNCHANGED <<rows, history, args, applied, request>>
        /\ r \notin applied
    BY <1>6 DEF Unavailable, TellUnavailable, Tell, Respond, RepositoryStatus
  <2> DEFINE told == [kind |-> "unavailable", revision |-> 0]
             sent == [status |-> 503, etag |-> NoEtag, record |-> NoDocument]
  <2>8. IsReply(r, told, sent)
    BY <1>1, <1>3, <2>1, <2>2 DEF IsReply
  <2>9. Replies(r, told, sent)
    BY <1>1, <1>3, <2>1, <2>2 DEF Replies
  <2> HIDE DEF told, sent
  <2> QED
    BY <1>1, <2>8, <2>9, ReplySafe
<1>7. CASE Fails(r)
  <2>1. 500 \in Statuses(request[r].route)
    BY <1>2 DEF Statuses
  <2>2. /\ answer' = [answer EXCEPT ![r] = [kind |-> "failed", revision |-> 0]]
        /\ response' = [response EXCEPT ![r] =
               [status |-> 500, etag |-> NoEtag, record |-> NoDocument]]
        /\ UNCHANGED <<rows, history, args, applied, request>>
    BY <1>7 DEF Fails, TellFailed, Tell, Respond, RepositoryStatus
  <2> DEFINE told == [kind |-> "failed", revision |-> 0]
             sent == [status |-> 500, etag |-> NoEtag, record |-> NoDocument]
  <2>8. IsReply(r, told, sent)
    BY <1>1, <1>3, <2>1, <2>2 DEF IsReply
  <2>9. Replies(r, told, sent)
    BY <1>1, <1>3, <2>1, <2>2 DEF Replies
  <2> HIDE DEF told, sent
  <2> QED
    BY <1>1, <2>8, <2>9, ReplySafe
<1> QED
  BY <1>4, <1>5, <1>6, <1>7

\* Every step preserves the invariant.
LEMMA NextApi == ApiInv /\ [Next]_vars => ApiInv'
<1> SUFFICES ASSUME ApiInv, [Next]_vars PROVE ApiInv'
  OBVIOUS
<1>1. CASE \E r \in Requests, q \in Inputs : Refuse(r, q) \/ Call(r, q)
  BY <1>1, RefuseSafe, CallSafe
<1>2. CASE \E r \in Requests : Commit(r) \/ Saved(r) \/ Conflicts(r) \/ Loaded(r)
                \/ Rejected(r) \/ Unavailable(r) \/ Fails(r)
  BY <1>2, CommitSafe, SavedSafe, ReadSafe, ErrorSafe
<1>3. CASE Finished \/ UNCHANGED vars
  <2>1. UNCHANGED <<rows, args, applied, answer, request, response>>
    BY <1>3 DEF Finished, vars, storeVars
  <2> QED
    BY <2>1 DEF ApiInv, TypeOK, CallsAreChecked, SavesAreChained,
       DocumentsAreApplied, IsDocument, HasDocument
<1> QED
  BY <1>1, <1>2, <1>3 DEF Next

-----------------------------------------------------------------------------
(* The theorems.                                                            *)

\* The inductive invariant of the profile routes over the conditional store.
THEOREM ApiInvariant == Spec => []ApiInv
BY InitApi, NextApi, PTL DEF Spec

\* Two responses with one ETag carry one document, and a 304 confirms the
\* document its client was given under that ETag.
THEOREM EtagsIdentify == Spec => []EtagIdentifiesDocument
<1>1. ApiInv => EtagIdentifiesDocument
  <2> SUFFICES ASSUME ApiInv PROVE EtagIdentifiesDocument
    OBVIOUS
  <2>1. TypeOK /\ CallsAreChecked /\ SavesAreChained /\ DocumentsAreApplied
    BY DEF ApiInv
  <2>2. ASSUME NEW q \in Requests, HasDocument(q), response[q].etag # NoEtag
        PROVE  /\ response[q].etag = <<args[q].profile, response[q].record.revision>>
               /\ args[q].profile = request[q].profile
               /\ IsDocument(args[q].profile, response[q].record)
    BY <2>1, <2>2, CalledTyped DEF DocumentsAreApplied, Etag
  <2>3. ASSUME NEW p, NEW d, NEW e, IsDocument(p, d), IsDocument(p, e),
               d.revision = e.revision, d \in Document, e \in Document
        PROVE  d = e
    <3>1. ASSUME NEW a \in applied PROVE args[a].expected \in Nat
      BY <2>1, <3>1, CalledTyped DEF SavesAreChained, TypeOK
    <3>2. d.state = e.state
      BY <2>1, <2>3, <3>1 DEF IsDocument, SavesAreChained
    <3> QED
      BY <2>3, <3>2 DEF Document
  <2>4. ASSUME NEW q \in Requests, NEW r \in Requests,
               HasDocument(q), HasDocument(r), response[q].etag # NoEtag,
               response[q].etag = response[r].etag
        PROVE  response[q].record = response[r].record
    <3>1. /\ args[q].profile = args[r].profile
          /\ response[q].record.revision = response[r].record.revision
      BY <2>2, <2>4
    <3>2. response[q].record \in Document /\ response[r].record \in Document
      BY <2>1 DEF TypeOK
    <3>3. /\ IsDocument(args[q].profile, response[q].record)
          /\ IsDocument(args[q].profile, response[r].record)
      BY <2>2, <2>4, <3>1
    <3> QED
      BY <2>3, <3>1, <3>2, <3>3
  <2>5. ASSUME NEW q \in Requests, NEW r \in Requests,
               response[r].status = 304, HasDocument(q),
               response[q].etag = request[r].tag
        PROVE  /\ request[q].profile = request[r].profile
               /\ response[q].record.revision = answer[r].revision
    <3>1. /\ args[r] # NoArgs
          /\ request[r].tag = <<request[r].profile, answer[r].revision>>
      BY <2>1, <2>5 DEF DocumentsAreApplied, Etag
    <3>2. request[r].profile \in Profiles /\ answer[r].revision \in Nat
      BY <2>1, <3>1, CalledTyped DEF TypeOK
    <3>3. response[q].etag # NoEtag
      BY <2>5, <3>1, <3>2, NoEtagAssumption
    <3>4. /\ response[q].etag = <<args[q].profile, response[q].record.revision>>
          /\ args[q].profile = request[q].profile
      BY <2>2, <2>5, <3>3
    <3> QED
      BY <2>5, <3>1, <3>4
  <2> QED
    BY <2>4, <2>5 DEF EtagIdentifiesDocument
<1> QED
  BY <1>1, ApiInvariant, PTL

\* A PUT that took effect replaced exactly the document whose ETag it named.
THEOREM WritesReplace == Spec => []WritesReplaceWhatTheyName
<1>1. ApiInv => WritesReplaceWhatTheyName
  <2> SUFFICES ASSUME ApiInv, NEW r \in applied, NEW q \in Requests,
                      request[r].route = "put", HasDocument(q),
                      response[q].etag # NoEtag, response[q].etag = request[r].tag
               PROVE  /\ request[q].profile = request[r].profile
                      /\ response[q].record.revision = args[r].expected
    BY DEF WritesReplaceWhatTheyName
  <2>1. TypeOK /\ CallsAreChecked /\ SavesAreChained /\ DocumentsAreApplied
    BY DEF ApiInv
  <2>2. r \in Requests /\ args[r] # NoArgs
    BY <2>1 DEF SavesAreChained, TypeOK
  <2>3. /\ request[r] \in Inputs /\ args[r] = CallArgs(request[r])
        /\ Error(request[r]) = "none"
    BY <2>1, <2>2, CalledTyped DEF CallsAreChecked
  <2>4. /\ request[r].tag = <<request[r].profile, request[r].revision>>
        /\ args[r].expected = request[r].revision
    BY <2>3 DEF Error, IfMatchError, Etag, CallArgs, ExpectedRevision
  <2>5. /\ response[q].etag = <<args[q].profile, response[q].record.revision>>
        /\ args[q].profile = request[q].profile
    BY <2>1, CalledTyped DEF DocumentsAreApplied, Etag
  <2> QED
    BY <2>4, <2>5
<1> QED
  BY <1>1, ApiInvariant, PTL

\* Whatever an import's envelope says, it never replaces what anyone saved.
THEOREM ImportsCreate == Spec => []ImportsOnlyCreate
<1>1. ApiInv => ImportsOnlyCreate
  <2> SUFFICES ASSUME ApiInv, NEW r \in applied, NEW q \in applied \ {r},
                      request[r].route = "import",
                      request[q].profile = request[r].profile
               PROVE  args[q].expected > 0
    BY DEF ImportsOnlyCreate
  <2>1. TypeOK /\ CallsAreChecked /\ SavesAreChained
    BY DEF ApiInv
  <2>2. /\ r \in Requests /\ args[r] # NoArgs
        /\ q \in Requests /\ args[q] # NoArgs
    BY <2>1 DEF SavesAreChained, TypeOK
  <2>3. /\ args[q].expected \in Nat /\ args[q].profile = args[r].profile
        /\ args[r] = CallArgs(request[r])
    BY <2>1, <2>2, CalledTyped
  <2>4. args[r].expected = 0
    BY <2>3 DEF CallArgs, ExpectedRevision
  <2>5. args[q].expected # args[r].expected
    BY <2>1, <2>3 DEF SavesAreChained
  <2> QED
    BY <2>3, <2>4, <2>5
<1> QED
  BY <1>1, ApiInvariant, PTL

\* A write answered 200 or 201 took effect; one answered 4xx or 503 never does.
THEOREM StatusTells == Spec => []StatusTellsTheOutcome
<1>1. ApiInv => StatusTellsTheOutcome
  <2> SUFFICES ASSUME ApiInv, NEW r \in Requests,
                      request[r].route \in {"put", "import"}
               PROVE  /\ response[r].status \in {200, 201} => r \in applied
                      /\ response[r].status \in {400, 404, 409, 422, 503} =>
                            r \notin applied
    BY DEF StatusTellsTheOutcome
  <2>1. TypeOK /\ CallsAreChecked /\ SavesAreChained /\ DocumentsAreApplied
    BY DEF ApiInv
  <2>2. ASSUME args[r] # NoArgs PROVE args[r].op = "save"
    BY <2>1, <2>2, CalledTyped, CallArgsTyped
  <2>3. response[r].status \in {200, 201} => r \in applied
    BY <2>1, <2>2 DEF DocumentsAreApplied, HasDocument
  <2>4. response[r].status \in {400, 404, 409, 422, 503} => r \notin applied
    BY <2>1 DEF DocumentsAreApplied, SavesAreChained
  <2> QED
    BY <2>3, <2>4
<1> QED
  BY <1>1, ApiInvariant, PTL
=============================================================================
