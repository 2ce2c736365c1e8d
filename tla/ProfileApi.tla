------------------------------ MODULE ProfileApi ------------------------------
(****************************************************************************)
(* The profile routes of the HTTP API over the conditional store: what is   *)
(* refused before the repository is called, which expected revision it is   *)
(* called with, and which status, ETag and document the client gets back.   *)
(* The repository is ProfileStore, which ProfileRepository implements.      *)
(*                                                                          *)
(* A request is whatever a client sends, chosen when it arrives.  The       *)
(* compatibility routes /api/state and /api/export run the same handlers    *)
(* and are not told apart.  A request is wrong in at most one way: a bound. *)
(****************************************************************************)
EXTENDS ProfileStore

CONSTANTS
    Revisions,   \* the revisions a client may name
    NoEtag

ASSUME RevisionsAssumption == Revisions \subseteq Nat

\* A missing header is none of the tags state_etag formats.
ASSUME NoEtagAssumption == NoEtag \notin Profiles \X Nat

VARIABLES
    request,   \* what each client sent
    response   \* what it got back

vars == <<storeVars, request, response>>

\* Seeded fault: the ETag does not name the profile.
RevisionOnly(p, k) == <<NoRequest, k>>

\* state_etag: "state-<profile>-r<revision>".
Etag(p, k) == <<p, k>>

Tags == {NoEtag} \cup {Etag(p, k) : p \in Profiles, k \in Revisions}

Reads ==
    [route : {"get"}, profile : Profiles, revision : {0}, tag : Tags,
     defect : {"none", "profile_invalid"}]
    \cup
    [route : {"export"}, profile : Profiles, revision : {0}, tag : {NoEtag},
     defect : {"none", "profile_invalid"}]

\* content_type_invalid fares as body_invalid; state_score_invalid and
\* answer_invalid as state_invalid.
WriteDefects == {"none", "body_invalid", "profile_invalid", "revision_invalid",
                 "state_invalid", "card_not_found"}

Writes ==
    [route : {"put"}, profile : Profiles, revision : Revisions, tag : Tags,
     defect : WriteDefects]
    \cup
    [route : {"import"}, profile : Profiles, revision : Revisions, tag : {NoEtag},
     defect : WriteDefects \ {"revision_invalid"}]

OneWrong(q) ==
    (q.route = "put" /\ q.defect # "none") => q.tag = Etag(q.profile, q.revision)

Inputs == {q \in Reads \cup Writes : OneWrong(q)}

Unsent == [route |-> "none", profile |-> NoRequest, revision |-> 0,
           tag |-> NoEtag, defect |-> "none"]
NoDocument == [revision |-> 0, state |-> NoRequest]
Pending == [status |-> 0, etag |-> NoEtag, record |-> NoDocument]

NoArgs == [op |-> "none", profile |-> NoRequest, expected |-> 0, valid |-> FALSE]

-----------------------------------------------------------------------------
(* The handlers.                                                            *)

\* Seeded fault: the header is not compared.
AnyIfMatch(q) == "none"

\* verify_if_match: the header must be there and name the body's revision.
IfMatchError(q) ==
    IF q.tag = NoEtag THEN "if_match_required"
    ELSE IF q.tag # Etag(q.profile, q.revision) THEN "if_match_invalid"
    ELSE "none"

\* The first check that fails before the repository is called.  Only save_profile
\* looks at If-Match, after everything else; import leaves the profile id to the
\* repository.
Error(q) ==
    CASE q.route = "put" /\ q.defect = "none" -> IfMatchError(q)
      [] q.route = "import" /\ q.defect = "profile_invalid" -> "none"
      [] OTHER -> q.defect

\* protected_handler's mapping of a DomainError.
DomainStatus(code) ==
    CASE code = "card_not_found" -> 404
      [] code = "state_invalid" -> 422
      [] OTHER -> 400

\* Seeded fault: every RepositoryError is reported as an unavailable database.
AlwaysUnavailable(kind) == 503

\* protected_handler's mapping of a RepositoryError.
RepositoryStatus(kind) == IF kind = "unavailable" THEN 503 ELSE 500

\* Seeded fault: an import is made against the revision its envelope names.
EnvelopeRevision(q) == q.revision

\* import_empty saves against revision 0, whatever the envelope says.
ExpectedRevision(q) == IF q.route = "import" THEN 0 ELSE q.revision

SavedStatus(q) == IF q.route = "import" THEN 201 ELSE 200

CallArgs(q) ==
    [op |-> IF q.route \in {"put", "import"} THEN "save" ELSE "load",
     profile |-> q.profile,
     expected |-> ExpectedRevision(q),
     valid |-> q.defect = "none"]

Respond(r, status, etag, record) ==
    response' = [response EXCEPT ![r] =
                    [status |-> status, etag |-> etag, record |-> record]]

Calling(r) == request[r] # Unsent /\ response[r] = Pending

-----------------------------------------------------------------------------
(* Steps.                                                                   *)

\* The handler throws before it calls the repository.
Refuse(r, q) ==
    /\ request[r] = Unsent /\ Error(q) # "none"
    /\ request' = [request EXCEPT ![r] = q]
    /\ Respond(r, DomainStatus(Error(q)), NoEtag, NoDocument)
    /\ UNCHANGED storeVars

Call(r, q) ==
    /\ request[r] = Unsent /\ Error(q) = "none"
    /\ request' = [request EXCEPT ![r] = q]
    /\ args' = [args EXCEPT ![r] = CallArgs(q)]
    /\ UNCHANGED <<rows, history, applied, answer, response>>

\* The repository commits; it may do so after it told the handler "failed".
Commit(r) ==
    /\ request[r] # Unsent
    /\ Apply(r)
    /\ UNCHANGED <<request, response>>

Saved(r) ==
    /\ Calling(r) /\ TellSaved(r)
    /\ LET k == args[r].expected + 1 IN
       Respond(r, SavedStatus(request[r]), Etag(request[r].profile, k),
               [revision |-> k, state |-> r])
    /\ UNCHANGED request

Conflicts(r) ==
    /\ Calling(r) /\ TellConflict(r)
    /\ Respond(r, 409, NoEtag, [revision |-> Revision(r), state |-> NoRequest])
    /\ UNCHANGED request

\* get_profile answers 304 when If-None-Match is the ETag of the record loaded;
\* the export carries no ETag.
Loaded(r) ==
    /\ Calling(r) /\ TellLoaded(r)
    /\ LET q == request[r]
           etag == Etag(q.profile, Revision(r))
           record == rows[q.profile]
       IN  \/ q.route = "export" /\ Respond(r, 200, NoEtag, record)
           \/ q.route = "get" /\ q.tag # etag /\ Respond(r, 200, etag, record)
           \/ q.route = "get" /\ q.tag = etag /\ Respond(r, 304, etag, NoDocument)
    /\ UNCHANGED request

\* StateValidator inside the repository.
Rejected(r) ==
    /\ Calling(r) /\ TellRejected(r)
    /\ Respond(r, DomainStatus(request[r].defect), NoEtag, NoDocument)
    /\ UNCHANGED request

Unavailable(r) ==
    /\ Calling(r) /\ args[r].valid /\ TellUnavailable(r)
    /\ Respond(r, RepositoryStatus("unavailable"), NoEtag, NoDocument)
    /\ UNCHANGED request

Fails(r) ==
    /\ Calling(r) /\ args[r].valid /\ TellFailed(r)
    /\ Respond(r, RepositoryStatus("failed"), NoEtag, NoDocument)
    /\ UNCHANGED request

Finished ==
    /\ \A r \in Requests : request[r] # Unsent /\ response[r] # Pending
    /\ UNCHANGED vars

Init ==
    /\ rows = [p \in Profiles |-> NoDocument]
    /\ history = [p \in Profiles |-> {}]
    /\ args = [r \in Requests |-> NoArgs]
    /\ applied = {}
    /\ answer = [r \in Requests |-> NoAnswer]
    /\ request = [r \in Requests |-> Unsent]
    /\ response = [r \in Requests |-> Pending]

Next ==
    \/ \E r \in Requests, q \in Inputs : Refuse(r, q) \/ Call(r, q)
    \/ \E r \in Requests :
          \/ Commit(r) \/ Saved(r) \/ Conflicts(r) \/ Loaded(r)
          \/ Rejected(r) \/ Unavailable(r) \/ Fails(r)
    \/ Finished

Spec == Init /\ [][Next]_vars

-----------------------------------------------------------------------------
(* Properties.                                                              *)

\* Statuses each route may answer with (0: not yet answered).
Statuses(route) ==
    {0, 400, 500, 503} \cup
    CASE route = "put" -> {200, 404, 409, 422}
      [] route = "import" -> {201, 404, 409, 422}
      [] route = "get" -> {200, 304}
      [] OTHER -> {200}

AnswerKinds == {"none", "saved", "loaded", "conflict", "rejected",
                "unavailable", "failed"}
Document == [revision : Nat, state : Requests \cup {NoRequest}]

\* Types of the variables; the 201 of an import is part of it.
TypeOK ==
    /\ rows \in [Profiles -> Document]
    /\ applied \subseteq Requests
    /\ args \in [Requests -> {NoArgs} \cup {CallArgs(q) : q \in Inputs}]
    /\ answer \in [Requests -> [kind : AnswerKinds, revision : Nat]]
    /\ request \in [Requests -> Inputs \cup {Unsent}]
    /\ response \in [Requests -> [status : Nat, record : Document,
                                  etag : {NoEtag} \cup (Profiles \X Nat)]]
    /\ \A r \in Requests : response[r].status \in Statuses(request[r].route)

HasDocument(r) == response[r].status \in {200, 201}

\* An ETag identifies one document: two responses with the same ETag never carry
\* different documents, and a 304 is only sent to a client whose ETag came with
\* the document it would be sent now or was current when the handler loaded it
\* (openapi.yaml: "The supplied ETag is current.").
EtagIdentifiesDocument ==
    /\ \A q, r \in Requests :
          (/\ HasDocument(q) /\ HasDocument(r)
           /\ response[q].etag # NoEtag /\ response[q].etag = response[r].etag)
             => response[q].record = response[r].record
    /\ \A q, r \in Requests :
          (/\ response[r].status = 304 /\ HasDocument(q)
           /\ response[q].etag = request[r].tag)
             => /\ request[q].profile = request[r].profile
                /\ response[q].record.revision = answer[r].revision

\* A save replaces exactly the document whose ETag its client sent: if a PUT
\* took effect, every document that was served under that ETag belongs to the
\* same profile and is the one right before the PUT's own, also when the PUT was
\* answered 500.
WritesReplaceWhatTheyName ==
    \A r \in applied : \A q \in Requests :
        (/\ request[r].route = "put" /\ HasDocument(q)
         /\ response[q].etag # NoEtag /\ response[q].etag = request[r].tag)
           => /\ request[q].profile = request[r].profile
              /\ response[q].record.revision = args[r].expected

\* An import only creates ("imported into an empty profile"): if one took effect,
\* every other save of its profile came after it, so that nothing anyone saved
\* was replaced by the import.
ImportsOnlyCreate ==
    \A r \in applied : \A q \in applied \ {r} :
        (request[r].route = "import" /\ request[q].profile = request[r].profile)
          => args[q].expected > 0

\* A client may trust the status: a write answered 200 or 201 took effect, and
\* one answered 4xx or 503 did not and never will.  Only 500 leaves it open.
StatusTellsTheOutcome ==
    \A r \in Requests :
        request[r].route \in {"put", "import"} =>
            /\ response[r].status \in {200, 201} => r \in applied
            /\ response[r].status \in {400, 404, 409, 422, 503} => r \notin applied

-----------------------------------------------------------------------------
(* The inductive invariant behind them.                                     *)

\* The repository is only called with what the handler checked.
CallsAreChecked ==
    \A r \in Requests :
        /\ args[r] # NoArgs =>
              /\ request[r] # Unsent
              /\ args[r] = CallArgs(request[r])
              /\ Error(request[r]) = "none"
        /\ args[r] = NoArgs =>
              /\ answer[r] = NoAnswer
              /\ request[r] # Unsent => response[r] # Pending
        /\ request[r] = Unsent => response[r] = Pending
        /\ answer[r].kind = "rejected" => ~args[r].valid
        /\ answer[r].kind = "loaded" => args[r].op = "load"

\* Applied saves of a profile follow one another, the row holding the last.
SavesAreChained ==
    /\ \A r \in applied :
          /\ args[r].op = "save" /\ args[r].valid
          /\ args[r].expected < Revision(r)
          /\ answer[r].kind \in {"none", "failed", "saved"}
    /\ \A q, r \in applied :
          (q # r /\ args[q].profile = args[r].profile) =>
              args[q].expected # args[r].expected

\* A document under its revision is the one some applied save put there.
IsDocument(p, record) ==
    \/ record = NoDocument
    \/ /\ record.state \in applied
       /\ args[record.state].profile = p
       /\ record.revision = args[record.state].expected + 1

\* Rows and responses hold documents that were applied; a response says under
\* its status what the repository answered.
DocumentsAreApplied ==
    /\ \A p \in Profiles : IsDocument(p, rows[p])
    /\ \A r \in Requests :
          /\ HasDocument(r) =>
                /\ args[r] # NoArgs
                /\ IsDocument(args[r].profile, response[r].record)
                /\ response[r].etag \in
                      {NoEtag, Etag(args[r].profile, response[r].record.revision)}
                /\ args[r].op = "save" => r \in applied
          /\ response[r].status = 304 =>
                /\ args[r] # NoArgs
                /\ request[r].tag = Etag(request[r].profile, answer[r].revision)
          /\ (args[r] # NoArgs /\ response[r].status \in {400, 404, 409, 422, 503}) =>
                answer[r].kind \in {"conflict", "rejected", "unavailable"}

ApiInv == TypeOK /\ CallsAreChecked /\ SavesAreChained /\ DocumentsAreApplied
=============================================================================
