----------------------------- MODULE ProfileStore -----------------------------
(****************************************************************************)
(* What ProfileRepository promises its callers: per profile, one document   *)
(* with a revision that a save advances only from the revision the caller   *)
(* named, and the newest HistoryLimit documents.  Everything happens in one *)
(* step; there are no statements, locks, connections or processes here.     *)
(****************************************************************************)
EXTENDS Naturals

CONSTANTS Requests, Profiles, HistoryLimit, NoRequest

VARIABLES
    rows,     \* the current document of each profile
    history,  \* its newest revisions
    args,     \* what each request asks for
    applied,  \* the saves that took effect
    answer    \* what each request was told

storeVars == <<rows, history, args, applied, answer>>

NoAnswer == [kind |-> "none", revision |-> 0]

StoreInit ==
    /\ rows = [p \in Profiles |-> [revision |-> 0, state |-> NoRequest]]
    /\ history = [p \in Profiles |-> {}]
    /\ applied = {}
    /\ answer = [r \in Requests |-> NoAnswer]

Revision(r) == rows[args[r].profile].revision

Tell(r, kind, revision) ==
    /\ answer[r] = NoAnswer
    /\ answer' = [answer EXCEPT ![r] = [kind |-> kind, revision |-> revision]]
    /\ UNCHANGED <<rows, history, args, applied>>

\* The conditional write.  It may come after the caller was told "failed".
Apply(r) ==
    LET p == args[r].profile
        row == [revision |-> Revision(r) + 1, state |-> r]
    IN  /\ args[r].op = "save" /\ args[r].valid /\ r \notin applied
        /\ answer[r].kind \in {"none", "failed"}
        /\ Revision(r) = args[r].expected
        /\ rows' = [rows EXCEPT ![p] = row]
        /\ history' = [history EXCEPT ![p] =
              {h \in @ \cup {row} : h.revision + HistoryLimit > row.revision}]
        /\ applied' = applied \cup {r}
        /\ UNCHANGED <<args, answer>>

TellSaved(r) ==
    /\ r \in applied
    /\ Tell(r, "saved", args[r].expected + 1)

TellConflict(r) ==
    /\ args[r].op = "save" /\ r \notin applied
    /\ Revision(r) # args[r].expected
    /\ Tell(r, "conflict", Revision(r))

TellLoaded(r) ==
    /\ args[r].op = "load"
    /\ Tell(r, "loaded", Revision(r))

\* A request refused before it could write, or one whose fate is not known.
TellRejected(r) == ~args[r].valid /\ Tell(r, "rejected", 0)
TellUnavailable(r) == r \notin applied /\ Tell(r, "unavailable", 0)
TellFailed(r) == Tell(r, "failed", 0)

StoreNext ==
    \E r \in Requests :
        \/ Apply(r)
        \/ TellSaved(r) \/ TellConflict(r) \/ TellLoaded(r)
        \/ TellRejected(r) \/ TellUnavailable(r) \/ TellFailed(r)

StoreSpec == StoreInit /\ [][StoreNext]_storeVars
=============================================================================
