------------------------ MODULE ProfileRepositoryInv ------------------------
(****************************************************************************)
(* The inductive invariant behind the safety properties of                  *)
(* ProfileRepository, as a conjunction of named parts.                      *)
(****************************************************************************)
EXTENDS ProfileRepository

HasWritten(r) == staged[r] # NoRow

\* Where the worker is and how far its backend has got agree.
PhasesAgree ==
    \A r \in Requests :
        /\ pc[r] \in {"queued", "connect", "begin", "read"} => txn[r] = "none"
        /\ pc[r] \in {"lock", "select", "write", "history", "trim", "rollback"} =>
              txn[r] \in {"open", "aborted"}
        /\ pc[r] = "commit" => txn[r] # "none"
        /\ pc[r] = "read" => args[r].op = "load"
        /\ txn[r] # "none" => args[r].op = "save" /\ args[r].valid
        /\ pc[r] \in {"connect", "begin", "read"} => args[r].valid
        /\ pc[r] = "begin" => args[r].op = "save"

\* A transaction writes one row: its own document under the next revision.
StagedRows ==
    \A r \in Requests :
        /\ HasWritten(r) =>
              /\ txn[r] \in Unsettled \cup {"committed"}
              /\ staged[r].state = r
              /\ staged[r].revision = args[r].expected + 1
        /\ pc[r] \in {"queued", "connect", "begin", "read", "lock", "select",
                      "write"} => ~HasWritten(r)
        /\ (pc[r] \in {"history", "trim", "commit"} /\ txn[r] \in Unsettled) =>
              HasWritten(r)
        /\ txn[r] \in {"committing", "committed"} => HasWritten(r)

\* The advisory lock is held from the read to the end of the transaction.
LockHeld ==
    /\ \A p \in Profiles : advisory[p] # NoRequest =>
          /\ Profile(advisory[p]) = p
          /\ txn[advisory[p]] \in Unsettled
    /\ \A r \in Requests :
          /\ (/\ txn[r] \in Unsettled
              /\ \/ pc[r] \in {"select", "write", "history", "trim", "commit"}
                 \/ HasWritten(r)
                 \/ locked[r] # 0) => advisory[Profile(r)] = r
          /\ pc[r] \in {"queued", "connect", "begin", "read", "lock", "select"} =>
                locked[r] = 0

\* What the transaction read is still there when it writes and commits.
ReadIsCurrent ==
    \A r \in Requests :
        /\ (pc[r] = "write" /\ txn[r] = "open") =>
              /\ locked[r] = args[r].expected
              /\ Current(r).revision = args[r].expected
        /\ (HasWritten(r) /\ txn[r] \in Unsettled) =>
              Current(r).revision = args[r].expected

\* No committed revision exceeds its profile's row.
CommitsAreBelowRow ==
    /\ \A r \in Requests : txn[r] = "committed" =>
          CommittedAs(r) <= Current(r).revision
    /\ \A p \in Profiles : rows[p] # NoRow =>
          /\ Profile(rows[p].state) = p
          /\ txn[rows[p].state] = "committed"
          /\ staged[rows[p].state] = rows[p]

\* A history row is what its transaction committed.
HistoryIsCommitted ==
    \A p \in Profiles : \A h \in history[p] :
        /\ Profile(h.state) = p
        /\ txn[h.state] = "committed"
        /\ staged[h.state] = h

\* An exception on its way to the caller, and an answer that arrived.
AnswersInFlight ==
    \A r \in Requests :
        /\ pc[r] \in {"queued", "connect"} \cup Statements =>
              answer[r] = NoAnswer
        /\ pc[r] = "rollback" => answer[r].kind \in {"conflict", "failed"}
        /\ answer[r].kind = "conflict" =>
              /\ txn[r] \in {"open", "aborted"} /\ ~HasWritten(r)
              /\ answer[r].revision # args[r].expected
        /\ answer[r].kind = "saved" =>
              /\ txn[r] = "committed"
              /\ answer[r].revision = CommittedAs(r)
        /\ answer[r].kind \in {"loaded", "rejected", "unavailable"} =>
              txn[r] = "none"
        /\ (pc[r] = "crashed" /\ txn[r] = "none") => answer[r] = NoAnswer
        /\ pc[r] = "done" => answer[r].kind # "none"

SafetyInv ==
    /\ TypeOK
    /\ PhasesAgree
    /\ StagedRows
    /\ LockHeld
    /\ ReadIsCurrent
    /\ CommitsAreBelowRow
    /\ HistoryIsCommitted
    /\ NoLostUpdate
    /\ AnswersInFlight

-----------------------------------------------------------------------------
(* What AnswersAreFresh, HistoryIsNewestWindow and the refinement of the    *)
(* store need beyond SafetyInv.                                             *)

Reported(q) == answer[q].kind \in {"saved", "loaded", "conflict"}

\* Nobody was told of a revision that is not committed.
AnswersAreBelowRow ==
    \A q \in Requests : Reported(q) => answer[q].revision <= Current(q).revision

\* What was answered before a call began bounds from below what the call
\* writes and reports.
BeginsAreAfter ==
    \A r \in Requests :
        /\ before[r] \subseteq Answered
        /\ \A q \in before[r] :
              (Profile(q) = Profile(r) /\ Reported(q)) =>
                  /\ HasWritten(r) => answer[q].revision < staged[r].revision
                  /\ answer[r].kind \in {"loaded", "conflict"} =>
                        answer[q].revision <= answer[r].revision

\* The rows a transaction deleted are still the right ones when it commits.
TrimIsExact ==
    \A r \in Requests :
        (txn[r] = "committing" \/ (txn[r] = "open" /\ pc[r] = "commit")) =>
            trimmed[r] = BeyondLimit(history[Profile(r)] \cup {staged[r]})

RepositoryInv ==
    /\ SafetyInv
    /\ AnswersAreBelowRow
    /\ BeginsAreAfter
    /\ TrimIsExact
    /\ HistoryIsNewestWindow
=============================================================================
