-------------------------- MODULE ProfileRepository --------------------------
(****************************************************************************)
(* ProfileRepository::save and ::load of services/api, statement by         *)
(* statement, against the PostgreSQL that executes them.                    *)
(*                                                                          *)
(* A request is one call made by an API worker thread on a connection of    *)
(* its own; its backend in PostgreSQL outlives a lost connection and keeps  *)
(* its locks until it notices.  A request's document is not inspected here: *)
(* it is named by the request that carries it, so that two documents are    *)
(* never confused.  revision 0 stands for "no row".                         *)
(****************************************************************************)
EXTENDS Naturals, FiniteSets

CONSTANTS
    Requests,       \* calls of save and load; also names the documents
    Profiles,
    Expectations,   \* the expected revisions a client may send
    HistoryLimit,   \* 200 in the code
    PoolSize,       \* httplib worker threads
    MaxFailures,    \* bound on crashes and restarts in one behaviour
    NoRequest

ASSUME HistoryLimitAssumption == HistoryLimit \in Nat \ {0}
ASSUME ExpectationsAssumption == Expectations \subseteq Nat
ASSUME NoRequestAssumption == NoRequest \notin Requests
ASSUME BoundsAssumption == PoolSize \in Nat \ {0} /\ MaxFailures \in Nat

VARIABLES
    rows,        \* profile_states: one row per profile (committed)
    history,     \* profile_state_history (committed)
    advisory,    \* holder of pg_advisory_xact_lock per profile
    txn,         \* status of each request's backend transaction
    staged,      \* the row the transaction wrote: `saved` in the code
    trimmed,     \* the history rows the open transaction deleted
    pc,          \* the worker's place in the call
    args,        \* the call's arguments
    locked,      \* the revision SELECT ... FOR UPDATE returned
    answer,      \* what the call returns or throws
    failures,    \* crashes and restarts so far (bounded)
    before       \* history variable: requests answered before this one began

server == <<rows, history, advisory, txn, staged, trimmed>>
vars == <<server, pc, args, locked, answer, failures, before>>

NoRow == [revision |-> 0, state |-> NoRequest]
Row == [revision : Nat \ {0}, state : Requests]

Args ==
    [op : {"save"}, profile : Profiles, expected : Expectations, valid : BOOLEAN]
        \cup [op : {"load"}, profile : Profiles, expected : {0}, valid : BOOLEAN]

NoAnswer == [kind |-> "none", revision |-> 0]
AnswerKinds == {"none", "saved", "loaded", "conflict", "rejected",
                "unavailable", "failed"}

Statements == {"begin", "lock", "select", "write", "history", "trim",
               "commit", "read"}
Working == Statements \cup {"connect", "rollback"}
Stopped == {"done", "crashed"}
Unsettled == {"open", "committing"}

\* Types of the variables.
TypeOK ==
    /\ rows \in [Profiles -> Row \cup {NoRow}]
    /\ history \in [Profiles -> SUBSET Row]
    /\ advisory \in [Profiles -> Requests \cup {NoRequest}]
    /\ txn \in [Requests -> Unsettled \cup {"none", "committed", "aborted"}]
    /\ staged \in [Requests -> Row \cup {NoRow}]
    /\ trimmed \in [Requests -> SUBSET Row]
    /\ pc \in [Requests -> {"queued"} \cup Working \cup Stopped]
    /\ args \in [Requests -> Args]
    /\ locked \in [Requests -> Nat]
    /\ answer \in [Requests -> [kind : AnswerKinds, revision : Nat]]
    /\ failures \in Nat
    /\ before \in [Requests -> SUBSET Requests]

\* The migrated, empty database; the workload is any choice of arguments.
Init ==
    /\ rows = [p \in Profiles |-> NoRow]
    /\ history = [p \in Profiles |-> {}]
    /\ advisory = [p \in Profiles |-> NoRequest]
    /\ txn = [r \in Requests |-> "none"]
    /\ staged = [r \in Requests |-> NoRow]
    /\ trimmed = [r \in Requests |-> {}]
    /\ pc = [r \in Requests |-> "queued"]
    /\ args \in [Requests -> Args]
    /\ locked = [r \in Requests |-> 0]
    /\ answer = [r \in Requests |-> NoAnswer]
    /\ failures = 0
    /\ before = [r \in Requests |-> {}]

-----------------------------------------------------------------------------
(* Helpers.                                                                 *)

Profile(r) == args[r].profile

Current(r) == rows[Profile(r)]

At(r, label) == pc[r] = label
Goto(r, label) == pc' = [pc EXCEPT ![r] = label]

Reply(r, kind, revision) ==
    answer' = [answer EXCEPT ![r] = [kind |-> kind, revision |-> revision]]

Answered == {q \in Requests : pc[q] = "done"}

CommittedAs(r) == IF txn[r] = "committed" THEN staged[r].revision ELSE 0

\* Another open transaction has inserted, updated or locked r's profile row.
RowLockedByOther(r) ==
    \E q \in Requests \ {r} :
        /\ Profile(q) = Profile(r)
        /\ txn[q] \in Unsettled
        /\ staged[q] # NoRow \/ locked[q] # 0

\* pg_advisory_xact_lock waits while another transaction holds the lock.
LockAvailable(r) == advisory[Profile(r)] = NoRequest

\* Seeded fault: the comparison with the expected revision accepts older ones.
NotAhead(r) == args[r].expected <= Current(r).revision

\* The optimistic-concurrency check.
Matches(r) == Current(r).revision = args[r].expected

\* Seeded fault: rows are created with revision 0.
FirstRevisionZero == 0

\* VALUES ($1, 1, ...).
FirstRevision == 1

\* Seeded fault: COMMIT is taken as done once it is sent.
CommitSent(r) == txn[r] \in {"committing", "committed"}

\* PGRES_COMMAND_OK for COMMIT.
CommitConfirmed(r) == txn[r] = "committed"

\* Seeded fault: one row too many is kept.
BeyondLimitPlusOne(H) ==
    {h \in H : Cardinality({g \in H : g.revision > h.revision}) > HistoryLimit}

\* The history rows beyond the newest HistoryLimit:
\* ORDER BY revision DESC OFFSET HistoryLimit.
BeyondLimit(H) ==
    {h \in H : Cardinality({g \in H : g.revision > h.revision}) >= HistoryLimit}

\* Seeded fault: the connection of a call that is over is not closed.
ConnectionLeaks(r) == pc[r] = "crashed"

\* The Connection is closed when the call returns, throws or dies.
ConnectionClosed(r) == pc[r] \in Stopped

\* Locks end with the transaction.
ReleaseLocks(r) ==
    advisory' = [p \in Profiles |->
                    IF advisory[p] = r THEN NoRequest ELSE advisory[p]]

Abort(r) ==
    /\ txn' = [txn EXCEPT ![r] = "aborted"]
    /\ staged' = [staged EXCEPT ![r] = NoRow]
    /\ trimmed' = [trimmed EXCEPT ![r] = {}]
    /\ ReleaseLocks(r)
    /\ UNCHANGED <<rows, history>>

-----------------------------------------------------------------------------
(* The call, on its worker thread.                                          *)

WorkerFree == Cardinality({q \in Requests : pc[q] \in Working}) < PoolSize

\* A free worker takes a request whose profile id, state, revision and request
\* id pass the checks made before any connection is opened ...
Accept(r) ==
    /\ At(r, "queued") /\ WorkerFree /\ args[r].valid
    /\ Goto(r, "connect")
    /\ before' = [before EXCEPT ![r] = Answered]
    /\ UNCHANGED <<server, args, locked, answer, failures>>

\* ... or one that does not.
Reject(r) ==
    /\ At(r, "queued") /\ WorkerFree /\ ~args[r].valid
    /\ Reply(r, "rejected", 0)
    /\ Goto(r, "done")
    /\ UNCHANGED <<server, args, locked, failures, before>>

Connect(r) ==
    /\ At(r, "connect")
    /\ Goto(r, IF args[r].op = "save" THEN "begin" ELSE "read")
    /\ UNCHANGED <<server, args, locked, answer, failures, before>>

ConnectFails(r) ==
    /\ At(r, "connect")
    /\ Reply(r, "unavailable", 0)
    /\ Goto(r, "done")
    /\ UNCHANGED <<server, args, locked, failures, before>>

\* load: one autocommitted SELECT.
ReadProfile(r) ==
    /\ At(r, "read")
    /\ Reply(r, "loaded", Current(r).revision)
    /\ Goto(r, "done")
    /\ UNCHANGED <<server, args, locked, failures, before>>

Begin(r) ==
    /\ At(r, "begin")
    /\ txn' = [txn EXCEPT ![r] = "open"]
    /\ Goto(r, "lock")
    /\ UNCHANGED <<rows, history, advisory, staged, trimmed,
                   args, locked, answer, failures, before>>

\* Seeded fault: the advisory lock is not taken.
SkipLock(r) ==
    /\ At(r, "lock") /\ txn[r] = "open"
    /\ Goto(r, "select")
    /\ UNCHANGED <<server, args, locked, answer, failures, before>>

AcquireLock(r) ==
    /\ At(r, "lock") /\ txn[r] = "open"
    /\ LockAvailable(r)
    /\ advisory' = [advisory EXCEPT ![Profile(r)] = r]
    /\ Goto(r, "select")
    /\ UNCHANGED <<rows, history, txn, staged, trimmed,
                   args, locked, answer, failures, before>>

\* READ COMMITTED: the statement's snapshot is taken when it runs, after the
\* advisory lock was granted.  FOR UPDATE can only lock a row that exists.
SelectForUpdate(r) ==
    /\ At(r, "select") /\ txn[r] = "open"
    /\ Current(r) # NoRow => ~RowLockedByOther(r)
    /\ locked' = [locked EXCEPT ![r] = Current(r).revision]
    /\ \/ /\ Matches(r)
          /\ Goto(r, "write")
          /\ UNCHANGED answer
       \/ /\ ~Matches(r)
          /\ Reply(r, "conflict", Current(r).revision)
          /\ Goto(r, "rollback")
    /\ UNCHANGED <<server, args, failures, before>>

\* INSERT waits for a concurrent insert of the same key and needs the key free.
InsertRow(r) ==
    /\ At(r, "write") /\ txn[r] = "open" /\ locked[r] = 0
    /\ ~RowLockedByOther(r) /\ Current(r) = NoRow
    /\ staged' = [staged EXCEPT ![r] = [revision |-> FirstRevision, state |-> r]]
    /\ Goto(r, "history")
    /\ UNCHANGED <<rows, history, advisory, txn, trimmed,
                   args, locked, answer, failures, before>>

\* UPDATE increments the revision the row has when the statement runs.
UpdateRow(r) ==
    /\ At(r, "write") /\ txn[r] = "open" /\ locked[r] # 0
    /\ ~RowLockedByOther(r) /\ Current(r) # NoRow
    /\ staged' = [staged EXCEPT ![r] =
                    [revision |-> Current(r).revision + 1, state |-> r]]
    /\ Goto(r, "history")
    /\ UNCHANGED <<rows, history, advisory, txn, trimmed,
                   args, locked, answer, failures, before>>

\* The row (profile_id, saved.revision) is new: it is the primary key.
InsertHistory(r) ==
    /\ At(r, "history") /\ txn[r] = "open"
    /\ \A h \in history[Profile(r)] : h.revision # staged[r].revision
    /\ Goto(r, "trim")
    /\ UNCHANGED <<server, args, locked, answer, failures, before>>

TrimHistory(r) ==
    /\ At(r, "trim") /\ txn[r] = "open"
    /\ trimmed' = [trimmed EXCEPT ![r] =
                    BeyondLimit(history[Profile(r)] \cup {staged[r]})]
    /\ Goto(r, "commit")
    /\ UNCHANGED <<rows, history, advisory, txn, staged,
                   args, locked, answer, failures, before>>

SendCommit(r) ==
    /\ At(r, "commit") /\ txn[r] = "open"
    /\ txn' = [txn EXCEPT ![r] = "committing"]
    /\ UNCHANGED <<rows, history, advisory, staged, trimmed,
                   pc, args, locked, answer, failures, before>>

CommitReply(r) ==
    /\ At(r, "commit") /\ CommitConfirmed(r)
    /\ Reply(r, "saved", staged[r].revision)
    /\ Goto(r, "done")
    /\ UNCHANGED <<server, args, locked, failures, before>>

\* ~Transaction: ROLLBACK, its result ignored; then the exception propagates.
Rollback(r) ==
    /\ At(r, "rollback")
    /\ Abort(r)
    /\ Goto(r, "done")
    /\ UNCHANGED <<args, locked, answer, failures, before>>

\* A statement returns an error.  A failed BEGIN leaves no Transaction to
\* destroy and load has none; a failed COMMIT has already aborted.
StatementFails(r) ==
    /\ pc[r] \in Statements
    /\ At(r, "commit") => txn[r] = "aborted"
    /\ Reply(r, "failed", 0)
    /\ Goto(r, IF pc[r] \in {"begin", "read"} THEN "done" ELSE "rollback")
    /\ UNCHANGED <<server, args, locked, failures, before>>

\* The connection breaks under a statement: the call fails whatever PostgreSQL
\* made of the statement, and the backend transaction is left behind.
LoseConnection(r) ==
    /\ pc[r] \in Statements
    /\ Reply(r, "failed", 0)
    /\ Goto(r, "done")
    /\ UNCHANGED <<server, args, locked, failures, before>>

\* The connection breaks under ROLLBACK: the first exception still propagates.
LoseRollback(r) ==
    /\ At(r, "rollback")
    /\ Goto(r, "done")
    /\ UNCHANGED <<server, args, locked, answer, failures, before>>

-----------------------------------------------------------------------------
(* PostgreSQL, and the processes' failures.                                 *)

ServerCommit(r) ==
    /\ txn[r] = "committing"
    /\ rows' = [rows EXCEPT ![Profile(r)] = staged[r]]
    /\ history' = [history EXCEPT ![Profile(r)] =
                    (@ \cup {staged[r]}) \ trimmed[r]]
    /\ txn' = [txn EXCEPT ![r] = "committed"]
    /\ trimmed' = [trimmed EXCEPT ![r] = {}]
    /\ ReleaseLocks(r)
    /\ UNCHANGED <<staged, pc, args, locked, answer, failures, before>>

\* A backend aborts when its client is gone, or when COMMIT itself fails.
ServerAbort(r) ==
    /\ txn[r] \in Unsettled
    /\ ConnectionClosed(r) \/ txn[r] = "committing"
    /\ Abort(r)
    /\ UNCHANGED <<pc, args, locked, answer, failures, before>>

\* PostgreSQL restarts: open transactions abort, committed rows survive.
DatabaseRestart ==
    /\ failures < MaxFailures
    /\ \E r \in Requests : txn[r] \in Unsettled
    /\ txn' = [r \in Requests |->
                IF txn[r] \in Unsettled THEN "aborted" ELSE txn[r]]
    /\ staged' = [r \in Requests |->
                IF txn[r] \in Unsettled THEN NoRow ELSE staged[r]]
    /\ trimmed' = [r \in Requests |-> {}]
    /\ advisory' = [p \in Profiles |-> NoRequest]
    /\ failures' = failures + 1
    /\ UNCHANGED <<rows, history, pc, args, locked, answer, before>>

\* The API process dies with every call it is serving; nobody is answered.
ApiCrash ==
    /\ failures < MaxFailures
    /\ \E r \in Requests : pc[r] \in Working
    /\ pc' = [r \in Requests |-> IF pc[r] \in Working THEN "crashed" ELSE pc[r]]
    /\ failures' = failures + 1
    /\ UNCHANGED <<server, args, locked, answer, before>>

\* Every call has ended.
Finished ==
    /\ \A r \in Requests : pc[r] \in Stopped
    /\ UNCHANGED vars

-----------------------------------------------------------------------------

\* What a call does when neither the network nor PostgreSQL fails it.
Progress(r) ==
    \/ Accept(r) \/ Reject(r) \/ Connect(r) \/ ReadProfile(r)
    \/ Begin(r) \/ AcquireLock(r) \/ SelectForUpdate(r)
    \/ InsertRow(r) \/ UpdateRow(r) \/ InsertHistory(r) \/ TrimHistory(r)
    \/ SendCommit(r) \/ CommitReply(r) \/ Rollback(r)

Fault(r) ==
    ConnectFails(r) \/ StatementFails(r) \/ LoseConnection(r) \/ LoseRollback(r)

Settle(r) == ServerCommit(r) \/ ServerAbort(r)

Next ==
    \/ \E r \in Requests : Progress(r) \/ Fault(r) \/ Settle(r)
    \/ DatabaseRestart
    \/ ApiCrash
    \/ Finished

\* libpq returns from every call, with a result or an error; PostgreSQL decides
\* every COMMIT it received and clears up after clients that are gone.
Fairness ==
    \A r \in Requests :
        /\ WF_vars(Progress(r))
        /\ WF_vars(txn[r] = "aborted" /\ StatementFails(r))
        /\ WF_vars(Settle(r))

Spec == Init /\ [][Next]_vars
FairSpec == Spec /\ Fairness

-----------------------------------------------------------------------------
(* Properties.                                                              *)

\* Every revision of a profile was committed by exactly one save, and that save
\* was sent against the revision just before it: no update is overwritten
\* unseen (save, lines 205-243).
NoLostUpdate ==
    /\ \A r \in Requests :
          txn[r] = "committed" => CommittedAs(r) = args[r].expected + 1
    /\ \A q, r \in Requests :
          (/\ q # r
           /\ Profile(q) = Profile(r)
           /\ txn[q] = "committed"
           /\ txn[r] = "committed") => CommittedAs(q) # CommittedAs(r)
    /\ \A p \in Profiles : \A k \in 1 .. rows[p].revision :
          \E r \in Requests : Profile(r) = p /\ CommittedAs(r) = k

\* The history table holds the newest HistoryLimit revisions without a gap,
\* each with the document that was committed under that number, and the
\* profile's row is the newest of them (lines 245-260).
HistoryIsNewestWindow ==
    \A p \in Profiles :
        LET n == rows[p].revision IN
        /\ {h.revision : h \in history[p]} = {k \in 1 .. n : k + HistoryLimit > n}
        /\ \A h \in history[p] :
              Profile(h.state) = p /\ CommittedAs(h.state) = h.revision
        /\ n # 0 => rows[p] \in history[p]

\* What the caller is told is what happened: "saved" names the revision this
\* call committed, and a conflict, a rejection or an unavailable database means
\* that nothing was or will be written.  Only "failed" leaves it open.
AnswersAreTrue ==
    \A r \in Answered :
        /\ answer[r].kind # "none"
        /\ answer[r].kind = "saved" =>
              txn[r] = "committed" /\ answer[r].revision = CommittedAs(r)
        /\ answer[r].kind = "conflict" =>
              /\ txn[r] \in {"open", "aborted"}
              /\ answer[r].revision # args[r].expected
        /\ answer[r].kind \in {"loaded", "rejected", "unavailable"} =>
              txn[r] = "none"

\* A call that begins after another was answered never reports an older
\* revision of the profile than that answer did, and a save reports a newer one.
AnswersAreFresh ==
    \A r \in Answered : \A q \in before[r] :
        (/\ Profile(q) = Profile(r)
         /\ answer[q].kind \in {"saved", "loaded", "conflict"}) =>
            /\ answer[r].kind \in {"loaded", "conflict"} =>
                  answer[q].revision <= answer[r].revision
            /\ answer[r].kind = "saved" =>
                  answer[q].revision < answer[r].revision

\* The comment at lines 203-204: the advisory lock serialises first creation
\* and later updates, so a save that reached its writes never waits for a row
\* lock and never meets an existing key.
AdvisoryLockSerialises ==
    \A r \in Requests :
        txn[r] = "open" =>
            /\ pc[r] \in {"select", "write", "history", "trim"} =>
                  ~RowLockedByOther(r)
            /\ At(r, "write") => Current(r).revision = locked[r]
            /\ At(r, "history") =>
                  \A h \in history[Profile(r)] : h.revision # staged[r].revision

\* A committed revision is never taken back or rewritten: rows advance by one,
\* and a history row keeps its document until it is trimmed.
RevisionsOnlyAdvance ==
    [][\A p \in Profiles :
          /\ rows'[p] # rows[p] => rows'[p].revision = rows[p].revision + 1
          /\ \A h \in history[p], g \in history'[p] :
                h.revision = g.revision => h = g]_<<rows, history>>

\* The statements, locks and failures implement the one-step conditional store.
Store == INSTANCE ProfileStore WITH
            applied <- {r \in Requests : txn[r] = "committed"}
ImplementsStore == Store!StoreSpec

\* A call that a worker took up ends.
CallsEnd == \A r \in Requests : pc[r] \in Working ~> pc[r] \in Stopped

\* The advisory lock is always given back, also by backends whose worker is gone.
LocksAreReleased ==
    \A p \in Profiles : advisory[p] # NoRequest ~> advisory[p] = NoRequest
=============================================================================
