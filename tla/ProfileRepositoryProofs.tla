----------------------- MODULE ProfileRepositoryProofs -----------------------
(****************************************************************************)
(* SafetyInv is inductive, and what follows from it, for any number of      *)
(* requests, profiles, revisions, workers and failures; then, with it,      *)
(* RepositoryInv: answers are fresh, the history is the newest window, and  *)
(* save and load implement the one-step store of ProfileStore.              *)
(*                                                                          *)
(* One lemma per action.  In each, the conjuncts that the action can        *)
(* disturb have steps of their own, and the others follow, together, from   *)
(* themselves.                                                              *)
(****************************************************************************)
EXTENDS ProfileRepositoryInv, FiniteSetTheorems, TLAPS

USE DEF At, Goto, Reply, Profile, Current, HasWritten, CommittedAs, server,
        Working, Statements, Stopped, Unsettled, NoRow, NoAnswer, Row

\* What the arguments of a request range over.
LEMMA ArgsTyped ==
    ASSUME TypeOK, NEW r \in Requests
    PROVE  Profile(r) \in Profiles /\ args[r].expected \in Nat
<1>1. args[r] \in Args
  BY DEF TypeOK
<1>2. args[r].expected \in Expectations \cup {0}
  BY <1>1 DEF Args
<1>3. Profile(r) \in Profiles
  BY <1>1 DEF Args
<1>4. args[r].expected \in Nat
  <2>1. Expectations \subseteq Nat
    BY ExpectationsAssumption
  <2>2. ASSUME NEW e \in Expectations \cup {0} PROVE e \in Nat
    BY <2>1
  <2> QED
    BY <1>2, <2>2
<1> QED
  BY <1>3, <1>4

\* The row a request looks at has a revision, 0 when there is none.
LEMMA RevisionIsNat ==
    ASSUME TypeOK, NEW r \in Requests
    PROVE  Current(r).revision \in Nat
<1>1. Current(r) \in Row \cup {NoRow}
  BY ArgsTyped DEF TypeOK
<1> QED
  BY <1>1

-----------------------------------------------------------------------------
(* The worker's steps.                                                      *)

\* Taking a request touches no row, lock or transaction.
LEMMA AcceptSafe ==
    ASSUME SafetyInv, NEW r \in Requests, Accept(r)
    PROVE  SafetyInv'
<1>1. TypeOK'
  BY DEF SafetyInv, Accept, Answered, TypeOK
<1>2. /\ PhasesAgree' /\ StagedRows' /\ LockHeld' /\ ReadIsCurrent'
      /\ CommitsAreBelowRow' /\ HistoryIsCommitted' /\ NoLostUpdate'
      /\ AnswersInFlight'
  BY DEF SafetyInv, Accept, Answered, PhasesAgree, StagedRows, LockHeld,
         ReadIsCurrent, CommitsAreBelowRow, HistoryIsCommitted, NoLostUpdate,
         AnswersInFlight
<1> QED
  BY <1>1, <1>2 DEF SafetyInv

\* A request refused by its arguments never opened a transaction.
LEMMA RejectSafe ==
    ASSUME SafetyInv, NEW r \in Requests, Reject(r)
    PROVE  SafetyInv'
<1>1. TypeOK'
  BY DEF SafetyInv, Reject, TypeOK, AnswerKinds
<1>2. AnswersInFlight'
  BY DEF SafetyInv, Reject, AnswersInFlight, TypeOK, PhasesAgree, Args
<1>3. /\ PhasesAgree' /\ StagedRows' /\ LockHeld' /\ ReadIsCurrent'
      /\ CommitsAreBelowRow' /\ HistoryIsCommitted' /\ NoLostUpdate'
  BY DEF SafetyInv, Reject, PhasesAgree, StagedRows, LockHeld, ReadIsCurrent,
         CommitsAreBelowRow, HistoryIsCommitted, NoLostUpdate
<1> QED
  BY <1>1, <1>2, <1>3 DEF SafetyInv

\* A save goes on to BEGIN, a load to its one SELECT.
LEMMA ConnectSafe ==
    ASSUME SafetyInv, NEW r \in Requests, Connect(r)
    PROVE  SafetyInv'
<1>1. TypeOK'
  BY DEF SafetyInv, Connect, TypeOK
<1>2. PhasesAgree'
  BY DEF SafetyInv, Connect, PhasesAgree, TypeOK, Args
<1>3. /\ StagedRows' /\ LockHeld' /\ ReadIsCurrent' /\ CommitsAreBelowRow'
      /\ HistoryIsCommitted' /\ NoLostUpdate' /\ AnswersInFlight'
  BY DEF SafetyInv, Connect, StagedRows, LockHeld, ReadIsCurrent,
         CommitsAreBelowRow, HistoryIsCommitted, NoLostUpdate, AnswersInFlight
<1> QED
  BY <1>1, <1>2, <1>3 DEF SafetyInv

\* "unavailable" is answered before any transaction.
LEMMA ConnectFailsSafe ==
    ASSUME SafetyInv, NEW r \in Requests, ConnectFails(r)
    PROVE  SafetyInv'
<1>1. TypeOK'
  BY DEF SafetyInv, ConnectFails, TypeOK, AnswerKinds
<1>2. AnswersInFlight'
  BY DEF SafetyInv, ConnectFails, AnswersInFlight, TypeOK, PhasesAgree, Args
<1>3. /\ PhasesAgree' /\ StagedRows' /\ LockHeld' /\ ReadIsCurrent'
      /\ CommitsAreBelowRow' /\ HistoryIsCommitted' /\ NoLostUpdate'
  BY DEF SafetyInv, ConnectFails, PhasesAgree, StagedRows, LockHeld,
         ReadIsCurrent, CommitsAreBelowRow, HistoryIsCommitted, NoLostUpdate
<1> QED
  BY <1>1, <1>2, <1>3 DEF SafetyInv

\* load answers with the committed revision and leaves no trace.
LEMMA ReadProfileSafe ==
    ASSUME SafetyInv, NEW r \in Requests, ReadProfile(r)
    PROVE  SafetyInv'
<1>1. TypeOK'
  BY RevisionIsNat
  DEF SafetyInv, ReadProfile, TypeOK, AnswerKinds
<1>2. AnswersInFlight'
  BY DEF SafetyInv, ReadProfile, AnswersInFlight, TypeOK, PhasesAgree, Args
<1>3. /\ PhasesAgree' /\ StagedRows' /\ LockHeld' /\ ReadIsCurrent'
      /\ CommitsAreBelowRow' /\ HistoryIsCommitted' /\ NoLostUpdate'
  BY DEF SafetyInv, ReadProfile, PhasesAgree, StagedRows, LockHeld,
         ReadIsCurrent, CommitsAreBelowRow, HistoryIsCommitted, NoLostUpdate
<1> QED
  BY <1>1, <1>2, <1>3 DEF SafetyInv

\* A new transaction has written nothing and holds no lock.
LEMMA BeginSafe ==
    ASSUME SafetyInv, NEW r \in Requests, Begin(r)
    PROVE  SafetyInv'
<1>1. TypeOK'
  BY DEF SafetyInv, Begin, TypeOK
<1>2. PhasesAgree'
  BY DEF SafetyInv, Begin, PhasesAgree, TypeOK, Args
<1>3. LockHeld'
  BY DEF SafetyInv, Begin, LockHeld, TypeOK, PhasesAgree, StagedRows, Args
<1>4. ReadIsCurrent'
  BY DEF SafetyInv, Begin, ReadIsCurrent, TypeOK, PhasesAgree, StagedRows,
         Args
<1>5. CommitsAreBelowRow'
  BY DEF SafetyInv, Begin, CommitsAreBelowRow, TypeOK, PhasesAgree, Args
<1>6. NoLostUpdate'
  BY DEF SafetyInv, Begin, NoLostUpdate, TypeOK, PhasesAgree, Args
<1>7. /\ StagedRows' /\ HistoryIsCommitted' /\ AnswersInFlight'
  BY DEF SafetyInv, Begin, StagedRows, HistoryIsCommitted, AnswersInFlight
<1> QED
  BY <1>1, <1>2, <1>3, <1>4, <1>5, <1>6, <1>7 DEF SafetyInv

\* The advisory lock was free, so no other open save has read the row.
LEMMA AcquireLockSafe ==
    ASSUME SafetyInv, NEW r \in Requests, AcquireLock(r)
    PROVE  SafetyInv'
<1>1. TypeOK'
  BY DEF SafetyInv, AcquireLock, LockAvailable, TypeOK
<1>2. LockHeld'
  BY NoRequestAssumption
  DEF SafetyInv, AcquireLock, LockAvailable, LockHeld, TypeOK, StagedRows,
      Args
<1>3. /\ PhasesAgree' /\ StagedRows' /\ ReadIsCurrent' /\ CommitsAreBelowRow'
      /\ HistoryIsCommitted' /\ NoLostUpdate' /\ AnswersInFlight'
  BY DEF SafetyInv, AcquireLock, LockAvailable, PhasesAgree, StagedRows,
         ReadIsCurrent, CommitsAreBelowRow, HistoryIsCommitted, NoLostUpdate,
         AnswersInFlight
<1> QED
  BY <1>1, <1>2, <1>3 DEF SafetyInv

\* The revision read is the current one, and stays so under the lock.
LEMMA SelectForUpdateSafe ==
    ASSUME SafetyInv, NEW r \in Requests, SelectForUpdate(r)
    PROVE  SafetyInv'
<1>1. TypeOK'
  <2>1. TypeOK
    BY DEF SafetyInv
  <2>2. Current(r).revision \in Nat
    BY <2>1, RevisionIsNat
  <2>3. locked' \in [Requests -> Nat]
    BY <2>1, <2>2 DEF SelectForUpdate, TypeOK
  <2>4. answer' \in [Requests -> [kind : AnswerKinds, revision : Nat]]
    BY <2>1, <2>2 DEF SelectForUpdate, TypeOK, AnswerKinds
  <2>5. pc' \in [Requests -> {"queued"} \cup Working \cup Stopped]
    BY <2>1 DEF SelectForUpdate, TypeOK
  <2> QED
    BY <2>1, <2>3, <2>4, <2>5 DEF SelectForUpdate, TypeOK
<1>2. PhasesAgree'
  BY DEF SafetyInv, SelectForUpdate, Matches, PhasesAgree, TypeOK, Args
<1>3. StagedRows'
  BY DEF SafetyInv, SelectForUpdate, Matches, StagedRows, TypeOK, Args
<1>4. LockHeld'
  BY DEF SafetyInv, SelectForUpdate, Matches, LockHeld, TypeOK, Args
<1>5. ReadIsCurrent'
  BY DEF SafetyInv, SelectForUpdate, Matches, ReadIsCurrent, TypeOK, Args
<1>6. AnswersInFlight'
  BY DEF SafetyInv, SelectForUpdate, Matches, AnswersInFlight, TypeOK,
         PhasesAgree, StagedRows, Args
<1>7. /\ CommitsAreBelowRow' /\ HistoryIsCommitted' /\ NoLostUpdate'
  BY DEF SafetyInv, SelectForUpdate, Matches, CommitsAreBelowRow,
         HistoryIsCommitted, NoLostUpdate
<1> QED
  BY <1>1, <1>2, <1>3, <1>4, <1>5, <1>6, <1>7 DEF SafetyInv

\* Only a save that expected 0 inserts, and it stages revision 1.
LEMMA InsertRowSafe ==
    ASSUME SafetyInv, NEW r \in Requests, InsertRow(r)
    PROVE  SafetyInv'
<1>1. TypeOK'
  BY DEF SafetyInv, InsertRow, FirstRevision, TypeOK
<1>2. StagedRows'
  BY ArgsTyped, RevisionIsNat
  DEF SafetyInv, InsertRow, FirstRevision, StagedRows, TypeOK, PhasesAgree,
      LockHeld, ReadIsCurrent, Args
<1>3. /\ PhasesAgree' /\ LockHeld' /\ ReadIsCurrent' /\ CommitsAreBelowRow'
      /\ HistoryIsCommitted' /\ NoLostUpdate' /\ AnswersInFlight'
  BY DEF SafetyInv, InsertRow, FirstRevision, PhasesAgree, LockHeld,
         ReadIsCurrent, CommitsAreBelowRow, HistoryIsCommitted, NoLostUpdate,
         AnswersInFlight
<1> QED
  BY <1>1, <1>2, <1>3 DEF SafetyInv

\* The row updated is the one read: its revision plus one is staged.
LEMMA UpdateRowSafe ==
    ASSUME SafetyInv, NEW r \in Requests, UpdateRow(r)
    PROVE  SafetyInv'
<1>1. TypeOK'
  BY RevisionIsNat
  DEF SafetyInv, UpdateRow, TypeOK
<1>2. StagedRows'
  BY ArgsTyped, RevisionIsNat
  DEF SafetyInv, UpdateRow, StagedRows, TypeOK, PhasesAgree, LockHeld,
      ReadIsCurrent, Args
<1>3. /\ PhasesAgree' /\ LockHeld' /\ ReadIsCurrent' /\ CommitsAreBelowRow'
      /\ HistoryIsCommitted' /\ NoLostUpdate' /\ AnswersInFlight'
  BY DEF SafetyInv, UpdateRow, PhasesAgree, LockHeld, ReadIsCurrent,
         CommitsAreBelowRow, HistoryIsCommitted, NoLostUpdate, AnswersInFlight
<1> QED
  BY <1>1, <1>2, <1>3 DEF SafetyInv

\* The history row is part of what ServerCommit publishes.
LEMMA InsertHistorySafe ==
    ASSUME SafetyInv, NEW r \in Requests, InsertHistory(r)
    PROVE  SafetyInv'
<1>1. TypeOK'
  BY DEF SafetyInv, InsertHistory, TypeOK
<1>2. /\ PhasesAgree' /\ StagedRows' /\ LockHeld' /\ ReadIsCurrent'
      /\ CommitsAreBelowRow' /\ HistoryIsCommitted' /\ NoLostUpdate'
      /\ AnswersInFlight'
  BY DEF SafetyInv, InsertHistory, PhasesAgree, StagedRows, LockHeld,
         ReadIsCurrent, CommitsAreBelowRow, HistoryIsCommitted, NoLostUpdate,
         AnswersInFlight
<1> QED
  BY <1>1, <1>2 DEF SafetyInv

\* The rows to delete are chosen from rows.
LEMMA TrimHistorySafe ==
    ASSUME SafetyInv, NEW r \in Requests, TrimHistory(r)
    PROVE  SafetyInv'
<1>1. TypeOK'
  <2>1. TypeOK
    BY DEF SafetyInv
  <2>2. staged[r] \in Row
    BY <2>1 DEF SafetyInv, TrimHistory, StagedRows, TypeOK
  <2>3. Profile(r) \in Profiles
    BY <2>1, ArgsTyped
  <2>4. BeyondLimit(history[Profile(r)] \cup {staged[r]}) \subseteq Row
    BY <2>1, <2>2, <2>3 DEF TypeOK, BeyondLimit
  <2> QED
    BY <2>1, <2>4 DEF TrimHistory, TypeOK
<1>2. /\ PhasesAgree' /\ StagedRows' /\ LockHeld' /\ ReadIsCurrent'
      /\ CommitsAreBelowRow' /\ HistoryIsCommitted' /\ NoLostUpdate'
      /\ AnswersInFlight'
  BY DEF SafetyInv, TrimHistory, BeyondLimit, PhasesAgree, StagedRows,
         LockHeld, ReadIsCurrent, CommitsAreBelowRow, HistoryIsCommitted,
         NoLostUpdate, AnswersInFlight
<1> QED
  BY <1>1, <1>2 DEF SafetyInv

\* COMMIT is sent with the row staged and the lock held.
LEMMA SendCommitSafe ==
    ASSUME SafetyInv, NEW r \in Requests, SendCommit(r)
    PROVE  SafetyInv'
<1>1. TypeOK'
  BY DEF SafetyInv, SendCommit, TypeOK
<1>2. /\ PhasesAgree' /\ StagedRows' /\ LockHeld' /\ ReadIsCurrent'
      /\ CommitsAreBelowRow' /\ HistoryIsCommitted' /\ NoLostUpdate'
      /\ AnswersInFlight'
  BY DEF SafetyInv, SendCommit, PhasesAgree, StagedRows, LockHeld,
         ReadIsCurrent, CommitsAreBelowRow, HistoryIsCommitted, NoLostUpdate,
         AnswersInFlight
<1> QED
  BY <1>1, <1>2 DEF SafetyInv

\* "saved" is answered only for a committed transaction.
LEMMA CommitReplySafe ==
    ASSUME SafetyInv, NEW r \in Requests, CommitReply(r)
    PROVE  SafetyInv'
<1>1. TypeOK'
  BY DEF SafetyInv, CommitReply, CommitConfirmed, TypeOK, AnswerKinds
<1>2. AnswersInFlight'
  BY DEF SafetyInv, CommitReply, CommitConfirmed, AnswersInFlight, TypeOK,
         Args
<1>3. /\ PhasesAgree' /\ StagedRows' /\ LockHeld' /\ ReadIsCurrent'
      /\ CommitsAreBelowRow' /\ HistoryIsCommitted' /\ NoLostUpdate'
  BY DEF SafetyInv, CommitReply, CommitConfirmed, PhasesAgree, StagedRows,
         LockHeld, ReadIsCurrent, CommitsAreBelowRow, HistoryIsCommitted,
         NoLostUpdate
<1> QED
  BY <1>1, <1>2, <1>3 DEF SafetyInv

\* Rolling back takes back the staged row and the lock.
LEMMA RollbackSafe ==
    ASSUME SafetyInv, NEW r \in Requests, Rollback(r)
    PROVE  SafetyInv'
<1>1. TypeOK'
  BY DEF SafetyInv, Rollback, Abort, ReleaseLocks, TypeOK
<1>2. StagedRows'
  BY DEF SafetyInv, Rollback, Abort, ReleaseLocks, StagedRows, TypeOK, Args
<1>3. LockHeld'
  BY DEF SafetyInv, Rollback, Abort, ReleaseLocks, LockHeld, TypeOK, Args
<1>4. CommitsAreBelowRow'
  BY DEF SafetyInv, Rollback, Abort, ReleaseLocks, CommitsAreBelowRow, TypeOK,
         PhasesAgree, Args
<1>5. NoLostUpdate'
  BY DEF SafetyInv, Rollback, Abort, ReleaseLocks, NoLostUpdate, TypeOK,
         PhasesAgree, StagedRows, Args
<1>6. /\ PhasesAgree' /\ ReadIsCurrent' /\ HistoryIsCommitted'
      /\ AnswersInFlight'
  BY DEF SafetyInv, Rollback, Abort, ReleaseLocks, PhasesAgree, ReadIsCurrent,
         HistoryIsCommitted, AnswersInFlight
<1> QED
  BY <1>1, <1>2, <1>3, <1>4, <1>5, <1>6 DEF SafetyInv

\* A failed statement leaves the transaction to ~Transaction.
LEMMA StatementFailsSafe ==
    ASSUME SafetyInv, NEW r \in Requests, StatementFails(r)
    PROVE  SafetyInv'
<1>1. TypeOK'
  BY DEF SafetyInv, StatementFails, TypeOK, AnswerKinds
<1>2. AnswersInFlight'
  BY DEF SafetyInv, StatementFails, AnswersInFlight, TypeOK, Args
<1>3. /\ PhasesAgree' /\ StagedRows' /\ LockHeld' /\ ReadIsCurrent'
      /\ CommitsAreBelowRow' /\ HistoryIsCommitted' /\ NoLostUpdate'
  BY DEF SafetyInv, StatementFails, PhasesAgree, StagedRows, LockHeld,
         ReadIsCurrent, CommitsAreBelowRow, HistoryIsCommitted, NoLostUpdate
<1> QED
  BY <1>1, <1>2, <1>3 DEF SafetyInv

\* The caller is told "failed" whatever became of the statement.
LEMMA LoseConnectionSafe ==
    ASSUME SafetyInv, NEW r \in Requests, LoseConnection(r)
    PROVE  SafetyInv'
<1>1. TypeOK'
  BY DEF SafetyInv, LoseConnection, TypeOK, AnswerKinds
<1>2. AnswersInFlight'
  BY DEF SafetyInv, LoseConnection, AnswersInFlight, TypeOK, Args
<1>3. /\ PhasesAgree' /\ StagedRows' /\ LockHeld' /\ ReadIsCurrent'
      /\ CommitsAreBelowRow' /\ HistoryIsCommitted' /\ NoLostUpdate'
  BY DEF SafetyInv, LoseConnection, PhasesAgree, StagedRows, LockHeld,
         ReadIsCurrent, CommitsAreBelowRow, HistoryIsCommitted, NoLostUpdate
<1> QED
  BY <1>1, <1>2, <1>3 DEF SafetyInv

\* The exception in flight still reaches the caller.
LEMMA LoseRollbackSafe ==
    ASSUME SafetyInv, NEW r \in Requests, LoseRollback(r)
    PROVE  SafetyInv'
<1>1. TypeOK'
  BY DEF SafetyInv, LoseRollback, TypeOK
<1>2. /\ PhasesAgree' /\ StagedRows' /\ LockHeld' /\ ReadIsCurrent'
      /\ CommitsAreBelowRow' /\ HistoryIsCommitted' /\ NoLostUpdate'
      /\ AnswersInFlight'
  BY DEF SafetyInv, LoseRollback, PhasesAgree, StagedRows, LockHeld,
         ReadIsCurrent, CommitsAreBelowRow, HistoryIsCommitted, NoLostUpdate,
         AnswersInFlight
<1> QED
  BY <1>1, <1>2 DEF SafetyInv

\* An abandoned or refused transaction vanishes with its lock.
LEMMA ServerAbortSafe ==
    ASSUME SafetyInv, NEW r \in Requests, ServerAbort(r)
    PROVE  SafetyInv'
<1>1. TypeOK'
  BY DEF SafetyInv, ServerAbort, Abort, ReleaseLocks, TypeOK
<1>2. StagedRows'
  BY DEF SafetyInv, ServerAbort, Abort, ReleaseLocks, StagedRows, TypeOK, Args
<1>3. LockHeld'
  BY DEF SafetyInv, ServerAbort, Abort, ReleaseLocks, LockHeld, TypeOK, Args
<1>4. /\ PhasesAgree' /\ ReadIsCurrent' /\ CommitsAreBelowRow'
      /\ HistoryIsCommitted' /\ NoLostUpdate' /\ AnswersInFlight'
  BY DEF SafetyInv, ServerAbort, Abort, ReleaseLocks, PhasesAgree,
         ReadIsCurrent, CommitsAreBelowRow, HistoryIsCommitted, NoLostUpdate,
         AnswersInFlight
<1> QED
  BY <1>1, <1>2, <1>3, <1>4 DEF SafetyInv

\* A commit replaces the row it read by its successor, which bears its own name.
LEMMA CommitAdvances ==
    ASSUME SafetyInv, NEW r \in Requests, ServerCommit(r)
    PROVE  /\ staged[r].state = r
           /\ staged[r].revision = args[r].expected + 1
           /\ Current(r).revision = args[r].expected
           /\ args[r].expected \in Nat
           /\ Profile(r) \in Profiles
           /\ staged[r] \in Row
           /\ rows' = [rows EXCEPT ![Profile(r)] = staged[r]]
           /\ rows'[Profile(r)] = staged[r]
<1>1. args[r].expected \in Nat /\ Profile(r) \in Profiles
  BY ArgsTyped DEF SafetyInv
<1>2. HasWritten(r) /\ txn[r] \in Unsettled
  BY DEF SafetyInv, ServerCommit, StagedRows
<1>3. staged[r] \in Row
  BY <1>2 DEF SafetyInv, TypeOK
<1>4. staged[r].state = r /\ staged[r].revision = args[r].expected + 1
  BY <1>2 DEF SafetyInv, StagedRows
<1>5. Current(r).revision = args[r].expected
  BY <1>2 DEF SafetyInv, ReadIsCurrent
<1>6. /\ rows' = [rows EXCEPT ![Profile(r)] = staged[r]]
      /\ rows'[Profile(r)] = staged[r]
  BY <1>1 DEF SafetyInv, TypeOK, ServerCommit
<1> QED
  BY <1>1, <1>3, <1>4, <1>5, <1>6

\* The step at which a save takes effect.
LEMMA ServerCommitSafe ==
    ASSUME SafetyInv, NEW r \in Requests, ServerCommit(r)
    PROVE  SafetyInv'
<1>0. /\ staged[r].state = r
      /\ staged[r].revision = args[r].expected + 1
      /\ Current(r).revision = args[r].expected
      /\ args[r].expected \in Nat
      /\ Profile(r) \in Profiles
      /\ staged[r] \in Row
      /\ rows' = [rows EXCEPT ![Profile(r)] = staged[r]]
      /\ rows'[Profile(r)] = staged[r]
  BY CommitAdvances
<1>1. TypeOK'
  <2>1. rows' \in [Profiles -> Row \cup {NoRow}]
    BY <1>0 DEF SafetyInv, TypeOK
  <2>2. history' \in [Profiles -> SUBSET Row]
    BY <1>0 DEF SafetyInv, TypeOK, ServerCommit
  <2>3. advisory' \in [Profiles -> Requests \cup {NoRequest}]
    BY DEF SafetyInv, TypeOK, ServerCommit, ReleaseLocks
  <2> QED
    BY <2>1, <2>2, <2>3 DEF SafetyInv, ServerCommit, TypeOK
<1>2. LockHeld'
  BY DEF SafetyInv, ServerCommit, ReleaseLocks, LockHeld, TypeOK, Args
<1>3. ReadIsCurrent'
  BY DEF SafetyInv, ServerCommit, ReleaseLocks, ReadIsCurrent, TypeOK,
         PhasesAgree, StagedRows, LockHeld, Args
<1>4. CommitsAreBelowRow'
  <2>1. ASSUME NEW q \in Requests, txn'[q] = "committed"
        PROVE  CommittedAs(q)' <= Current(q)'.revision
    <3>1. CASE q = r
      BY <3>1, <2>1, <1>0 DEF ServerCommit
    <3>2. CASE q # r /\ Profile(q) = Profile(r)
      <4>1. txn[q] = "committed" /\ CommittedAs(q)' = CommittedAs(q)
        BY <3>2, <2>1 DEF ServerCommit, SafetyInv, TypeOK
      <4>2. CommittedAs(q) <= args[r].expected
        BY <4>1, <3>2, <1>0 DEF SafetyInv, CommitsAreBelowRow
      <4>3. Current(q)'.revision = args[r].expected + 1
        BY <3>2, <1>0 DEF ServerCommit
      <4>4. CommittedAs(q) \in Nat
        BY <4>1 DEF SafetyInv, TypeOK
      <4> QED
        BY <4>1, <4>2, <4>3, <4>4, <1>0
    <3>3. CASE q # r /\ Profile(q) # Profile(r)
      BY <3>3, <2>1 DEF ServerCommit, SafetyInv, TypeOK, CommitsAreBelowRow
    <3> QED
      BY <3>1, <3>2, <3>3
  <2>2. ASSUME NEW p \in Profiles, rows'[p] # NoRow
        PROVE  /\ Profile(rows[p].state)' = p
               /\ txn'[rows'[p].state] = "committed"
               /\ staged'[rows'[p].state] = rows'[p]
    <3>1. CASE p = Profile(r)
      BY <3>1, <1>0 DEF ServerCommit, SafetyInv, TypeOK
    <3>2. CASE p # Profile(r)
      BY <3>2, <2>2 DEF ServerCommit, SafetyInv, TypeOK, CommitsAreBelowRow
    <3> QED
      BY <3>1, <3>2
  <2> QED
    BY <2>1, <2>2 DEF CommitsAreBelowRow
<1>5. HistoryIsCommitted'
  <2> SUFFICES ASSUME NEW p \in Profiles, NEW h \in history'[p]
               PROVE  /\ Profile(h.state)' = p
                      /\ txn'[h.state] = "committed"
                      /\ staged'[h.state] = h
    BY DEF HistoryIsCommitted
  <2>1. CASE h \in history[p]
    BY <2>1 DEF ServerCommit, SafetyInv, TypeOK, HistoryIsCommitted
  <2>2. CASE h \notin history[p]
    <3>1. p = Profile(r) /\ h = staged[r]
      BY <2>2 DEF ServerCommit, SafetyInv, TypeOK
    <3> QED
      BY <3>1, <1>0 DEF ServerCommit, SafetyInv, TypeOK
  <2> QED
    BY <2>1, <2>2
<1>6. NoLostUpdate'
  <2>1. ASSUME NEW q \in Requests, txn'[q] = "committed"
        PROVE  CommittedAs(q)' = args'[q].expected + 1
    <3>1. CASE q = r
      BY <3>1, <2>1, <1>0 DEF ServerCommit
    <3>2. CASE q # r
      BY <3>2, <2>1 DEF ServerCommit, SafetyInv, TypeOK, NoLostUpdate
    <3> QED
      BY <3>1, <3>2
  <2>2. ASSUME NEW q \in Requests, q # r, Profile(q) = Profile(r),
               txn[q] = "committed"
        PROVE  CommittedAs(q) # staged[r].revision
    BY <2>2, <1>0 DEF SafetyInv, TypeOK, CommitsAreBelowRow
  <2>3. ASSUME NEW q \in Requests, NEW s \in Requests, q # s,
               Profile(q)' = Profile(s)', txn'[q] = "committed",
               txn'[s] = "committed"
        PROVE  CommittedAs(q)' # CommittedAs(s)'
    <3>1. CASE q = r
      BY <3>1, <2>2, <2>3 DEF ServerCommit, SafetyInv, TypeOK
    <3>2. CASE s = r
      BY <3>2, <2>2, <2>3 DEF ServerCommit, SafetyInv, TypeOK
    <3>3. CASE q # r /\ s # r
      BY <3>3, <2>3 DEF ServerCommit, SafetyInv, TypeOK, NoLostUpdate
    <3> QED
      BY <3>1, <3>2, <3>3
  <2>4. ASSUME NEW p \in Profiles, NEW k \in 1 .. rows'[p].revision
        PROVE  \E q \in Requests : Profile(q)' = p /\ CommittedAs(q)' = k
    <3>1. ASSUME k \in 1 .. rows[p].revision
          PROVE  \E q \in Requests : Profile(q)' = p /\ CommittedAs(q)' = k
      <4>1. PICK q \in Requests : Profile(q) = p /\ CommittedAs(q) = k
        BY <3>1 DEF SafetyInv, NoLostUpdate
      <4>2. txn[q] = "committed"
        BY <4>1
      <4> QED
        BY <4>1, <4>2 DEF ServerCommit, SafetyInv, TypeOK
    <3>2. CASE p = Profile(r) /\ k = staged[r].revision
      BY <3>2 DEF ServerCommit, SafetyInv, TypeOK
    <3>3. k \in 1 .. rows[p].revision \/ (p = Profile(r) /\ k = staged[r].revision)
      <4>1. CASE p = Profile(r)
        BY <4>1, <1>0
      <4>2. CASE p # Profile(r)
        BY <4>2, <1>0 DEF SafetyInv, TypeOK
      <4> QED
        BY <4>1, <4>2
    <3> QED
      BY <3>1, <3>2, <3>3
  <2> QED
    BY <2>1, <2>3, <2>4 DEF NoLostUpdate
<1>7. PhasesAgree' /\ StagedRows' /\ AnswersInFlight'
  BY DEF SafetyInv, ServerCommit, PhasesAgree, StagedRows, AnswersInFlight
<1> QED
  BY <1>1, <1>2, <1>3, <1>4, <1>5, <1>6, <1>7 DEF SafetyInv

-----------------------------------------------------------------------------
(* Failures of the processes, and the invariant.                            *)

\* A restart keeps what was committed and aborts the rest.
LEMMA DatabaseRestartSafe ==
    ASSUME SafetyInv, DatabaseRestart
    PROVE  SafetyInv'
<1>1. TypeOK'
  BY DEF SafetyInv, DatabaseRestart, TypeOK
<1>2. PhasesAgree'
  BY DEF SafetyInv, DatabaseRestart, PhasesAgree, TypeOK
<1>3. StagedRows'
  BY DEF SafetyInv, DatabaseRestart, StagedRows, TypeOK
<1>4. LockHeld'
  BY DEF SafetyInv, DatabaseRestart, LockHeld, TypeOK
<1>5. ReadIsCurrent'
  BY DEF SafetyInv, DatabaseRestart, ReadIsCurrent, TypeOK
<1>6. CommitsAreBelowRow'
  BY DEF SafetyInv, DatabaseRestart, CommitsAreBelowRow, TypeOK, Args
<1>7. HistoryIsCommitted'
  BY DEF SafetyInv, DatabaseRestart, HistoryIsCommitted, TypeOK
<1>8. NoLostUpdate'
  BY DEF SafetyInv, DatabaseRestart, NoLostUpdate, TypeOK
<1>9. AnswersInFlight'
  BY DEF SafetyInv, DatabaseRestart, AnswersInFlight, TypeOK
<1> QED
  BY <1>1, <1>2, <1>3, <1>4, <1>5, <1>6, <1>7, <1>8, <1>9 DEF SafetyInv

\* A crash of the API leaves the backends to PostgreSQL.
LEMMA ApiCrashSafe ==
    ASSUME SafetyInv, ApiCrash
    PROVE  SafetyInv'
<1>1. TypeOK'
  BY DEF SafetyInv, ApiCrash, TypeOK
<1>2. PhasesAgree'
  BY DEF SafetyInv, ApiCrash, PhasesAgree, TypeOK
<1>3. StagedRows'
  BY DEF SafetyInv, ApiCrash, StagedRows, TypeOK
<1>4. LockHeld'
  BY DEF SafetyInv, ApiCrash, LockHeld, TypeOK
<1>5. ReadIsCurrent'
  BY DEF SafetyInv, ApiCrash, ReadIsCurrent, TypeOK
<1>6. AnswersInFlight'
  BY DEF SafetyInv, ApiCrash, AnswersInFlight, TypeOK, PhasesAgree
<1>7. CommitsAreBelowRow' /\ HistoryIsCommitted' /\ NoLostUpdate'
  BY DEF SafetyInv, ApiCrash, CommitsAreBelowRow, HistoryIsCommitted,
         NoLostUpdate
<1> QED
  BY <1>1, <1>2, <1>3, <1>4, <1>5, <1>6, <1>7 DEF SafetyInv

\* The migrated, empty database.
LEMMA InitSafe == Init => SafetyInv
<1> SUFFICES ASSUME Init PROVE SafetyInv
  OBVIOUS
<1>1. TypeOK
  BY DEF Init, TypeOK, AnswerKinds
<1>2. PhasesAgree /\ StagedRows /\ LockHeld /\ ReadIsCurrent
  BY <1>1 DEF Init, PhasesAgree, StagedRows, LockHeld, ReadIsCurrent, TypeOK, Args
<1>3. CommitsAreBelowRow /\ HistoryIsCommitted /\ NoLostUpdate /\ AnswersInFlight
  BY DEF Init, CommitsAreBelowRow, HistoryIsCommitted, NoLostUpdate, AnswersInFlight
<1> QED
  BY <1>1, <1>2, <1>3 DEF SafetyInv

\* Every step preserves the invariant.
LEMMA NextSafe == SafetyInv /\ [Next]_vars => SafetyInv'
<1> SUFFICES ASSUME SafetyInv, [Next]_vars PROVE SafetyInv'
  OBVIOUS
<1>1. CASE \E r \in Requests : Progress(r)
  BY <1>1, AcceptSafe, RejectSafe, ConnectSafe, ReadProfileSafe, BeginSafe,
     AcquireLockSafe, SelectForUpdateSafe, InsertRowSafe, UpdateRowSafe,
     InsertHistorySafe, TrimHistorySafe, SendCommitSafe, CommitReplySafe,
     RollbackSafe DEF Progress
<1>2. CASE \E r \in Requests : Fault(r)
  BY <1>2, ConnectFailsSafe, StatementFailsSafe, LoseConnectionSafe,
     LoseRollbackSafe DEF Fault
<1>3. CASE \E r \in Requests : Settle(r)
  BY <1>3, ServerCommitSafe, ServerAbortSafe DEF Settle
<1>4. CASE DatabaseRestart
  BY <1>4, DatabaseRestartSafe
<1>5. CASE ApiCrash
  BY <1>5, ApiCrashSafe
<1>6. CASE Finished \/ UNCHANGED vars
  <2>1. UNCHANGED vars
    BY <1>6 DEF Finished
  <2> QED
    BY <2>1 DEF vars, SafetyInv, TypeOK, PhasesAgree, StagedRows, LockHeld,
                ReadIsCurrent, CommitsAreBelowRow, HistoryIsCommitted,
                NoLostUpdate, AnswersInFlight
<1> QED
  BY <1>1, <1>2, <1>3, <1>4, <1>5, <1>6 DEF Next

\* The inductive invariant holds throughout every behaviour of save and load.
THEOREM SafetyInvariant == Spec => []SafetyInv
<1> QED
  BY InitSafe, NextSafe, PTL DEF Spec

\* The variables keep their types: in particular no row or history row ever has
\* revision 0 (001_profile_state.sql, the CHECK constraints).
THEOREM TypeCorrect == Spec => []TypeOK
<1>1. SafetyInv => TypeOK
  BY DEF SafetyInv
<1> QED
  BY <1>1, SafetyInvariant, PTL

\* No save overwrites a revision its caller had not seen, and the committed
\* revisions of a profile are 1, 2, ... without gap or repetition.
THEOREM LostUpdateFree == Spec => []NoLostUpdate
<1>1. SafetyInv => NoLostUpdate
  BY DEF SafetyInv
<1> QED
  BY <1>1, SafetyInvariant, PTL

\* What a caller of save or load is told is what happened to its transaction.
THEOREM AnswersTrue == Spec => []AnswersAreTrue
<1>1. SafetyInv => AnswersAreTrue
  BY DEF SafetyInv, AnswersInFlight, AnswersAreTrue, Answered
<1> QED
  BY <1>1, SafetyInvariant, PTL

\* No history row is ahead of its profile's row.
LEMMA HistoryBelowRow ==
    ASSUME SafetyInv, NEW p \in Profiles, NEW h \in history[p]
    PROVE  h.revision <= rows[p].revision
<1>1. h \in Row /\ h.state \in Requests
  BY DEF SafetyInv, TypeOK
<1>2. Profile(h.state) = p /\ CommittedAs(h.state) = h.revision
  BY DEF SafetyInv, HistoryIsCommitted
<1> QED
  BY <1>1, <1>2 DEF SafetyInv, HistoryIsCommitted, CommitsAreBelowRow

\* Once a save holds the profile's advisory lock, neither its row lock nor its
\* insert nor its history row can meet another transaction's.
THEOREM LockSerialises == Spec => []AdvisoryLockSerialises
<1>1. SafetyInv => AdvisoryLockSerialises
  <2> SUFFICES ASSUME SafetyInv, NEW r \in Requests, txn[r] = "open"
               PROVE  /\ pc[r] \in {"select", "write", "history", "trim"} =>
                            ~RowLockedByOther(r)
                      /\ At(r, "write") => Current(r).revision = locked[r]
                      /\ At(r, "history") =>
                            \A h \in history[Profile(r)] :
                               h.revision # staged[r].revision
    BY DEF AdvisoryLockSerialises
  <2>1. ASSUME pc[r] \in {"select", "write", "history", "trim"}
        PROVE  ~RowLockedByOther(r)
    BY <2>1 DEF SafetyInv, LockHeld, RowLockedByOther
  <2>2. At(r, "write") => Current(r).revision = locked[r]
    BY DEF SafetyInv, ReadIsCurrent
  <2>3. ASSUME At(r, "history"), NEW h \in history[Profile(r)]
        PROVE  h.revision # staged[r].revision
    <3>1. TypeOK /\ Profile(r) \in Profiles /\ args[r].expected \in Nat
      BY ArgsTyped DEF SafetyInv
    <3>2. h \in Row /\ h.revision <= args[r].expected
      BY <2>3, <3>1, HistoryBelowRow
      DEF SafetyInv, StagedRows, ReadIsCurrent, TypeOK
    <3>3. staged[r].revision = args[r].expected + 1
      BY <2>3 DEF SafetyInv, StagedRows
    <3> QED
      BY <3>1, <3>2, <3>3
  <2> QED
    BY <2>1, <2>2, <2>3
<1> QED
  BY <1>1, SafetyInvariant, PTL

\* A commit is the only step that changes rows or history ...
LEMMA OnlyCommitsWrite ==
    ASSUME SafetyInv, [Next]_vars
    PROVE  UNCHANGED <<rows, history>> \/ \E r \in Requests : ServerCommit(r)
BY DEF Next, Progress, Fault, Settle, Accept, Reject, Connect, ConnectFails,
       ReadProfile, Begin, AcquireLock, SelectForUpdate, InsertRow, UpdateRow,
       InsertHistory, TrimHistory, SendCommit, CommitReply, Rollback,
       StatementFails, LoseConnection, LoseRollback, ServerAbort, Abort,
       DatabaseRestart, ApiCrash, Finished, vars

\* ... and it adds one revision above all others, so that no committed revision
\* is ever taken back, skipped or rewritten.
THEOREM RevisionsAdvance == Spec => RevisionsOnlyAdvance
<1> DEFINE Advance ==
      \A p \in Profiles :
          /\ rows'[p] # rows[p] => rows'[p].revision = rows[p].revision + 1
          /\ \A h \in history[p], g \in history'[p] :
                h.revision = g.revision => h = g
<1>1. ASSUME SafetyInv, NEW p \in Profiles, NEW h \in history[p],
             NEW g \in history[p], h.revision = g.revision
      PROVE  h = g
  <2>1. h.state \in Requests /\ g.state \in Requests
    BY <1>1 DEF SafetyInv, TypeOK
  <2>2. h.state = g.state
    BY <1>1, <2>1 DEF SafetyInv, HistoryIsCommitted, NoLostUpdate
  <2> QED
    BY <1>1, <2>2 DEF SafetyInv, HistoryIsCommitted
<1>2. ASSUME SafetyInv, UNCHANGED <<rows, history>> PROVE Advance
  BY <1>1, <1>2
<1>3. ASSUME SafetyInv, NEW r \in Requests, ServerCommit(r) PROVE Advance
  <2>1. /\ staged[r].revision = Current(r).revision + 1
        /\ Current(r).revision \in Nat
        /\ rows' = [rows EXCEPT ![Profile(r)] = staged[r]]
        /\ rows \in [Profiles -> Row \cup {NoRow}]
    BY <1>3, CommitAdvances DEF SafetyInv, TypeOK
  <2>2. ASSUME NEW p \in Profiles, rows'[p] # rows[p]
        PROVE  rows'[p].revision = rows[p].revision + 1
    BY <2>1, <2>2
  <2>3. ASSUME NEW p \in Profiles, NEW h \in history[p], NEW g \in history'[p],
               h.revision = g.revision
        PROVE  h = g
    <3>1. CASE g \in history[p]
      BY <3>1, <2>3, <1>1, <1>3
    <3>2. CASE g \notin history[p]
      <4>1. p = Profile(r) /\ g = staged[r]
        BY <3>2, <1>3 DEF ServerCommit, SafetyInv, TypeOK
      <4>2. h.revision <= Current(r).revision /\ h.revision \in Nat
        BY <4>1, <1>3, HistoryBelowRow DEF SafetyInv, TypeOK
      <4> QED
        BY <4>1, <4>2, <2>1, <2>3
    <3> QED
      BY <3>1, <3>2
  <2> QED
    BY <2>2, <2>3
<1>4. SafetyInv /\ [Next]_vars => [Advance]_<<rows, history>>
  BY <1>2, <1>3, OnlyCommitsWrite
<1> QED
  BY <1>4, SafetyInvariant, PTL DEF Spec, RevisionsOnlyAdvance

-----------------------------------------------------------------------------
(* Answers.                                                                 *)

\* Rows never fall back: a commit raises one, and nothing else writes any.
LEMMA RowsRise ==
    ASSUME SafetyInv, [Next]_vars, NEW p \in Profiles
    PROVE  /\ rows[p].revision \in Nat
           /\ rows'[p].revision \in Nat
           /\ rows[p].revision <= rows'[p].revision
<1>1. rows[p] \in Row \cup {NoRow} /\ rows[p].revision \in Nat
  BY DEF SafetyInv, TypeOK
<1>2. CASE UNCHANGED <<rows, history>>
  BY <1>1, <1>2
<1>3. CASE \E r \in Requests : ServerCommit(r)
  <2>1. PICK r \in Requests : ServerCommit(r)
    BY <1>3
  <2>2. /\ staged[r].revision = Current(r).revision + 1
        /\ rows' = [rows EXCEPT ![Profile(r)] = staged[r]]
        /\ rows \in [Profiles -> Row \cup {NoRow}]
    BY <2>1, CommitAdvances DEF SafetyInv, TypeOK
  <2> QED
    BY <1>1, <2>2
<1> QED
  BY <1>2, <1>3, OnlyCommitsWrite

\* The steps that give a caller an answer naming a revision ...
LEMMA OnlyTheseReport ==
    ASSUME SafetyInv, [Next]_vars, NEW q \in Requests,
           answer'[q] # answer[q], Reported(q)'
    PROVE  \/ ReadProfile(q)
           \/ CommitReply(q)
           \/ SelectForUpdate(q) /\ ~Matches(q)
<1>1. answer \in [Requests -> [kind : AnswerKinds, revision : Nat]]
  BY DEF SafetyInv, TypeOK
<1>2. CASE \E r \in Requests : Progress(r)
  <2>1. PICK r \in Requests : Progress(r)
    BY <1>2
  <2>2. q = r
    BY <1>1, <2>1 DEF Progress, Accept, Reject, Connect, ReadProfile, Begin,
       AcquireLock, SelectForUpdate, InsertRow, UpdateRow, InsertHistory,
       TrimHistory, SendCommit, CommitReply, Rollback
  <2>3. ~(\/ Accept(r) \/ Reject(r) \/ Connect(r) \/ Begin(r) \/ AcquireLock(r)
          \/ InsertRow(r) \/ UpdateRow(r) \/ InsertHistory(r) \/ TrimHistory(r)
          \/ SendCommit(r) \/ Rollback(r))
    BY <1>1, <2>2 DEF Reported, Accept, Reject, Connect, Begin, AcquireLock,
       InsertRow, UpdateRow, InsertHistory, TrimHistory, SendCommit, Rollback
  <2> QED
    BY <2>1, <2>2, <2>3 DEF Progress, SelectForUpdate
<1>3. CASE \E r \in Requests : Fault(r)
  BY <1>1, <1>3 DEF Reported, Fault, ConnectFails, StatementFails,
     LoseConnection, LoseRollback
<1>4. CASE \E r \in Requests : Settle(r)
  BY <1>4 DEF Settle, ServerCommit, ServerAbort, Abort
<1>5. CASE DatabaseRestart \/ ApiCrash \/ Finished \/ UNCHANGED vars
  BY <1>5 DEF DatabaseRestart, ApiCrash, Finished, vars
<1> QED
  BY <1>2, <1>3, <1>4, <1>5 DEF Next

\* ... do so once the row has that revision.
LEMMA ReportsTheRow ==
    ASSUME SafetyInv, NEW q \in Requests,
           \/ ReadProfile(q)
           \/ CommitReply(q)
           \/ SelectForUpdate(q) /\ ~Matches(q)
    PROVE  answer'[q].revision <= Current(q).revision
<1>1. Current(q).revision \in Nat /\ answer \in [Requests -> [kind : AnswerKinds, revision : Nat]]
  BY RevisionIsNat DEF SafetyInv, TypeOK
<1>2. CASE ReadProfile(q)
  BY <1>1, <1>2 DEF ReadProfile
<1>3. CASE CommitReply(q)
  BY <1>1, <1>3 DEF CommitReply, CommitConfirmed, SafetyInv, CommitsAreBelowRow
<1>4. CASE SelectForUpdate(q) /\ ~Matches(q)
  BY <1>1, <1>4 DEF SelectForUpdate
<1> QED
  BY <1>2, <1>3, <1>4

\* What the workload asks for never changes.
LEMMA ArgsAreFixed ==
    ASSUME [Next]_vars PROVE args' = args
BY DEF Next, Progress, Fault, Settle, Accept, Reject, Connect, ConnectFails,
       ReadProfile, Begin, AcquireLock, SelectForUpdate, InsertRow, UpdateRow,
       InsertHistory, TrimHistory, SendCommit, CommitReply, Rollback,
       StatementFails, LoseConnection, LoseRollback, ServerCommit, ServerAbort,
       Abort, DatabaseRestart, ApiCrash, Finished, vars

\* Reports stay at or below their row.
LEMMA AnswersStayBelowRow ==
    ASSUME SafetyInv, AnswersAreBelowRow, [Next]_vars
    PROVE  AnswersAreBelowRow'
<1> SUFFICES ASSUME NEW q \in Requests, Reported(q)'
             PROVE  answer'[q].revision <= Current(q)'.revision
  BY DEF AnswersAreBelowRow
<1>1. Profile(q) \in Profiles /\ args' = args
  BY ArgsTyped, ArgsAreFixed DEF SafetyInv
<1>2. /\ Current(q).revision \in Nat /\ Current(q)'.revision \in Nat
      /\ Current(q).revision <= Current(q)'.revision
  BY <1>1, RowsRise
<1>3. answer[q].revision \in Nat /\ answer'[q].revision \in Nat
  BY NextSafe DEF SafetyInv, TypeOK
<1>4. answer'[q].revision <= Current(q).revision
  <2>1. CASE answer'[q] = answer[q]
    BY <2>1 DEF AnswersAreBelowRow, Reported
  <2>2. CASE answer'[q] # answer[q]
    BY <2>2, OnlyTheseReport, ReportsTheRow
  <2> QED
    BY <2>1, <2>2
<1> QED
  BY <1>2, <1>3, <1>4

\* The steps that write a row.
LEMMA OnlyInsertAndUpdateStage ==
    ASSUME SafetyInv, [Next]_vars, NEW r \in Requests,
           staged'[r] # staged[r], HasWritten(r)'
    PROVE  InsertRow(r) \/ UpdateRow(r)
<1>1. staged \in [Requests -> Row \cup {NoRow}]
  BY DEF SafetyInv, TypeOK
<1>2. CASE \E q \in Requests : Progress(q)
  <2>1. PICK q \in Requests : Progress(q)
    BY <1>2
  <2>2. ~(\/ Accept(q) \/ Reject(q) \/ Connect(q) \/ ReadProfile(q) \/ Begin(q)
          \/ AcquireLock(q) \/ SelectForUpdate(q) \/ InsertHistory(q)
          \/ TrimHistory(q) \/ SendCommit(q) \/ CommitReply(q) \/ Rollback(q))
    BY <1>1 DEF Accept, Reject, Connect, ReadProfile, Begin, AcquireLock,
       SelectForUpdate, InsertHistory, TrimHistory, SendCommit, CommitReply,
       Rollback, Abort
  <2> QED
    BY <1>1, <2>1, <2>2 DEF Progress, InsertRow, UpdateRow
<1>3. CASE \E q \in Requests : Fault(q)
  BY <1>3 DEF Fault, ConnectFails, StatementFails, LoseConnection, LoseRollback
<1>4. CASE \E q \in Requests : Settle(q)
  BY <1>1, <1>4 DEF Settle, ServerCommit, ServerAbort, Abort
<1>5. CASE DatabaseRestart \/ ApiCrash \/ Finished \/ UNCHANGED vars
  BY <1>1, <1>5 DEF DatabaseRestart, ApiCrash, Finished, vars
<1> QED
  BY <1>2, <1>3, <1>4, <1>5 DEF Next

\* The steps that change which calls began before which, or end one.
LEMMA BeforeAndDone ==
    ASSUME SafetyInv, [Next]_vars, NEW r \in Requests
    PROVE  /\ Answered \subseteq Answered'
           /\ (before'[r] = before[r]) \/ (Accept(r) /\ before'[r] = Answered)
           /\ \A q \in Answered : answer'[q] = answer[q]
<1>1. /\ pc \in [Requests -> {"queued"} \cup Working \cup Stopped]
      /\ answer \in [Requests -> [kind : AnswerKinds, revision : Nat]]
      /\ before \in [Requests -> SUBSET Requests]
  BY DEF SafetyInv, TypeOK
<1>2. CASE \E q \in Requests : Progress(q)
  BY <1>1, <1>2 DEF Answered, Progress, Accept, Reject, Connect, ReadProfile,
     Begin, AcquireLock, SelectForUpdate, InsertRow, UpdateRow, InsertHistory,
     TrimHistory, SendCommit, CommitReply, Rollback
<1>3. CASE \E q \in Requests : Fault(q)
  BY <1>1, <1>3 DEF Answered, Fault, ConnectFails, StatementFails,
     LoseConnection, LoseRollback
<1>4. CASE \E q \in Requests : Settle(q)
  BY <1>4 DEF Answered, Settle, ServerCommit, ServerAbort, Abort
<1>5. CASE DatabaseRestart \/ ApiCrash \/ Finished \/ UNCHANGED vars
  BY <1>1, <1>5 DEF Answered, DatabaseRestart, ApiCrash, Finished, vars
<1> QED
  BY <1>2, <1>3, <1>4, <1>5 DEF Next

\* A call's report is not below what was answered before the call began.
LEMMA BeginsStayAfter ==
    ASSUME SafetyInv, AnswersAreBelowRow, BeginsAreAfter, [Next]_vars
    PROVE  BeginsAreAfter'
<1> SUFFICES ASSUME NEW r \in Requests
             PROVE  /\ before'[r] \subseteq Answered'
                    /\ \A q \in before'[r] :
                          (Profile(q)' = Profile(r)' /\ Reported(q)') =>
                             /\ HasWritten(r)' =>
                                   answer'[q].revision < staged'[r].revision
                             /\ answer'[r].kind \in {"loaded", "conflict"} =>
                                   answer'[q].revision <= answer'[r].revision
  BY DEF BeginsAreAfter
<1>1. before'[r] \subseteq Answered'
  BY BeforeAndDone DEF BeginsAreAfter
<1> SUFFICES ASSUME NEW q \in before'[r], Profile(q)' = Profile(r)', Reported(q)'
             PROVE  /\ HasWritten(r)' =>
                          answer'[q].revision < staged'[r].revision
                    /\ answer'[r].kind \in {"loaded", "conflict"} =>
                          answer'[q].revision <= answer'[r].revision
  BY <1>1
<1>2. args' = args /\ q \in Requests /\ Profile(q) = Profile(r)
  BY <1>1, ArgsAreFixed DEF Answered
<1>3. /\ answer \in [Requests -> [kind : AnswerKinds, revision : Nat]]
      /\ staged \in [Requests -> Row \cup {NoRow}]
      /\ Current(r).revision \in Nat
  BY RevisionIsNat DEF SafetyInv, TypeOK
<1>4. CASE Accept(r)
  <2>1. answer'[r] = NoAnswer /\ staged'[r] = NoRow
    BY <1>4 DEF Accept, SafetyInv, AnswersInFlight, StagedRows
  <2> QED
    BY <2>1
<1>5. CASE before'[r] = before[r]
  <2>1. q \in before[r] /\ q \in Answered /\ answer'[q] = answer[q]
    BY <1>5, BeforeAndDone DEF BeginsAreAfter
  <2>2. Reported(q) /\ answer[q].revision <= Current(r).revision
    BY <1>2, <2>1 DEF Reported, AnswersAreBelowRow
  <2>3. answer[q].revision \in Nat
    BY <1>2, <1>3
  <2>4. ASSUME HasWritten(r)' PROVE answer[q].revision < staged'[r].revision
    <3>1. CASE staged'[r] = staged[r]
      BY <1>2, <2>1, <2>2, <2>4, <3>1 DEF BeginsAreAfter
    <3>2. CASE staged'[r] # staged[r]
      <4>1. InsertRow(r) \/ UpdateRow(r)
        BY <2>4, <3>2, OnlyInsertAndUpdateStage
      <4>2. staged'[r].revision = Current(r).revision + 1
        BY <1>3, <4>1 DEF InsertRow, UpdateRow, FirstRevision
      <4> QED
        BY <1>3, <2>2, <2>3, <4>2
    <3> QED
      BY <3>1, <3>2
  <2>5. ASSUME answer'[r].kind \in {"loaded", "conflict"}
        PROVE  answer[q].revision <= answer'[r].revision
    <3>1. CASE answer'[r] = answer[r]
      BY <1>2, <2>1, <2>2, <2>5, <3>1 DEF BeginsAreAfter
    <3>2. CASE answer'[r] # answer[r]
      <4>1. ReadProfile(r) \/ CommitReply(r) \/ (SelectForUpdate(r) /\ ~Matches(r))
        BY <2>5, <3>2, OnlyTheseReport DEF Reported
      <4>2. answer'[r].revision = Current(r).revision
        BY <1>3, <2>5, <4>1 DEF ReadProfile, CommitReply, SelectForUpdate
      <4> QED
        BY <2>2, <4>2
    <3> QED
      BY <3>1, <3>2
  <2> QED
    BY <2>1, <2>4, <2>5
<1> QED
  BY <1>4, <1>5, BeforeAndDone

-----------------------------------------------------------------------------
(* History.                                                                 *)

\* Two committed history rows of one profile with one revision are one row.
LEMMA RevisionNamesRow ==
    ASSUME SafetyInv, NEW p \in Profiles, NEW h \in history[p],
           NEW g \in history[p], h.revision = g.revision
    PROVE  h = g
<1>1. h.state \in Requests /\ g.state \in Requests
  BY DEF SafetyInv, TypeOK
<1>2. h.state = g.state
  BY <1>1 DEF SafetyInv, HistoryIsCommitted, NoLostUpdate
<1> QED
  BY <1>2 DEF SafetyInv, HistoryIsCommitted

\* ORDER BY revision DESC OFFSET HistoryLimit, on revisions without gap or
\* repetition up to m, is a comparison with m.
LEMMA BeyondLimitIsBelow ==
    ASSUME NEW G \in SUBSET Row, NEW m \in Nat,
           \A g, h \in G : g.revision = h.revision => g = h,
           {g.revision : g \in G} = {k \in 1 .. m : k + HistoryLimit >= m}
    PROVE  BeyondLimit(G) = {h \in G : h.revision + HistoryLimit <= m}
<1>1. HistoryLimit \in Nat
  BY HistoryLimitAssumption
<1>2. ASSUME NEW h \in G
      PROVE  /\ h.revision \in Nat
             /\ Cardinality({g \in G : g.revision > h.revision}) = m - h.revision
  <2> DEFINE above == {g \in G : g.revision > h.revision}
             rev == [g \in above |-> g.revision]
             range == h.revision + 1 .. m
  <2>1. /\ h.revision \in 1 .. m /\ h.revision + HistoryLimit >= m
        /\ \A g \in G : g.revision \in 1 .. m
    OBVIOUS
  <2>2. rev \in [above -> range]
    BY <2>1
  <2>3. rev \in Injection(above, range)
    BY <2>2 DEF Injection, IsInjective
  <2>4. ASSUME NEW k \in range PROVE \E g \in above : rev[g] = k
    <3>1. k \in 1 .. m /\ k + HistoryLimit >= m /\ k > h.revision
      BY <1>1, <2>1
    <3>2. PICK g \in G : g.revision = k
      BY <3>1
    <3> QED
      BY <3>1, <3>2
  <2>5. rev \in Surjection(above, range)
    BY <2>2, <2>4 DEF Surjection
  <2>6. IsFiniteSet(range) /\ Cardinality(range) = m - h.revision
    <3>1. h.revision + 1 \in Int /\ m \in Int
      BY <2>1
    <3>2. /\ IsFiniteSet(range)
          /\ Cardinality(range) =
                IF h.revision + 1 > m THEN 0 ELSE m - (h.revision + 1) + 1
      BY ONLY <3>1, FS_Interval
    <3> QED
      BY <2>1, <3>2
  <2> HIDE DEF above, rev, range
  <2>7. Cardinality(above) = Cardinality(range)
    BY <2>3, <2>5, <2>6, FS_Injection
  <2> QED
    BY <2>1, <2>6, <2>7 DEF above
<1> QED
  BY <1>1, <1>2 DEF BeyondLimit

\* With a save's document added, a profile's history is one row longer than
\* the window, and the rows trimmed are exactly those outside the next window.
LEMMA TrimKeepsWindow ==
    ASSUME SafetyInv, HistoryIsNewestWindow, NEW r \in Requests,
           HasWritten(r), txn[r] \in Unsettled
    PROVE  LET all == history[Profile(r)] \cup {staged[r]}
               m == staged[r].revision
           IN  /\ m \in Nat
               /\ {h.revision : h \in all} = {k \in 1 .. m : k + HistoryLimit >= m}
               /\ BeyondLimit(all) = {h \in all : h.revision + HistoryLimit <= m}
<1> DEFINE p == Profile(r)
           n == rows[p].revision
           all == history[p] \cup {staged[r]}
           m == staged[r].revision
<1>1. p \in Profiles /\ n \in Nat /\ HistoryLimit \in Nat \ {0}
  BY ArgsTyped, RevisionIsNat, HistoryLimitAssumption DEF SafetyInv
<1>2. m = n + 1 /\ staged[r] \in Row
  BY DEF SafetyInv, StagedRows, ReadIsCurrent, TypeOK
<1>3. history[p] \subseteq Row
  BY <1>1 DEF SafetyInv, TypeOK
<1>4. {h.revision : h \in history[p]} = {k \in 1 .. n : k + HistoryLimit > n}
  BY <1>1 DEF HistoryIsNewestWindow
<1>5. \A h \in history[p] : h.revision \in 1 .. n
  BY <1>4
<1>6. \A g, h \in all : g.revision = h.revision => g = h
  BY <1>1, <1>2, <1>5, RevisionNamesRow
<1> HIDE DEF n, m
<1>7. {h.revision : h \in all} = {h.revision : h \in history[p]} \cup {m}
  BY DEF m
<1>8. {h.revision : h \in all} = {k \in 1 .. m : k + HistoryLimit >= m}
  BY <1>1, <1>2, <1>4, <1>7
<1>9. all \in SUBSET Row /\ m \in Nat
  BY <1>1, <1>2, <1>3
<1> QED
  BY <1>6, <1>8, <1>9, BeyondLimitIsBelow DEF m

\* No other save of the profile commits between a save's trim and its commit.
LEMMA TrimStaysExact ==
    ASSUME SafetyInv, TrimIsExact, [Next]_vars
    PROVE  TrimIsExact'
<1>1. TypeOK
  BY DEF SafetyInv
<1>2. CASE \E q \in Requests : Progress(q)
  <2>1. PICK q \in Requests : Progress(q)
    BY <1>2
  <2>2. CASE TrimHistory(q)
    BY <1>1, <2>2 DEF TrimHistory, TrimIsExact, TypeOK
  <2>3. CASE InsertRow(q) \/ UpdateRow(q)
    BY <1>1, <2>3 DEF InsertRow, UpdateRow, TrimIsExact, TypeOK
  <2>4. CASE SelectForUpdate(q)
    BY <1>1, <2>4 DEF SelectForUpdate, TrimIsExact, TypeOK
  <2>5. CASE Rollback(q)
    BY <1>1, <2>5 DEF Rollback, Abort, TrimIsExact, TypeOK
  <2>6. CASE \/ Accept(q) \/ Reject(q) \/ Connect(q) \/ ReadProfile(q)
             \/ Begin(q) \/ AcquireLock(q) \/ InsertHistory(q) \/ SendCommit(q)
             \/ CommitReply(q)
    BY <1>1, <2>6 DEF Accept, Reject, Connect, ReadProfile, Begin, AcquireLock,
       InsertHistory, SendCommit, CommitReply, TrimIsExact, TypeOK
  <2> QED
    BY <2>1, <2>2, <2>3, <2>4, <2>5, <2>6 DEF Progress
<1>3. CASE \E q \in Requests : Fault(q)
  BY <1>1, <1>3 DEF Fault, ConnectFails, StatementFails, LoseConnection,
     LoseRollback, TrimIsExact, TypeOK
<1>4. ASSUME NEW q \in Requests, ServerCommit(q) PROVE TrimIsExact'
  <2> SUFFICES ASSUME NEW r \in Requests,
                      txn'[r] = "committing" \/ (txn'[r] = "open" /\ pc'[r] = "commit")
               PROVE  trimmed'[r] =
                         BeyondLimit(history'[Profile(r)'] \cup {staged'[r]})
    BY DEF TrimIsExact, BeyondLimit
  <2>1. /\ r # q /\ txn[r] = txn'[r] /\ pc[r] = pc'[r] /\ staged' = staged
        /\ trimmed'[r] = trimmed[r] /\ args' = args
    BY <1>1, <1>4 DEF ServerCommit, TypeOK
  <2>2. HasWritten(r) /\ HasWritten(q)
    BY <1>4, <2>1 DEF ServerCommit, SafetyInv, StagedRows
  <2>3. Profile(r) # Profile(q)
    BY <1>4, <2>1, <2>2 DEF ServerCommit, SafetyInv, LockHeld
  <2>4. history'[Profile(r)] = history[Profile(r)]
    BY <1>1, <1>4, <2>3, ArgsTyped DEF ServerCommit, TypeOK
  <2> QED
    BY <2>1, <2>4 DEF TrimIsExact
<1>5. CASE \E q \in Requests : ServerAbort(q)
  BY <1>1, <1>5 DEF ServerAbort, Abort, TrimIsExact, TypeOK
<1>6. CASE DatabaseRestart
  BY <1>1, <1>6 DEF DatabaseRestart, TrimIsExact, TypeOK
<1>7. CASE ApiCrash
  BY <1>1, <1>7 DEF ApiCrash, TrimIsExact, TypeOK
<1>8. CASE Finished \/ UNCHANGED vars
  BY <1>8 DEF Finished, vars, TrimIsExact, BeyondLimit
<1> QED
  BY <1>2, <1>3, <1>4, <1>5, <1>6, <1>7, <1>8 DEF Next, Settle

\* A commit moves the window on by one revision.
LEMMA WindowMoves ==
    ASSUME SafetyInv, TrimIsExact, HistoryIsNewestWindow, SafetyInv',
           NEW r \in Requests, ServerCommit(r)
    PROVE  HistoryIsNewestWindow'
<1>1. /\ staged[r].revision = Current(r).revision + 1
      /\ Current(r).revision \in Nat /\ Profile(r) \in Profiles
      /\ rows' = [rows EXCEPT ![Profile(r)] = staged[r]]
      /\ staged[r] \in Row
      /\ HasWritten(r) /\ txn[r] \in Unsettled
  <2>1. /\ staged[r].revision = args[r].expected + 1
        /\ Current(r).revision = args[r].expected /\ args[r].expected \in Nat
        /\ Profile(r) \in Profiles /\ staged[r] \in Row
        /\ rows' = [rows EXCEPT ![Profile(r)] = staged[r]]
    BY CommitAdvances
  <2>2. HasWritten(r) /\ txn[r] \in Unsettled
    BY DEF SafetyInv, ServerCommit, StagedRows
  <2> QED
    BY <2>1, <2>2
<1>2. args' = args /\ TypeOK /\ HistoryLimit \in Nat \ {0}
  BY HistoryLimitAssumption DEF SafetyInv, ServerCommit
<1> SUFFICES ASSUME NEW p \in Profiles
             PROVE  /\ {h.revision : h \in history'[p]} =
                          {k \in 1 .. rows'[p].revision :
                             k + HistoryLimit > rows'[p].revision}
                    /\ rows'[p].revision # 0 => rows'[p] \in history'[p]
  BY DEF HistoryIsNewestWindow, SafetyInv, HistoryIsCommitted
<1>3. CASE p # Profile(r)
  <2>1. rows'[p] = rows[p] /\ history'[p] = history[p]
    BY <1>1, <1>2, <1>3 DEF ServerCommit, TypeOK
  <2> QED
    BY <2>1 DEF HistoryIsNewestWindow
<1>4. CASE p = Profile(r)
  <2> DEFINE all == history[p] \cup {staged[r]}
             m == staged[r].revision
  <2>1. /\ m \in Nat
        /\ {h.revision : h \in all} = {k \in 1 .. m : k + HistoryLimit >= m}
        /\ BeyondLimit(all) = {h \in all : h.revision + HistoryLimit <= m}
    BY <1>1, <1>4, TrimKeepsWindow
  <2>2. history'[p] = all \ BeyondLimit(all)
    BY <1>2, <1>4 DEF ServerCommit, TrimIsExact, TypeOK
  <2>3. \A h \in all : h.revision \in 1 .. m
    BY <2>1
  <2>4. history'[p] = {h \in all : h.revision + HistoryLimit > m}
    <3> HIDE DEF all, m
    <3>1. \A h \in all : ~(h.revision + HistoryLimit <= m) <=>
                         h.revision + HistoryLimit > m
      BY <1>2, <2>1, <2>3
    <3> QED
      BY <2>1, <2>2, <3>1
  <2>5. rows'[p] = staged[r] /\ staged[r] \in history'[p]
    BY <1>1, <1>2, <1>4, <2>4 DEF TypeOK
  <2>6. {h.revision : h \in history'[p]} = {k \in 1 .. m : k + HistoryLimit > m}
    BY <1>2, <2>1, <2>3, <2>4
  <2> QED
    BY <2>5, <2>6
<1> QED
  BY <1>3, <1>4

\* A committed transaction stays what it committed.
LEMMA CommittedStays ==
    ASSUME SafetyInv, [Next]_vars, NEW r \in Requests, txn[r] = "committed"
    PROVE  txn'[r] = "committed" /\ staged'[r] = staged[r]
<1>1. TypeOK /\ PhasesAgree /\ StagedRows
  BY DEF SafetyInv
<1>2. CASE \E q \in Requests : Progress(q) \/ Fault(q)
  BY <1>1, <1>2 DEF Progress, Fault, Accept, Reject, Connect, ReadProfile,
     Begin, AcquireLock, SelectForUpdate, InsertRow, UpdateRow, InsertHistory,
     TrimHistory, SendCommit, CommitReply, Rollback, Abort, ConnectFails,
     StatementFails, LoseConnection, LoseRollback, TypeOK, PhasesAgree
<1>3. CASE \E q \in Requests : Settle(q)
  BY <1>1, <1>3 DEF Settle, ServerCommit, ServerAbort, Abort, TypeOK
<1>4. CASE DatabaseRestart \/ ApiCrash \/ Finished \/ UNCHANGED vars
  BY <1>1, <1>4 DEF DatabaseRestart, ApiCrash, Finished, vars, TypeOK
<1> QED
  BY <1>2, <1>3, <1>4 DEF Next

\* The whole window, committed and staged, survives every step.
LEMMA WindowStays ==
    ASSUME SafetyInv, TrimIsExact, HistoryIsNewestWindow, [Next]_vars
    PROVE  HistoryIsNewestWindow'
<1>1. SafetyInv' /\ args' = args
  BY NextSafe, ArgsAreFixed
<1>2. CASE \E r \in Requests : ServerCommit(r)
  BY <1>1, <1>2, WindowMoves
<1>3. CASE UNCHANGED <<rows, history>>
  BY <1>1, <1>3 DEF HistoryIsNewestWindow, SafetyInv, HistoryIsCommitted
<1> QED
  BY <1>2, <1>3, OnlyCommitsWrite

-----------------------------------------------------------------------------
(* The theorems.                                                            *)

\* The initial state satisfies the invariant.
LEMMA InitRepository == Init => RepositoryInv
<1> SUFFICES ASSUME Init PROVE RepositoryInv
  OBVIOUS
<1>1. SafetyInv
  BY InitSafe
<1>2. AnswersAreBelowRow /\ BeginsAreAfter /\ TrimIsExact
  BY DEF Init, AnswersAreBelowRow, BeginsAreAfter, TrimIsExact, Reported
<1>3. HistoryIsNewestWindow
  BY DEF Init, HistoryIsNewestWindow
<1> QED
  BY <1>1, <1>2, <1>3 DEF RepositoryInv

\* The inductive invariant behind the freshness of answers, the history window
\* and the refinement of the store.
THEOREM RepositoryInvariant == Spec => []RepositoryInv
<1>1. RepositoryInv /\ [Next]_vars => RepositoryInv'
  BY NextSafe, AnswersStayBelowRow, BeginsStayAfter, TrimStaysExact, WindowStays
  DEF RepositoryInv
<1> QED
  BY <1>1, InitRepository, PTL DEF Spec

\* A call that begins after another was answered never reports an older
\* revision of the profile than that answer did, and a save a newer one.
THEOREM FreshAnswers == Spec => []AnswersAreFresh
<1>1. RepositoryInv => AnswersAreFresh
  <2> SUFFICES ASSUME RepositoryInv, NEW r \in Answered, NEW q \in before[r],
                      Profile(q) = Profile(r), Reported(q)
               PROVE  /\ answer[r].kind \in {"loaded", "conflict"} =>
                            answer[q].revision <= answer[r].revision
                      /\ answer[r].kind = "saved" =>
                            answer[q].revision < answer[r].revision
    BY DEF AnswersAreFresh, Reported
  <2>1. answer[r].kind = "saved" =>
           HasWritten(r) /\ answer[r].revision = staged[r].revision
    BY DEF RepositoryInv, SafetyInv, AnswersInFlight, StagedRows, Answered
  <2> QED
    BY <2>1 DEF RepositoryInv, BeginsAreAfter, Answered
<1> QED
  BY <1>1, RepositoryInvariant, PTL

\* The history table holds the newest HistoryLimit revisions without a gap,
\* each under the document committed as that revision, the row among them.
THEOREM HistoryWindow == Spec => []HistoryIsNewestWindow
<1>1. RepositoryInv => HistoryIsNewestWindow
  BY DEF RepositoryInv
<1> QED
  BY <1>1, RepositoryInvariant, PTL

-----------------------------------------------------------------------------
(* The refinement.                                                          *)

Applied == {r \in Requests : txn[r] = "committed"}

\* The step at which PostgreSQL commits is the store's conditional write: the
\* revision is the one the caller named, the history is cut to the window, and
\* nobody was told anything but "failed".
LEMMA CommitIsApply ==
    ASSUME RepositoryInv, NEW r \in Requests, ServerCommit(r)
    PROVE  Store!Apply(r)
<1> DEFINE p == Profile(r)
           all == history[p] \cup {staged[r]}
           m == staged[r].revision
<1>1. /\ staged[r].state = r /\ m = args[r].expected + 1
      /\ rows[p].revision = args[r].expected /\ args[r].expected \in Nat
      /\ p \in Profiles /\ staged[r] \in Row
      /\ rows' = [rows EXCEPT ![p] = staged[r]]
  BY CommitAdvances DEF RepositoryInv
<1>2. HasWritten(r) /\ txn[r] \in Unsettled /\ TypeOK /\ HistoryLimit \in Nat
  BY HistoryLimitAssumption DEF RepositoryInv, SafetyInv, ServerCommit, StagedRows
<1>3. staged[r] = [revision |-> rows[p].revision + 1, state |-> r]
  BY <1>1
<1>4. args[r].op = "save" /\ args[r].valid
  BY DEF RepositoryInv, SafetyInv, PhasesAgree, ServerCommit
<1>5. answer[r].kind \in {"none", "failed"}
  <2>1. answer[r].kind \in AnswerKinds
    BY <1>2 DEF TypeOK
  <2> QED
    BY <2>1 DEF RepositoryInv, SafetyInv, AnswersInFlight, ServerCommit, AnswerKinds
<1>6. history' = [history EXCEPT ![p] = {h \in all : h.revision + HistoryLimit > m}]
  <2>1. /\ m \in Nat
        /\ {h.revision : h \in all} = {k \in 1 .. m : k + HistoryLimit >= m}
        /\ BeyondLimit(all) = {h \in all : h.revision + HistoryLimit <= m}
    BY <1>2, TrimKeepsWindow DEF RepositoryInv
  <2>2. trimmed[r] = BeyondLimit(all)
    BY DEF RepositoryInv, TrimIsExact, ServerCommit
  <2>3. \A h \in all : ~(h.revision + HistoryLimit <= m) <=>
                       h.revision + HistoryLimit > m
    BY <1>2, <2>1
  <2>4. all \ trimmed[r] = {h \in all : h.revision + HistoryLimit > m}
    <3> HIDE DEF all, m
    <3> QED
      BY <2>1, <2>2, <2>3
  <2> QED
    BY <2>4 DEF ServerCommit
<1>7. /\ r \notin Applied /\ Applied' = Applied \cup {r}
      /\ UNCHANGED <<args, answer>>
  BY <1>2 DEF Applied, ServerCommit, TypeOK
<1> QED
  BY <1>1, <1>3, <1>4, <1>5, <1>6, <1>7 DEF Store!Apply, Store!Revision, Applied

\* Every other step leaves the set of applied saves as it was.
LEMMA OnlyCommitsApply ==
    ASSUME SafetyInv, [Next]_vars, ~\E r \in Requests : ServerCommit(r)
    PROVE  Applied' = Applied
<1>1. ASSUME NEW r \in Requests, txn'[r] = "committed" PROVE txn[r] = "committed"
  <2>1. TypeOK
    BY DEF SafetyInv
  <2> QED
    BY <1>1, <2>1 DEF Next, Progress, Fault, Settle, Accept, Reject, Connect,
       ConnectFails, ReadProfile, Begin, AcquireLock, SelectForUpdate, InsertRow,
       UpdateRow, InsertHistory, TrimHistory, SendCommit, CommitReply, Rollback,
       StatementFails, LoseConnection, LoseRollback, ServerAbort, Abort,
       DatabaseRestart, ApiCrash, Finished, vars, TypeOK
<1> QED
  BY <1>1, CommittedStays DEF Applied

\* A step that answers a caller is the store telling it the same.
LEMMA RepliesAreTold ==
    ASSUME RepositoryInv, [Next]_vars, UNCHANGED <<rows, history, args, Applied>>
    PROVE  [Store!StoreNext]_(Store!storeVars)
<1>1. /\ TypeOK /\ PhasesAgree /\ StagedRows /\ AnswersInFlight
      /\ answer \in [Requests -> [kind : AnswerKinds, revision : Nat]]
  BY DEF RepositoryInv, SafetyInv, TypeOK
<1> USE DEF Store!StoreNext, Store!Tell, Store!NoAnswer, Store!Revision, Applied
<1>2. CASE UNCHANGED answer
  BY <1>2 DEF Store!storeVars
<1>3. ASSUME NEW r \in Requests, Reject(r) PROVE Store!TellRejected(r)
  BY <1>1, <1>3 DEF Reject, AnswersInFlight, Store!TellRejected
<1>4. ASSUME NEW r \in Requests, ConnectFails(r) PROVE Store!TellUnavailable(r)
  BY <1>1, <1>4 DEF ConnectFails, AnswersInFlight, PhasesAgree,
     Store!TellUnavailable
<1>5. ASSUME NEW r \in Requests, ReadProfile(r) PROVE Store!TellLoaded(r)
  BY <1>1, <1>5 DEF ReadProfile, AnswersInFlight, PhasesAgree, Store!TellLoaded
<1>6. ASSUME NEW r \in Requests, SelectForUpdate(r), ~Matches(r)
      PROVE  Store!TellConflict(r)
  BY <1>1, <1>6 DEF SelectForUpdate, Matches, AnswersInFlight, PhasesAgree,
     Store!TellConflict
<1>7. ASSUME NEW r \in Requests, CommitReply(r) PROVE Store!TellSaved(r)
  BY <1>1, <1>7 DEF CommitReply, CommitConfirmed, AnswersInFlight, StagedRows,
     Store!TellSaved
<1>8. ASSUME NEW r \in Requests, StatementFails(r) \/ LoseConnection(r)
      PROVE  Store!TellFailed(r)
  BY <1>1, <1>8 DEF StatementFails, LoseConnection, AnswersInFlight,
     Store!TellFailed
<1>9. \/ UNCHANGED answer
      \/ \E r \in Requests :
            \/ Reject(r) \/ ConnectFails(r) \/ ReadProfile(r) \/ CommitReply(r)
            \/ (SelectForUpdate(r) /\ ~Matches(r))
            \/ StatementFails(r) \/ LoseConnection(r)
  BY DEF Next, Progress, Fault, Settle, Accept, Connect, Begin, AcquireLock,
     SelectForUpdate, InsertRow, UpdateRow, InsertHistory, TrimHistory, SendCommit,
     Rollback, LoseRollback, ServerCommit, ServerAbort, Abort, DatabaseRestart,
     ApiCrash, Finished, vars
<1> QED
  BY <1>2, <1>3, <1>4, <1>5, <1>6, <1>7, <1>8, <1>9

\* The statements, locks, connections, crashes and restarts of save and load
\* implement the conditional store that takes every call in one step.
THEOREM StoreImplemented == Spec => ImplementsStore
<1>1. Init => Store!StoreInit
  BY DEF Init, Store!StoreInit, Store!NoAnswer
<1>2. RepositoryInv /\ [Next]_vars => [Store!StoreNext]_(Store!storeVars)
  <2> SUFFICES ASSUME RepositoryInv, [Next]_vars
               PROVE  [Store!StoreNext]_(Store!storeVars)
    OBVIOUS
  <2>1. CASE \E r \in Requests : ServerCommit(r)
    BY <2>1, CommitIsApply DEF Store!StoreNext
  <2>2. CASE ~\E r \in Requests : ServerCommit(r)
    <3>1. UNCHANGED <<rows, history, args, Applied>>
      BY <2>2, OnlyCommitsWrite, OnlyCommitsApply, ArgsAreFixed DEF RepositoryInv
    <3> QED
      BY <3>1, RepliesAreTold
  <2> QED
    BY <2>1, <2>2
<1> QED
  BY <1>1, <1>2, RepositoryInvariant, PTL DEF Spec, ImplementsStore, Store!StoreSpec
=============================================================================
