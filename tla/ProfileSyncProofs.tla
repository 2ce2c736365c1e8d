-------------------------- MODULE ProfileSyncProofs ---------------------------
(****************************************************************************)
(* SyncInv is inductive, and what follows from it: paid and recorded once,  *)
(* evidence of resolved saves kept, drafts in order and a cache that was    *)
(* committed, for any number of tabs, updates, reward keys and calls.       *)
(****************************************************************************)
EXTENDS ProfileSyncInv, SequenceTheorems, FiniteSetTheorems, TLAPS

-----------------------------------------------------------------------------
(* Names of updates and calls.                                              *)

\* An update is named by its tab and its number.
LEMMA UpdatesArePairs ==
    /\ \A u \in Updates : /\ u[1] \in Tabs /\ u[2] \in 1 .. MaxUpdates[u[1]]
                          /\ u[2] \in Nat /\ u = <<u[1], u[2]>>
    /\ \A t \in Tabs : \A n \in 1 .. MaxUpdates[t] :
          <<t, n>> \in Updates /\ <<t, n>>[1] = t /\ <<t, n>>[2] = n
BY BoundsAssumption DEF Updates

\* So is a call.
LEMMA CallsArePairs ==
    /\ \A c \in Calls : /\ c[1] \in Tabs /\ c[2] \in 1 .. MaxCalls(c[1])
                        /\ c[2] \in Nat /\ c = <<c[1], c[2]>>
    /\ \A t \in Tabs : \A n \in 1 .. MaxCalls(t) :
          <<t, n>> \in Calls /\ <<t, n>>[1] = t /\ <<t, n>>[2] = n
BY BoundsAssumption DEF Calls, MaxCalls

-----------------------------------------------------------------------------
(* What an update makes of a document.                                      *)

\* The cut list begins as the list did.
LEMMA SliceIsPrefix ==
    ASSUME NEW s \in Seq(Updates)
    PROVE  LET r == Slice(s, AttemptLimit) IN
           /\ r \in Seq(Updates)
           /\ Len(r) = IF Len(s) <= AttemptLimit THEN Len(s) ELSE AttemptLimit
           /\ \A i \in 1 .. Len(r) : r[i] = s[i]
<1>1. Len(s) \in Nat /\ AttemptLimit \in Nat \ {0} /\ \A i \in 1 .. Len(s) : s[i] \in Updates
  BY AttemptLimitAssumption, LenProperties
<1>2. CASE Len(s) <= AttemptLimit
  BY <1>1, <1>2 DEF Slice
<1>3. CASE ~(Len(s) <= AttemptLimit)
  <2>1. \A i \in 1 .. AttemptLimit : s[i] \in Updates
    BY <1>1, <1>3
  <2>2. /\ SubSeq(s, 1, AttemptLimit) \in Seq(Updates)
        /\ Len(SubSeq(s, 1, AttemptLimit)) = AttemptLimit
        /\ \A i \in 1 .. AttemptLimit : SubSeq(s, 1, AttemptLimit)[i] = s[i]
    BY <1>1, <2>1, SubSeqProperties
  <2> QED
    BY <1>3, <2>2 DEF Slice
<1> QED
  BY <1>2, <1>3

\* Recording an attempt that is not listed yet pays its key at most once, lists
\* it first and drops, at most, the oldest.
LEMMA RecordIsProper ==
    ASSUME NEW doc, IsProper(doc), NEW u \in Updates, ~Lists(doc, u),
           update[u].key \in RewardKeys, update[u].reward \in BOOLEAN
    PROVE  LET new == RecordAttempt(doc, u) IN
           /\ IsProper(new) /\ Follows(doc, new) /\ Lists(new, u)
           /\ \A v \in Updates : Lists(new, v) => v = u \/ Lists(doc, v)
           /\ new.drafts = doc.drafts
<1> DEFINE new == RecordAttempt(doc, u)
           paid == IF Pays(doc, u) THEN {update[u].key} ELSE {}
           longer == <<u>> \o doc.attempts
<1>1. /\ doc \in Docs /\ doc.attempts \in Seq(Updates) /\ Len(doc.attempts) \in Nat
      /\ Len(doc.attempts) <= AttemptLimit /\ AttemptLimit \in Nat \ {0}
      /\ DOMAIN doc.attempts = 1 .. Len(doc.attempts)
      /\ doc.claims \in SUBSET RewardKeys /\ doc.drafts \in [Tabs -> Nat]
  BY AttemptLimitAssumption, LenProperties DEF IsProper, Docs
<1>2. /\ longer \in Seq(Updates) /\ Len(longer) = Len(doc.attempts) + 1
      /\ longer[1] = u
      /\ \A i \in 1 .. Len(doc.attempts) : longer[i + 1] = doc.attempts[i]
  <2>1. <<u>> \in Seq(Updates) /\ Len(<<u>>) = 1 /\ <<u>>[1] = u
    OBVIOUS
  <2>2. /\ longer \in Seq(Updates) /\ Len(longer) = 1 + Len(doc.attempts)
        /\ \A i \in 1 .. 1 + Len(doc.attempts) :
              longer[i] = IF i <= 1 THEN <<u>>[i] ELSE doc.attempts[i - 1]
    BY <1>1, <2>1, ConcatProperties
  <2>3. longer[1] = u
    BY <1>1, <2>1, <2>2
  <2>4. ASSUME NEW i \in 1 .. Len(doc.attempts)
        PROVE  longer[i + 1] = doc.attempts[i]
    <3>1. i + 1 \in 1 .. 1 + Len(doc.attempts) /\ ~(i + 1 <= 1) /\ (i + 1) - 1 = i
      BY <1>1
    <3> QED
      BY <2>2, <3>1
  <2> QED
    BY <1>1, <2>2, <2>3, <2>4
<1> HIDE DEF paid, longer
<1>3. /\ new.attempts = Slice(longer, AttemptLimit) /\ new.drafts = doc.drafts
      /\ new.claims = doc.claims \cup paid /\ new.xp = doc.xp + Cardinality(paid)
      /\ new = [attempts |-> new.attempts, claims |-> new.claims,
                xp |-> new.xp, drafts |-> new.drafts]
  <2>1. new = [doc EXCEPT !.xp = @ + Cardinality(paid),
                          !.attempts = Slice(longer, AttemptLimit),
                          !.claims = @ \cup paid]
    BY DEF RecordAttempt, paid, longer
  <2>2. doc \in [attempts : Seq(Updates), claims : SUBSET RewardKeys,
                 xp : Nat, drafts : [Tabs -> Nat]]
    BY <1>1 DEF Docs
  <2> HIDE DEF new
  <2> QED
    BY ONLY <2>1, <2>2
<1> HIDE DEF new
<1>4. /\ new.attempts \in Seq(Updates) /\ DOMAIN new.attempts = 1 .. Len(new.attempts)
      /\ Len(new.attempts) = IF Len(longer) <= AttemptLimit THEN Len(longer)
                                                          ELSE AttemptLimit
      /\ \A i \in 1 .. Len(new.attempts) : new.attempts[i] = longer[i]
  BY <1>2, <1>3, SliceIsPrefix, LenProperties
<1>5. /\ 1 \in DOMAIN new.attempts /\ new.attempts[1] = u
      /\ \A i \in DOMAIN new.attempts :
            i # 1 => /\ i - 1 \in DOMAIN doc.attempts
                     /\ new.attempts[i] = doc.attempts[i - 1]
  <2>1. ASSUME NEW i \in DOMAIN new.attempts, i # 1
        PROVE  /\ i - 1 \in DOMAIN doc.attempts
               /\ new.attempts[i] = doc.attempts[i - 1]
    <3>1. i - 1 \in 1 .. Len(doc.attempts) /\ (i - 1) + 1 = i
      BY <1>1, <1>2, <1>4, <2>1
    <3> QED
      BY <1>1, <1>2, <1>4, <3>1
  <2> QED
    BY <1>1, <1>2, <1>4, <2>1
<1>6. \A i, j \in DOMAIN new.attempts : i # j => new.attempts[i] # new.attempts[j]
  <2> SUFFICES ASSUME NEW i \in DOMAIN new.attempts, NEW j \in DOMAIN new.attempts,
                      i # j, new.attempts[i] = new.attempts[j]
               PROVE  FALSE
    OBVIOUS
  <2>1. CASE i = 1 \/ j = 1
    BY <1>5, <2>1 DEF Lists
  <2>2. CASE i # 1 /\ j # 1
    <3>1. i - 1 # j - 1
      BY <1>4
    <3> QED
      BY <1>5, <2>2, <3>1 DEF IsProper
  <2> QED
    BY <2>1, <2>2
<1>7. /\ IsFiniteSet(new.claims) /\ new.xp = Cardinality(new.claims)
      /\ new.claims \in SUBSET RewardKeys /\ new.xp \in Nat
  <2>1. /\ IsFiniteSet(doc.claims) /\ Cardinality(doc.claims) \in Nat
        /\ doc.xp = Cardinality(doc.claims)
    BY FS_CardinalityType DEF IsProper
  <2>2. CASE Pays(doc, u)
    <3>1. paid = {update[u].key} /\ update[u].key \notin doc.claims
      BY <2>2 DEF Pays, paid
    <3>2. Cardinality(paid) = 1
      BY <3>1, FS_Singleton
    <3>3. /\ IsFiniteSet(doc.claims \cup {update[u].key})
          /\ Cardinality(doc.claims \cup {update[u].key}) = Cardinality(doc.claims) + 1
      BY <2>1, <3>1, FS_AddElement
    <3>4. new.claims = doc.claims \cup {update[u].key} /\ new.xp = doc.xp + 1
      BY <1>3, <3>1, <3>2
    <3>5. new.xp = Cardinality(new.claims) /\ IsFiniteSet(new.claims) /\ new.xp \in Nat
      BY ONLY <2>1, <3>3, <3>4
    <3> QED
      BY <1>1, <3>4, <3>5
  <2>3. CASE ~Pays(doc, u)
    <3>1. paid = {} /\ Cardinality(paid) = 0
      BY <2>3, FS_EmptySet DEF paid
    <3>2. new.claims = doc.claims /\ new.xp = doc.xp
      BY <1>3, <2>1, <3>1
    <3> QED
      BY <1>1, <2>1, <3>2
  <2> QED
    BY <2>2, <2>3
<1>8. IsProper(new)
  BY <1>1, <1>2, <1>3, <1>4, <1>6, <1>7 DEF IsProper, Docs
<1>9. Follows(doc, new)
  <2>1. ASSUME NEW v \in Updates, Lists(doc, v) PROVE Keeps(new, v)
    <3>1. PICK i \in 1 .. Len(doc.attempts) : doc.attempts[i] = v
      BY <1>1, <2>1 DEF Lists
    <3>2. CASE i + 1 <= AttemptLimit
      <4>1. i + 1 \in DOMAIN new.attempts /\ new.attempts[i + 1] = v
        BY <1>1, <1>2, <1>4, <3>1, <3>2
      <4> QED
        BY <4>1 DEF Keeps, Lists
    <3>3. CASE ~(i + 1 <= AttemptLimit)
      BY <1>1, <1>2, <1>4, <3>3 DEF Keeps
    <3> QED
      BY <3>2, <3>3
  <2>2. ASSUME Len(doc.attempts) = AttemptLimit
        PROVE  Len(new.attempts) = AttemptLimit
    BY <1>1, <1>2, <1>4, <2>2
  <2>3. \A t \in Tabs : new.drafts[t] >= doc.drafts[t]
    BY <1>1, <1>3
  <2> QED
    BY <2>1, <2>2, <2>3 DEF Follows, Keeps
<1>10. Lists(new, u) /\ \A v \in Updates : Lists(new, v) => v = u \/ Lists(doc, v)
  BY <1>5 DEF Lists
<1> QED
  BY <1>3, <1>8, <1>9, <1>10 DEF new

\* Replacing a draft by a later one.
LEMMA DraftIsProper ==
    ASSUME NEW doc, IsProper(doc), NEW u \in Updates, doc.drafts[u[1]] <= u[2]
    PROVE  LET new == SaveDraft(doc, u) IN
           /\ IsProper(new) /\ Follows(doc, new)
           /\ new.attempts = doc.attempts
           /\ new.drafts = [doc.drafts EXCEPT ![u[1]] = u[2]]
<1> DEFINE new == SaveDraft(doc, u)
<1>1. /\ doc \in [attempts : Seq(Updates), claims : SUBSET RewardKeys,
                  xp : Nat, drafts : [Tabs -> Nat]]
      /\ u[1] \in Tabs /\ u[2] \in Nat
  BY UpdatesArePairs DEF IsProper, Docs
<1>2. /\ new.attempts = doc.attempts /\ new.claims = doc.claims /\ new.xp = doc.xp
      /\ new.drafts = [doc.drafts EXCEPT ![u[1]] = u[2]]
      /\ new \in Docs
  BY <1>1 DEF SaveDraft, Docs
<1>3. \A t \in Tabs : new.drafts[t] >= doc.drafts[t]
  BY <1>1, <1>2
<1> HIDE DEF new
<1>4. IsProper(new)
  BY <1>2 DEF IsProper
<1>5. Follows(doc, new)
  BY <1>2, <1>3 DEF Follows, Keeps, Lists
<1> QED
  BY <1>2, <1>4, <1>5 DEF new

\* What performing update u makes of a document.
IsFollowUp(doc, u, new) ==
    /\ IsProper(new) /\ Follows(doc, new)
    /\ update[u].kind = "validate" => Lists(new, u)
    /\ \A v \in Updates : Lists(new, v) => v = u \/ Lists(doc, v)
    /\ \A t \in Tabs : new.drafts[t] = doc.drafts[t] \/ (t = u[1] /\ new.drafts[t] = u[2])

\* Performing an update that the document does not list yet, nor a later draft of its
\* tab, is a follow-up in that sense.
LEMMA PerformFollows ==
    ASSUME TypeOK, NEW doc, IsProper(doc), NEW u \in Updates, ~Lists(doc, u),
           doc.drafts[u[1]] <= u[2]
    PROVE  IsFollowUp(doc, u, Perform(doc, u))
<1>1. update[u] \in Kinds
  BY DEF TypeOK
<1>2. CASE update[u].kind = "validate"
  <2>1. update[u].key \in RewardKeys /\ update[u].reward \in BOOLEAN
    BY <1>1, <1>2 DEF Kinds
  <2>2. Perform(doc, u) = RecordAttempt(doc, u)
    BY <1>2 DEF Perform
  <2>3. IsFollowUp(doc, u, RecordAttempt(doc, u))
    BY <2>1, RecordIsProper DEF IsFollowUp
  <2> QED
    BY <2>2, <2>3
<1>3. CASE update[u].kind # "validate"
  <2>1. Perform(doc, u) = SaveDraft(doc, u)
    BY <1>3 DEF Perform
  <2>2. /\ u[1] \in Tabs /\ u[2] \in Nat /\ doc.drafts \in [Tabs -> Nat]
    BY UpdatesArePairs DEF IsProper, Docs
  <2> DEFINE new == SaveDraft(doc, u)
  <2>3. /\ IsProper(new) /\ Follows(doc, new) /\ new.attempts = doc.attempts
        /\ new.drafts = [doc.drafts EXCEPT ![u[1]] = u[2]]
    BY DraftIsProper
  <2> HIDE DEF new
  <2>4. \A t \in Tabs : new.drafts[t] = doc.drafts[t] \/ (t = u[1] /\ new.drafts[t] = u[2])
    BY <2>2, <2>3
  <2>5. \A v \in Updates : Lists(new, v) => Lists(doc, v)
    BY <2>3 DEF Lists
  <2>6. IsFollowUp(doc, u, new)
    BY <1>3, <2>3, <2>4, <2>5 DEF IsFollowUp
  <2> QED
    BY <2>1, <2>6 DEF new
<1> QED
  BY <1>2, <1>3

\* The empty document.
LEMMA EmptyIsProper ==
    /\ IsProper(EmptyDoc)
    /\ \A u \in Updates : ~Lists(EmptyDoc, u)
    /\ \A t \in Tabs : EmptyDoc.drafts[t] = 0
<1>1. <<>> \in Seq(Updates) /\ Len(<<>>) = 0 /\ DOMAIN <<>> = {}
  OBVIOUS
<1>2. IsFiniteSet({}) /\ Cardinality({}) = 0
  BY FS_EmptySet
<1> QED
  BY <1>1, <1>2, AttemptLimitAssumption DEF EmptyDoc, IsProper, Docs, Lists

-----------------------------------------------------------------------------
(* The documents the server ever held.                                      *)

Doc(S, A, B, k) ==
    IF k = 0 THEN EmptyDoc ELSE B[CHOOSE c \in S : A[c].expected + 1 = k]

\* At most one save expects each revision: its body is the next document.
LEMMA DocIs ==
    ASSUME NEW S, NEW A, NEW B, NEW c \in S,
           \A d \in S : A[d].expected \in Nat,
           \A d \in S : c # d => A[c].expected # A[d].expected
    PROVE  Doc(S, A, B, A[c].expected + 1) = B[c]
<1> DEFINE k == A[c].expected + 1
           e == CHOOSE d \in S : A[d].expected + 1 = k
<1>1. e \in S /\ A[e].expected + 1 = k
  OBVIOUS
<1> HIDE DEF e
<1>2. e = c
  BY <1>1
<1>3. k # 0
  OBVIOUS
<1> QED
  BY <1>2, <1>3 DEF Doc, e

\* DocumentAt names the documents of the chain of applied saves.
LEMMA DocumentIs ==
    ASSUME TypeOK, SavesAreChained
    PROVE  /\ DocumentAt(0) = EmptyDoc
           /\ \A c \in applied : DocumentAt(args[c].expected + 1) = body[c]
           /\ \A k \in 1 .. Current : \E c \in applied :
                 args[c].expected + 1 = k /\ DocumentAt(k) = body[c]
<1>1. \A k : DocumentAt(k) = Doc(applied, args, body, k)
  BY DEF DocumentAt, Doc
<1>2. \A c \in applied : args[c].expected \in Nat
  BY DEF TypeOK
<1>3. \A c \in applied : Doc(applied, args, body, args[c].expected + 1) = body[c]
  BY <1>2, DocIs DEF SavesAreChained
<1>4. Doc(applied, args, body, 0) = EmptyDoc
  BY DEF Doc
<1> QED
  BY <1>1, <1>3, <1>4 DEF SavesAreChained

\* Documents stay what they are while the applied saves do.
LEMMA DocumentsStay ==
    ASSUME TypeOK, SavesAreChained, applied \subseteq applied',
           \A c \in applied : args'[c] = args[c] /\ body'[c] = body[c],
           \A c \in applied' : args'[c].expected \in Nat,
           \A c, d \in applied' : c # d => args'[c].expected # args'[d].expected
    PROVE  \A k \in 0 .. Current :
              Doc(applied', args', body', k) = Doc(applied, args, body, k)
<1> SUFFICES ASSUME NEW k \in 0 .. Current
             PROVE  Doc(applied', args', body', k) = Doc(applied, args, body, k)
  OBVIOUS
<1>1. CASE k = 0
  BY <1>1 DEF Doc
<1>2. CASE k # 0
  <2>1. Current \in Nat
    BY DEF TypeOK, Current, Rows
  <2>2. PICK c \in applied : args[c].expected + 1 = k /\ DocumentAt(k) = body[c]
    BY <1>2, <2>1, DocumentIs
  <2>3. c \in applied' /\ args'[c].expected + 1 = k /\ body'[c] = body[c]
    BY <2>2
  <2>4. Doc(applied', args', body', args'[c].expected + 1) = body'[c]
    BY <2>3, DocIs
  <2>5. DocumentAt(k) = Doc(applied, args, body, k)
    BY DEF DocumentAt, Doc
  <2> QED
    BY <2>2, <2>3, <2>4, <2>5
<1> QED
  BY <1>1, <1>2

\* The properties about documents, in those terms.
LEMMA InDocuments ==
    /\ ServerDocument = Doc(applied, args, body, Current)
    /\ ServerDocument' = Doc(applied', args', body', Current')
    /\ CacheIsCommitted <=>
          \A t \in Tabs : /\ cache[t].revision <= Current
                          /\ cache[t].doc = Doc(applied, args, body, cache[t].revision)
    /\ CacheIsCommitted' <=>
          \A t \in Tabs : /\ cache'[t].revision <= Current'
                          /\ cache'[t].doc = Doc(applied', args', body', cache'[t].revision)
    /\ BodiesFollow <=>
          \A c \in Calls :
              /\ IsProper(body[c])
              /\ args[c].op = "save" =>
                    /\ args[c].expected <= Current
                    /\ Follows(Doc(applied, args, body, args[c].expected), body[c])
    /\ BodiesFollow' <=>
          \A c \in Calls :
              /\ IsProper(body'[c])
              /\ args'[c].op = "save" =>
                    /\ args'[c].expected <= Current'
                    /\ Follows(Doc(applied', args', body', args'[c].expected), body'[c])
<1>1. /\ ServerDocument = Doc(applied, args, body, Current)
      /\ ServerDocument' = Doc(applied', args', body', Current')
  BY DEF ServerDocument, DocumentAt, Doc, Current
<1>2. CacheIsCommitted <=>
          \A t \in Tabs : /\ cache[t].revision <= Current
                          /\ cache[t].doc = Doc(applied, args, body, cache[t].revision)
  BY DEF CacheIsCommitted, DocumentAt, Doc, Current
<1>3. CacheIsCommitted' <=>
          \A t \in Tabs : /\ cache'[t].revision <= Current'
                          /\ cache'[t].doc = Doc(applied', args', body', cache'[t].revision)
  BY DEF CacheIsCommitted, DocumentAt, Doc, Current
<1>4. BodiesFollow <=>
          \A c \in Calls :
              /\ IsProper(body[c])
              /\ args[c].op = "save" =>
                    /\ args[c].expected <= Current
                    /\ Follows(Doc(applied, args, body, args[c].expected), body[c])
  BY DEF BodiesFollow, DocumentAt, Doc, IsSave
<1>5. BodiesFollow' <=>
          \A c \in Calls :
              /\ IsProper(body'[c])
              /\ args'[c].op = "save" =>
                    /\ args'[c].expected <= Current'
                    /\ Follows(Doc(applied', args', body', args'[c].expected), body'[c])
  BY DEF BodiesFollow, DocumentAt, Doc, IsSave
<1> QED
  BY <1>1, <1>2, <1>3, <1>4, <1>5

\* They are proper, list no attempt and hold no draft that was not sent in a save
\* that was applied.
LEMMA DocumentIsProper ==
    ASSUME TypeOK, SavesAreChained, BodiesFollow, NEW k \in 0 .. Current
    PROVE  /\ IsProper(DocumentAt(k))
           /\ \/ \E c \in applied : DocumentAt(k) = body[c]
              \/ DocumentAt(k) = EmptyDoc
<1>1. Current \in Nat /\ applied \subseteq Calls
  BY DEF TypeOK, Current, Rows
<1>2. CASE k = 0
  BY <1>2, DocumentIs, EmptyIsProper
<1>3. CASE k # 0
  BY <1>1, <1>3, DocumentIs DEF BodiesFollow
<1> QED
  BY <1>2, <1>3

-----------------------------------------------------------------------------
(* Enough calls for every update.                                           *)

\* Counting the numbers up to N.
LEMMA NumbersUpTo ==
    ASSUME NEW N \in Nat, NEW S \in SUBSET (1 .. N)
    PROVE  /\ IsFiniteSet(S) /\ Cardinality(S) \in Nat /\ Cardinality(S) <= N
           /\ \A n \in (1 .. N) \ S : /\ Cardinality(S \cup {n}) = Cardinality(S) + 1
                                      /\ Cardinality(S) + 1 <= N
<1>1. IsFiniteSet(1 .. N) /\ Cardinality(1 .. N) = IF 1 > N THEN 0 ELSE N - 1 + 1
  BY FS_Interval
<1>2. Cardinality(1 .. N) = N
  BY ONLY <1>1, N \in Nat
<1>3. \A R \in SUBSET (1 .. N) :
        IsFiniteSet(R) /\ Cardinality(R) \in Nat /\ Cardinality(R) <= N
  BY <1>1, <1>2, FS_Subset, FS_CardinalityType
<1>4. ASSUME NEW n \in (1 .. N) \ S
      PROVE  /\ Cardinality(S \cup {n}) = Cardinality(S) + 1
             /\ Cardinality(S) + 1 <= N
  <2>1. S \cup {n} \in SUBSET (1 .. N)
    OBVIOUS
  <2>2. Cardinality(S \cup {n}) = Cardinality(S) + 1
    BY <1>3, FS_AddElement
  <2> QED
    BY <1>3, <2>1, <2>2
<1> QED
  BY <1>3, <1>4

\* Calls made, fetches, settled updates and what the running one spent.
LEMMA CallsBelow ==
    ASSUME NEW made \in Nat, NEW f \in Nat, NEW F \in Nat, NEW M \in Nat,
           NEW settled \in Nat, NEW spent \in 0 .. 4,
           f <= F, 4 * settled + spent + 1 <= 4 * M,
           made <= f + 4 * settled + spent
    PROVE  made + 1 \in 1 .. 4 * M + F
OBVIOUS

\* A fetch within its bound, or a save that waits or runs, has a call left.
LEMMA CallsAreLeft ==
    ASSUME TypeOK, CallsSuffice, UpdatesInOrder, TasksRun, NEW t \in Tabs,
           \/ fetches[t] < MaxFetches[t]
           \/ task[t] = Idle /\ queue[t] # <<>>
           \/ task[t].phase \in {"putting", "reloading"}
    PROVE  NextCall(t) \in Calls
<1> DEFINE S == Settled(t)
           M == MaxUpdates[t]
           F == MaxFetches[t]
<1>1. /\ M \in Nat /\ F \in Nat /\ calls[t] \in Nat /\ fetches[t] \in Nat
      /\ MaxCalls(t) = 4 * M + F
      /\ S \in SUBSET (1 .. M)
  BY BoundsAssumption DEF MaxCalls, TypeOK, Settled
<1>2. /\ Cardinality(S) \in Nat /\ Cardinality(S) <= M
      /\ \A n \in (1 .. M) \ S : Cardinality(S) + 1 <= M
  BY <1>1, NumbersUpTo
<1>3. fetches[t] <= F /\ calls[t] <= fetches[t] + 4 * Cardinality(S) + Spent(t)
  BY DEF CallsSuffice
<1>4. task[t].phase \in {"idle", "putting", "reloading", "refetching"}
  BY DEF TypeOK
<1>5. Spent(t) \in 0 .. 4
  BY <1>4 DEF Spent
<1>6. task[t].phase # "idle" => Cardinality(S) + 1 <= M
  <2>1. SUFFICES ASSUME task[t].phase # "idle"
                 PROVE  task[t].update[2] \in (1 .. M) \ S
    BY <1>2
  <2>2. /\ task[t].update \in Updates /\ task[t].update[1] = t
        /\ outcome[task[t].update] = "running"
    BY <2>1 DEF TasksRun
  <2> QED
    BY <2>2, UpdatesArePairs DEF Settled
<1>7. queue[t] # <<>> => Cardinality(S) + 1 <= M
  <2>1. SUFFICES ASSUME queue[t] # <<>>
                 PROVE  queue[t][1][2] \in (1 .. M) \ S
    BY <1>2
  <2>2. queue[t] \in Seq(Updates) /\ 1 \in 1 .. Len(queue[t]) /\ queue[t][1] \in Updates
    BY <2>1, EmptySeq, LenProperties, ElementOfSeq DEF TypeOK
  <2>3. queue[t][1][1] = t /\ outcome[queue[t][1]] = "queued"
    BY <2>2 DEF UpdatesInOrder
  <2> QED
    BY <2>2, <2>3, UpdatesArePairs DEF Settled
<1>8. task[t].phase = "idle" => Spent(t) = 0
  BY DEF Spent
<1>9. task[t].phase \in {"putting", "reloading"} => Spent(t) <= 3
  BY DEF Spent, TypeOK
<1> HIDE DEF S, M, F
<1>10. calls[t] + 1 \in 1 .. MaxCalls(t)
  <2>1. CASE fetches[t] < F
    <3>1. 4 * Cardinality(S) + Spent(t) <= 4 * M
      BY <1>1, <1>2, <1>4, <1>5, <1>6, <1>8
    <3> QED
      BY <1>1, <1>2, <1>3, <1>5, <2>1, <3>1
  <2>2. CASE task[t].phase \in {"putting", "reloading"}
    <3>1. 4 * Cardinality(S) + Spent(t) + 1 <= 4 * M
      BY <1>1, <1>2, <1>5, <1>6, <1>9, <2>2
    <3> QED
      BY <1>1, <1>2, <1>3, <1>5, <3>1, CallsBelow
  <2>3. CASE task[t] = Idle /\ queue[t] # <<>>
    <3>1. 4 * Cardinality(S) + Spent(t) + 1 <= 4 * M
      BY <1>1, <1>2, <1>7, <1>8, <2>3 DEF Idle
    <3> QED
      BY <1>1, <1>2, <1>3, <1>5, <3>1, CallsBelow
  <2> QED
    BY <2>1, <2>2, <2>3 DEF F
<1> QED
  BY <1>10, CallsArePairs DEF NextCall

-----------------------------------------------------------------------------
(* Calls and what the server does with them.                                *)

Asked == [op : {"none", "save", "load"}, profile : {Profile},
          expected : Nat, valid : BOOLEAN]

ServerInv == CallsAreFresh /\ SavesAreChained /\ AnswersAreTrue /\ BodiesFollow

DocumentsStayed ==
    \A k \in 0 .. Current : Doc(applied', args', body', k) = Doc(applied, args, body, k)

\* A call as the tabs make them.
IsRequest(request, doc) ==
    /\ request \in Asked /\ request.op \in {"save", "load"}
    /\ IsProper(doc)
    /\ request.op = "save" =>
          /\ request.expected <= Current
          /\ Follows(Doc(applied, args, body, request.expected), doc)

\* What sending it changes.
Sent(t, request, doc) ==
    LET n == NextCall(t) IN
    /\ UNCHANGED <<rows, history, applied, answer>>
    /\ calls' = [calls EXCEPT ![t] = @ + 1]
    /\ args' \in [Calls -> Asked] /\ body' \in [Calls -> Docs] /\ calls' \in [Tabs -> Nat]
    /\ args'[n] = request /\ body'[n] = doc
    /\ \A c \in Calls : c # n => args'[c] = args[c] /\ body'[c] = body[c]
    /\ n \in Calls /\ n \notin applied /\ answer[n].kind = "none" /\ args[n].op = "none"

\* Sending such a call, numbered next, keeps the server's part in order.
LEMMA SendKeeps ==
    ASSUME TypeOK, ServerInv, NEW t \in Tabs, NEW request, NEW doc,
           NextCall(t) \in Calls, IsRequest(request, doc), SendCall(t, request, doc)
    PROVE  Sent(t, request, doc) /\ ServerInv' /\ DocumentsStayed
<1> DEFINE n == NextCall(t)
<1>1. /\ args \in [Calls -> Asked] /\ body \in [Calls -> Docs] /\ calls \in [Tabs -> Nat]
      /\ applied \subseteq Calls /\ Current \in Nat
  BY DEF TypeOK, Asked, Current, Rows
<1>2. n[1] = t /\ n[2] = calls[t] + 1 /\ n \in Calls /\ calls[t] \in Nat
  BY <1>1 DEF NextCall
<1>3. /\ args[n] = Unsent /\ answer[n] = Store!NoAnswer /\ n \notin applied
  BY <1>1, <1>2 DEF CallsAreFresh, ServerInv
<1>4. Sent(t, request, doc)
  BY <1>1, <1>2, <1>3 DEF Sent, SendCall, IsRequest, IsProper, Unsent, Store!NoAnswer
<1>5. CallsAreFresh'
  <2> SUFFICES ASSUME NEW c \in Calls, c[2] > calls'[c[1]]
               PROVE  /\ args'[c] = Unsent /\ body'[c] = EmptyDoc
                      /\ answer'[c] = Store!NoAnswer /\ c \notin applied'
    BY DEF CallsAreFresh
  <2>1. c # n /\ c[2] > calls[c[1]]
    BY <1>1, <1>2, CallsArePairs DEF SendCall
  <2>2. /\ args[c] = Unsent /\ body[c] = EmptyDoc
        /\ answer[c] = Store!NoAnswer /\ c \notin applied
    BY <2>1 DEF ServerInv, CallsAreFresh
  <2> QED
    BY <1>4, <2>1, <2>2 DEF Sent
<1> HIDE DEF n
<1>6. /\ \A c \in applied : args'[c] = args[c] /\ body'[c] = body[c]
      /\ applied' = applied /\ Current' = Current /\ answer' = answer
  BY <1>1, <1>3, <1>4 DEF Sent, n, Current
<1>7. SavesAreChained'
  BY <1>6 DEF ServerInv, SavesAreChained, IsSave
<1>8. DocumentsStayed
  <2>1. \A c \in applied' : args'[c].expected \in Nat
    BY <1>1, <1>6 DEF Asked
  <2>2. \A c, d \in applied' : c # d => args'[c].expected # args'[d].expected
    BY <1>7 DEF SavesAreChained
  <2> QED
    BY <1>6, <2>1, <2>2, DocumentsStay DEF DocumentsStayed, ServerInv
<1>9. AnswersAreTrue'
  <2> SUFFICES ASSUME NEW c \in Calls
               PROVE  /\ answer[c].kind = "loaded" => answer[c].revision <= Current
                      /\ answer[c].kind = "saved" =>
                            c \in applied /\ answer[c].revision = args'[c].expected + 1
    BY <1>6 DEF AnswersAreTrue
  <2> QED
    BY <1>6 DEF AnswersAreTrue, ServerInv
<1>10. BodiesFollow'
  <2> SUFFICES ASSUME NEW c \in Calls
               PROVE  /\ IsProper(body'[c])
                      /\ args'[c].op = "save" =>
                           /\ args'[c].expected <= Current
                           /\ Follows(Doc(applied', args', body', args'[c].expected), body'[c])
    BY <1>6, InDocuments
  <2>1. CASE c = n
    <3>1. args'[c] = request /\ body'[c] = doc
      BY <1>4, <2>1 DEF Sent, n
    <3>2. request.expected \in Nat
      BY DEF IsRequest, Asked
    <3>3. request.op = "save" => request.expected \in 0 .. Current
      BY <1>1, <3>2 DEF IsRequest
    <3> QED
      BY <1>8, <3>1, <3>3 DEF IsRequest, DocumentsStayed
  <2>2. CASE c # n
    <3>1. args'[c] = args[c] /\ body'[c] = body[c] /\ args[c].expected \in Nat
      BY <1>1, <1>4, <2>2 DEF Sent, n, Asked
    <3>2. /\ IsProper(body[c])
          /\ args[c].op = "save" =>
                /\ args[c].expected \in 0 .. Current
                /\ Follows(Doc(applied, args, body, args[c].expected), body[c])
      BY <1>1, <3>1, InDocuments DEF ServerInv
    <3> QED
      BY <1>1, <1>8, <3>1, <3>2 DEF DocumentsStayed
  <2> QED
    BY <2>1, <2>2
<1> QED
  BY <1>4, <1>5, <1>7, <1>8, <1>9, <1>10 DEF ServerInv

\* A step that sends nothing.
LEMMA NoSendKeeps ==
    ASSUME ServerInv, NoSend
    PROVE  ServerInv' /\ DocumentsStayed /\ Current' = Current
<1>1. UNCHANGED <<rows, history, args, applied, answer, body, calls>>
  BY DEF NoSend, serverVars
<1>2. CallsAreFresh'
  BY <1>1 DEF ServerInv, CallsAreFresh
<1>3. SavesAreChained'
  BY <1>1 DEF ServerInv, SavesAreChained, IsSave, Current
<1>4. AnswersAreTrue'
  BY <1>1 DEF ServerInv, AnswersAreTrue, Current
<1>5. BodiesFollow'
  BY <1>1, InDocuments DEF ServerInv, Current
<1> QED
  BY <1>1, <1>2, <1>3, <1>4, <1>5 DEF ServerInv, DocumentsStayed, Current

\* The parts of the invariant about the tabs alone.
TabsInv ==
    /\ CallsSuffice /\ UpdatesInOrder /\ TasksRun /\ QueueIsLater

\* It stays true while calls, queues and tasks do.
LEMMA TabsStay ==
    ASSUME TypeOK, TabsInv, UNCHANGED <<args, calls, fetches, queue, task, outcome>>
    PROVE  TabsInv'
<1>1. CallsSuffice'
  BY DEF TabsInv, CallsSuffice, Settled, Spent
<1>2. UpdatesInOrder' /\ QueueIsLater'
  BY DEF TabsInv, UpdatesInOrder, QueueIsLater, UsedUpdates
<1>3. TasksRun'
  BY DEF TabsInv, TasksRun, IsSave
<1> QED
  BY <1>1, <1>2, <1>3 DEF TabsInv

\* The server commits a save: its body, made from the document it replaces, becomes
\* the server's document.
LEMMA ApplySafe ==
    ASSUME SyncInv, NEW c \in Calls, Store!Apply(c), UNCHANGED clientVars
    PROVE  /\ SyncInv'
           /\ ServerDocument' = body[c] /\ Follows(ServerDocument, body[c])
<1> DEFINE row == [revision |-> Current + 1, state |-> c]
<1>1. /\ TypeOK /\ ServerInv /\ TabsInv
      /\ CallsAreFresh /\ SavesAreChained /\ AnswersAreTrue /\ BodiesFollow
      /\ CacheIsCommitted /\ AttemptsHaveOrigin /\ AttemptsAreKept /\ DraftsInOrder
  BY DEF SyncInv, ServerInv, TabsInv
<1>2. /\ args \in [Calls -> Asked] /\ applied \in SUBSET Calls
      /\ rows \in [{Profile} -> Rows] /\ history \in [{Profile} -> SUBSET Rows]
      /\ Current \in Nat /\ Current + 1 \in Nat /\ args[c].profile = Profile
  BY <1>1 DEF TypeOK, Asked, Current, Rows
<1>3. /\ args[c].op = "save" /\ c \notin applied
      /\ answer[c].kind \in {"none", "failed"} /\ args[c].expected = Current
      /\ rows' = [rows EXCEPT ![Profile] = row]
      /\ applied' = applied \cup {c}
      /\ UNCHANGED <<args, answer, body, calls, cache, fetch, fetches, queue, task,
                     update, outcome>>
  BY <1>2 DEF Store!Apply, Store!Revision, clientVars, Current
<1>4. history' \in [{Profile} -> SUBSET Rows]
  <2>1. row \in Rows
    BY <1>2 DEF Rows
  <2>2. history' = [history EXCEPT ![Profile] =
                       {h \in @ \cup {row} : h.revision + 1 > row.revision}]
    BY <1>2 DEF Store!Apply, Store!Revision, Current
  <2> HIDE DEF row
  <2> QED
    BY <1>2, <2>1, <2>2
<1>5. TypeOK'
  <2>1. rows' \in [{Profile} -> Rows] /\ applied' \in SUBSET Calls
    BY <1>2, <1>3 DEF Rows
  <2> QED
    BY <1>1, <1>3, <1>4, <2>1 DEF TypeOK
<1>6. Current' = Current + 1
  BY <1>2, <1>3 DEF Current
<1>7. SavesAreChained'
  <2>1. \A d \in applied : args[d].expected \in Nat /\ args[d].expected < Current
    BY <1>1, <1>2 DEF SavesAreChained, Asked
  <2>2. \A d \in applied' : /\ args[d].op = "save" /\ args[d].expected < Current + 1
                            /\ answer[d].kind \in {"none", "failed", "saved"}
    BY <1>1, <1>2, <1>3, <2>1 DEF SavesAreChained, IsSave
  <2>3. \A d, e \in applied' : d # e => args[d].expected # args[e].expected
    BY <1>1, <1>2, <1>3, <2>1 DEF SavesAreChained
  <2>4. \A k \in 1 .. Current + 1 : \E d \in applied' : args[d].expected + 1 = k
    <3> SUFFICES ASSUME NEW k \in 1 .. Current + 1
                 PROVE  \E d \in applied' : args[d].expected + 1 = k
      OBVIOUS
    <3>1. CASE k = Current + 1
      BY <1>3, <3>1
    <3>2. CASE k # Current + 1
      <4>1. k \in 1 .. Current
        BY <1>2, <3>2
      <4> QED
        BY <1>1, <1>3, <4>1 DEF SavesAreChained
    <3> QED
      BY <3>1, <3>2
  <2> QED
    BY <1>3, <1>6, <2>2, <2>3, <2>4 DEF SavesAreChained, IsSave
<1>8. DocumentsStayed
  <2>1. /\ \A d \in applied' : args'[d].expected \in Nat
        /\ \A d, e \in applied' : d # e => args'[d].expected # args'[e].expected
        /\ \A d \in applied : args'[d] = args[d] /\ body'[d] = body[d]
        /\ applied \subseteq applied'
    BY <1>2, <1>3, <1>7 DEF Asked, SavesAreChained
  <2> QED
    BY <1>1, <2>1, DocumentsStay DEF DocumentsStayed
<1>9. CallsAreFresh'
  <2> SUFFICES ASSUME NEW d \in Calls, d[2] > calls[d[1]]
               PROVE  /\ args[d] = Unsent /\ body[d] = EmptyDoc
                      /\ answer[d] = Store!NoAnswer /\ d \notin applied'
    BY <1>3 DEF CallsAreFresh
  <2>1. /\ args[d] = Unsent /\ body[d] = EmptyDoc
        /\ answer[d] = Store!NoAnswer /\ d \notin applied
    BY <1>1 DEF CallsAreFresh
  <2>2. d # c
    BY <1>3, <2>1 DEF Unsent
  <2> QED
    BY <1>3, <2>1, <2>2
<1>10. AnswersAreTrue'
  BY <1>1, <1>2, <1>3, <1>6 DEF AnswersAreTrue, TypeOK
<1>11. BodiesFollow'
  <2> SUFFICES ASSUME NEW d \in Calls
               PROVE  /\ IsProper(body[d])
                      /\ args[d].op = "save" =>
                            /\ args[d].expected <= Current + 1
                            /\ Follows(Doc(applied', args', body', args[d].expected), body[d])
    BY <1>3, <1>6, InDocuments
  <2>1. /\ IsProper(body[d])
        /\ args[d].op = "save" =>
              /\ args[d].expected \in 0 .. Current
              /\ Follows(Doc(applied, args, body, args[d].expected), body[d])
    BY <1>1, <1>2, InDocuments DEF Asked
  <2> QED
    BY <1>2, <1>8, <2>1 DEF DocumentsStayed
<1>12. CacheIsCommitted'
  <2> SUFFICES ASSUME NEW t \in Tabs
               PROVE  /\ cache[t].revision <= Current + 1
                      /\ cache[t].doc = Doc(applied', args', body', cache[t].revision)
    BY <1>3, <1>6, InDocuments
  <2>1. cache[t].revision \in 0 .. Current
    BY <1>1, <1>2, InDocuments DEF TypeOK
  <2> QED
    BY <1>1, <1>2, <1>8, <2>1, InDocuments DEF DocumentsStayed
<1>13. TabsInv'
  BY <1>1, <1>3, TabsStay
<1>14. AttemptsHaveOrigin'
  BY <1>1, <1>3 DEF AttemptsHaveOrigin, Live
<1>15. ServerDocument' = body[c] /\ Follows(ServerDocument, body[c])
  <2>1. Doc(applied', args', body', args'[c].expected + 1) = body'[c]
    <3>1. c \in applied' /\ \A d \in applied' : args'[d].expected \in Nat
      BY <1>2, <1>3 DEF Asked
    <3>2. \A d \in applied' : c # d => args'[c].expected # args'[d].expected
      BY <1>7, <3>1 DEF SavesAreChained
    <3> QED
      BY <3>1, <3>2, DocIs
  <2> QED
    BY <1>1, <1>3, <1>6, <2>1, InDocuments
<1>16. AttemptsAreKept'
  <2>1. \A u \in Updates : Keeps(ServerDocument, u) => Keeps(ServerDocument', u)
    BY <1>15 DEF Follows
  <2>2. \A d \in applied', u \in Updates : Lists(body[d], u) => Keeps(ServerDocument', u)
    BY <1>1, <1>3, <1>15, <2>1 DEF AttemptsAreKept, Keeps
  <2>3. ResolvedEvidenceKept'
    <3>1. \A u \in Updates :
             (outcome[u] = "resolved" /\ update[u].kind = "validate") =>
                 Keeps(ServerDocument, u)
      BY <1>1 DEF AttemptsAreKept, ResolvedEvidenceKept, Keeps, Lists
    <3> QED
      BY <1>3, <2>1, <3>1 DEF ResolvedEvidenceKept, Keeps, Lists
  <2> QED
    BY <1>1, <1>3, <2>2, <2>3 DEF AttemptsAreKept, Lists
<1>17. DraftsInOrder'
  BY <1>1, <1>3 DEF DraftsInOrder, UsedUpdates
<1> QED
  BY <1>5, <1>7, <1>9, <1>10, <1>11, <1>12, <1>13, <1>14, <1>15, <1>16, <1>17
  DEF SyncInv, TabsInv

\* An answer the server may give.
IsAnswer(c, kind, revision) ==
    /\ Store!Tell(c, kind, revision)
    /\ kind \in {"saved", "conflict", "loaded", "failed"} /\ revision \in Nat
    /\ args[c].op # "none"
    /\ kind = "loaded" => revision <= Current
    /\ kind = "saved" => c \in applied /\ revision = args[c].expected + 1
    /\ c \in applied => kind \in {"saved", "failed"}

\* An answer to a call: what became of the save, or the revision now.
LEMMA AnswerSafe ==
    ASSUME SyncInv, NEW c \in Calls, NEW kind, NEW revision,
           IsAnswer(c, kind, revision), UNCHANGED clientVars
    PROVE  SyncInv'
<1>1. /\ TypeOK /\ ServerInv /\ TabsInv
      /\ CallsAreFresh /\ SavesAreChained /\ AnswersAreTrue /\ BodiesFollow
      /\ CacheIsCommitted /\ AttemptsHaveOrigin /\ AttemptsAreKept /\ DraftsInOrder
  BY DEF SyncInv, ServerInv, TabsInv
<1>2. /\ answer[c] = Store!NoAnswer
      /\ answer' = [answer EXCEPT ![c] = [kind |-> kind, revision |-> revision]]
      /\ UNCHANGED <<rows, history, args, applied, body, calls, cache, fetch, fetches,
                     queue, task, update, outcome>>
      /\ Current' = Current
  BY DEF IsAnswer, Store!Tell, clientVars, Current
<1>3. /\ answer \in [Calls -> [revision : Nat,
                     kind : {"none", "saved", "conflict", "loaded", "failed"}]]
      /\ answer[c].kind = "none"
  BY <1>1, <1>2 DEF TypeOK, Store!NoAnswer
<1>4. /\ answer'[c].kind = kind /\ answer'[c].revision = revision
      /\ \A d \in Calls : d # c => answer'[d] = answer[d]
      /\ answer' \in [Calls -> [revision : Nat,
                     kind : {"none", "saved", "conflict", "loaded", "failed"}]]
  BY <1>2, <1>3 DEF IsAnswer
<1>5. TypeOK'
  BY <1>1, <1>2, <1>4 DEF TypeOK
<1>6. CallsAreFresh'
  <2> SUFFICES ASSUME NEW d \in Calls, d[2] > calls[d[1]]
               PROVE  /\ args[d] = Unsent /\ body[d] = EmptyDoc
                      /\ answer'[d] = Store!NoAnswer /\ d \notin applied
    BY <1>2 DEF CallsAreFresh
  <2>1. /\ args[d] = Unsent /\ body[d] = EmptyDoc
        /\ answer[d] = Store!NoAnswer /\ d \notin applied
    BY <1>1 DEF CallsAreFresh
  <2>2. d # c
    BY <2>1 DEF Unsent, IsAnswer
  <2> QED
    BY <1>4, <2>1, <2>2
<1>7. SavesAreChained'
  <2>1. \A d \in applied : answer'[d].kind \in {"none", "failed", "saved"}
    BY <1>1, <1>4 DEF SavesAreChained, IsAnswer, TypeOK
  <2> QED
    BY <1>1, <1>2, <2>1 DEF SavesAreChained, IsSave
<1>8. AnswersAreTrue'
  BY <1>1, <1>2, <1>4 DEF AnswersAreTrue, IsAnswer
<1>9. BodiesFollow' /\ CacheIsCommitted' /\ ServerDocument' = ServerDocument
  BY <1>1, <1>2, InDocuments
<1>10. TabsInv'
  BY <1>1, <1>2, TabsStay
<1>11. AttemptsHaveOrigin'
  <2>1. \A d \in Calls : Live(d)' => Live(d)
    BY <1>3, <1>4 DEF Live
  <2> QED
    BY <1>1, <1>2, <2>1 DEF AttemptsHaveOrigin
<1>12. AttemptsAreKept'
  BY <1>1, <1>2, <1>9 DEF AttemptsAreKept, ResolvedEvidenceKept
<1>13. DraftsInOrder'
  BY <1>1, <1>2 DEF DraftsInOrder, UsedUpdates
<1> QED
  BY <1>5, <1>6, <1>7, <1>8, <1>9, <1>10, <1>11, <1>12, <1>13 DEF SyncInv, TabsInv

\* Whatever the server does keeps the invariant.
LEMMA ServerSafe ==
    ASSUME SyncInv, NEW c \in Calls, ServerStep(c)
    PROVE  SyncInv'
<1>1. /\ TypeOK /\ SavesAreChained /\ UNCHANGED clientVars /\ args[c].op # "none"
  BY DEF SyncInv, ServerStep
<1>2. /\ args[c].profile = Profile /\ args[c].expected \in Nat /\ Current \in Nat
      /\ Store!Revision(c) = Current
  BY <1>1 DEF TypeOK, Current, Rows, Store!Revision
<1>3. c \in applied => args[c].op = "save"
  BY <1>1 DEF SavesAreChained, IsSave
<1>4. CASE Store!Apply(c)
  BY <1>1, <1>4, ApplySafe
<1>5. CASE Store!TellSaved(c)
  <2>1. IsAnswer(c, "saved", args[c].expected + 1)
    BY <1>1, <1>2, <1>5 DEF IsAnswer, Store!TellSaved
  <2> QED
    BY <1>1, <2>1, AnswerSafe
<1>6. CASE Store!TellConflict(c)
  <2>1. IsAnswer(c, "conflict", Current)
    BY <1>1, <1>2, <1>6 DEF IsAnswer, Store!TellConflict
  <2> QED
    BY <1>1, <2>1, AnswerSafe
<1>7. CASE Store!TellLoaded(c)
  <2>1. IsAnswer(c, "loaded", Current)
    BY <1>1, <1>2, <1>3, <1>7 DEF IsAnswer, Store!TellLoaded
  <2> QED
    BY <1>1, <2>1, AnswerSafe
<1>8. CASE Store!TellFailed(c)
  <2>1. IsAnswer(c, "failed", 0)
    BY <1>1, <1>2, <1>8 DEF IsAnswer, Store!TellFailed
  <2> QED
    BY <1>1, <2>1, AnswerSafe
<1> QED
  BY <1>4, <1>5, <1>6, <1>7, <1>8 DEF ServerStep

-----------------------------------------------------------------------------
(* An update settles.                                                       *)

\* No more updates are used while no unused one changes.
LEMMA UsedStays ==
    ASSUME NEW s \in Tabs,
           \A n \in 1 .. MaxUpdates[s] :
              outcome'[<<s, n>>] = "unused" <=> outcome[<<s, n>>] = "unused"
    PROVE  UsedUpdates(s)' = UsedUpdates(s)
<1>1. {n \in 1 .. MaxUpdates[s] : outcome'[<<s, n>>] # "unused"} =
          {n \in 1 .. MaxUpdates[s] : outcome[<<s, n>>] # "unused"}
  OBVIOUS
<1> QED
  BY <1>1 DEF UsedUpdates

\* The parts of the invariant that relate attempts and drafts to the updates.
WorkInv == AttemptsHaveOrigin /\ AttemptsAreKept /\ DraftsInOrder

\* What TypeOK says of the tasks.
TasksOK ==
    /\ task \in [Tabs -> [phase : {"idle", "putting", "reloading", "refetching"},
                          update : Updates \cup {NoUpdate}, attempt : {0, 1},
                          call : Calls \cup {NoCall}]]
    /\ \A t \in Tabs : task[t].phase = "idle" <=> task[t] = Idle
    /\ outcome \in [Updates -> {"unused", "queued", "running", "resolved",
                                "failed", "raced"}]

\* Whatever the result, the queue goes on and no document changes.
LEMMA EndTaskKeeps ==
    ASSUME TypeOK, TabsInv, WorkInv, NEW t \in Tabs, task[t].phase # "idle",
           NEW result \in {"resolved", "failed", "raced"}, EndTask(t, result), NoSend,
           (result = "resolved" /\ update[task[t].update].kind = "validate") =>
               Keeps(ServerDocument, task[t].update)
    PROVE  TabsInv' /\ WorkInv' /\ TasksOK'
<1> DEFINE u == task[t].update
           n == u[2]
<1>1. /\ u \in Updates /\ u[1] = t /\ outcome[u] = "running"
      /\ n \in 1 .. MaxUpdates[t] /\ u = <<t, n>>
  BY UpdatesArePairs DEF TabsInv, TasksRun
<1> HIDE DEF u, n
<1>2. /\ task' = [task EXCEPT ![t] = Idle]
      /\ outcome' = [outcome EXCEPT ![u] = result]
      /\ UNCHANGED <<rows, history, args, applied, answer, body, calls, queue, update,
                     fetches>>
  BY DEF EndTask, NoSend, serverVars, u
<1>3. TasksOK /\ queue \in [Tabs -> Seq(Updates)]
  BY DEF TypeOK, TasksOK
<1>4. /\ task'[t] = Idle /\ \A s \in Tabs : s # t => task'[s] = task[s]
      /\ outcome'[u] = result /\ \A v \in Updates : v # u => outcome'[v] = outcome[v]
  BY <1>1, <1>2, <1>3 DEF TasksOK
<1>5. Idle.phase = "idle"
  BY DEF Idle
<1>6. \A s \in Tabs : UsedUpdates(s)' = UsedUpdates(s)
  <2> SUFFICES ASSUME NEW s \in Tabs PROVE UsedUpdates(s)' = UsedUpdates(s)
    OBVIOUS
  <2>1. \A m \in 1 .. MaxUpdates[s] :
            outcome'[<<s, m>>] = "unused" <=> outcome[<<s, m>>] = "unused"
    BY <1>1, <1>4, UpdatesArePairs
  <2> QED
    BY <2>1, UsedStays
<1>7. CallsSuffice'
  <2> SUFFICES ASSUME NEW s \in Tabs
               PROVE  calls[s] <= fetches[s] + 4 * Cardinality(Settled(s)') + Spent(s)'
    BY <1>2 DEF TabsInv, CallsSuffice
  <2>1. /\ Settled(s) \in SUBSET (1 .. MaxUpdates[s]) /\ MaxUpdates[s] \in Nat
        /\ calls[s] \in Nat /\ fetches[s] \in Nat
        /\ calls[s] <= fetches[s] + 4 * Cardinality(Settled(s)) + Spent(s)
    BY BoundsAssumption DEF Settled, TabsInv, CallsSuffice, TypeOK
  <2>2. CASE s = t
    <3>1. Settled(t)' = Settled(t) \cup {n} /\ n \notin Settled(t)
      BY <1>1, <1>4, UpdatesArePairs DEF Settled
    <3>2. Cardinality(Settled(t)) \in Nat
          /\ Cardinality(Settled(t)') = Cardinality(Settled(t)) + 1
      BY <1>1, <2>1, <2>2, <3>1, NumbersUpTo
    <3>3. Spent(t) \in 0 .. 4 /\ Spent(t)' = 0
      BY <1>3, <1>4, <1>5 DEF Spent, TasksOK
    <3> QED
      BY <2>1, <2>2, <3>2, <3>3
  <2>3. CASE s # t
    <3>1. Settled(s)' = Settled(s)
      BY <1>1, <1>4, <2>3, UpdatesArePairs DEF Settled
    <3>2. Spent(s)' = Spent(s)
      BY <1>4, <2>3 DEF Spent
    <3> QED
      BY <2>1, <3>1, <3>2
  <2> QED
    BY <2>2, <2>3
<1>8. UpdatesInOrder'
  <2> SUFFICES ASSUME NEW s \in Tabs
               PROVE  /\ \A m \in 1 .. MaxUpdates[s] :
                            outcome'[<<s, m>>] # "unused" <=> m <= UsedUpdates(s)
                      /\ \A i \in 1 .. Len(queue[s]) :
                            queue[s][i][1] = s /\ outcome'[queue[s][i]] = "queued"
                      /\ \A i, j \in 1 .. Len(queue[s]) :
                            i < j => queue[s][i][2] < queue[s][j][2]
    BY <1>2, <1>6 DEF UpdatesInOrder
  <2>1. \A i \in 1 .. Len(queue[s]) : queue[s][i] \in Updates
    BY <1>3, ElementOfSeq
  <2> QED
    BY <1>1, <1>4, <2>1, UpdatesArePairs DEF TabsInv, UpdatesInOrder
<1>9. TasksRun'
  BY <1>1, <1>2, <1>4, <1>5 DEF TabsInv, TasksRun, IsSave
<1>10. QueueIsLater'
  BY <1>2, <1>4, <1>5 DEF TabsInv, QueueIsLater
<1>11. AttemptsHaveOrigin'
  <2> SUFFICES ASSUME NEW c \in Calls, NEW v \in Updates, Live(c), Lists(body[c], v)
               PROVE  /\ outcome'[v] \notin {"unused", "queued"}
                      /\ task'[v[1]].update = v =>
                            /\ task'[v[1]].phase # "reloading"
                            /\ task'[v[1]].phase = "putting" =>
                                  c = task'[v[1]].call \/ task'[v[1]].call \in applied
    BY <1>2 DEF AttemptsHaveOrigin, Live
  <2>1. v[1] \in Tabs
    BY UpdatesArePairs
  <2> QED
    BY <1>1, <1>4, <1>5, <2>1 DEF WorkInv, AttemptsHaveOrigin
<1>12. AttemptsAreKept'
  <2>1. \A s \in Tabs :
          (task'[s].phase = "putting" /\ update[task'[s].update].kind = "validate") =>
              Lists(body[task'[s].call], task'[s].update)
    BY <1>4, <1>5 DEF WorkInv, AttemptsAreKept
  <2>2. ServerDocument' = ServerDocument
    BY <1>2, InDocuments DEF Current
  <2>3. \A v \in Updates : (outcome'[v] = "resolved" /\ update[v].kind = "validate") =>
            Keeps(ServerDocument, v)
    BY <1>4 DEF WorkInv, AttemptsAreKept, ResolvedEvidenceKept, Keeps, Lists, u
  <2>4. ResolvedEvidenceKept'
    BY <1>2, <2>2, <2>3 DEF ResolvedEvidenceKept, Keeps, Lists
  <2> QED
    BY <1>2, <2>1, <2>2, <2>4 DEF WorkInv, AttemptsAreKept
<1>13. DraftsInOrder'
  BY <1>2, <1>4, <1>5, <1>6 DEF WorkInv, DraftsInOrder
<1>14. TasksOK'
  BY <1>2, <1>3, <1>4 DEF Idle, TasksOK
<1> QED
  BY <1>7, <1>8, <1>9, <1>10, <1>11, <1>12, <1>13, <1>14 DEF TabsInv, WorkInv

\* A fetch ends, and with it the raced save that waits for it, if one does.
LEMMA AfterFetchKeeps ==
    ASSUME TypeOK, TabsInv, WorkInv, NEW t \in Tabs, AfterFetch(t), NoSend
    PROVE  TabsInv' /\ WorkInv' /\ TasksOK' /\ UNCHANGED <<fetches, queue, update>>
<1>1. UNCHANGED <<rows, history, args, applied, answer, body, calls>>
  BY DEF NoSend, serverVars
<1>2. CASE task[t].phase = "refetching"
  <2>1. EndTask(t, "raced") /\ UNCHANGED <<fetches, queue, update>>
    BY <1>2 DEF AfterFetch, EndTask
  <2> QED
    BY <1>2, <2>1, EndTaskKeeps
<1>3. CASE task[t].phase # "refetching"
  <2>1. UNCHANGED <<fetches, queue, task, update, outcome>>
    BY <1>3 DEF AfterFetch
  <2>2. TabsInv'
    BY <1>1, <2>1, TabsStay
  <2>3. ServerDocument' = ServerDocument
    BY <1>1, InDocuments DEF Current
  <2>4. AttemptsHaveOrigin' /\ DraftsInOrder'
    BY <1>1, <2>1 DEF WorkInv, AttemptsHaveOrigin, Live, DraftsInOrder, UsedUpdates
  <2>5. AttemptsAreKept'
    BY <1>1, <2>1, <2>3 DEF WorkInv, AttemptsAreKept, ResolvedEvidenceKept
  <2>6. TasksOK'
    BY <2>1 DEF TypeOK, TasksOK
  <2> QED
    BY <2>1, <2>2, <2>4, <2>5, <2>6 DEF WorkInv
<1> QED
  BY <1>2, <1>3

\* What a tab may keep of the server's documents.
IsCommitted(r) ==
    /\ r \in [status : {"pending", "success", "error"}, revision : Nat, doc : Docs]
    /\ r.revision <= Current /\ r.doc = Doc(applied, args, body, r.revision)

\* A step that sends nothing and puts such a record into the cache.
LEMMA CacheStepSafe ==
    ASSUME SyncInv, NoSend, TabsInv', WorkInv', TasksOK',
           UNCHANGED <<fetches, queue, update>>,
           fetch' \in [Tabs -> Calls \cup {NoCall}],
           NEW t \in Tabs, NEW r, IsCommitted(r), cache' = [cache EXCEPT ![t] = r]
    PROVE  SyncInv'
<1>1. /\ TypeOK /\ ServerInv /\ CacheIsCommitted
  BY DEF SyncInv, ServerInv
<1>2. ServerInv' /\ UNCHANGED <<rows, history, args, applied, answer, body, calls>>
  BY <1>1, NoSendKeeps DEF NoSend, serverVars
<1>3. cache' \in [Tabs -> [status : {"pending", "success", "error"},
                         revision : Nat, doc : Docs]]
  BY <1>1 DEF TypeOK, IsCommitted
<1>4. TypeOK'
  BY <1>1, <1>2, <1>3 DEF TypeOK, TasksOK
<1>5. CacheIsCommitted'
  <2> SUFFICES ASSUME NEW s \in Tabs
               PROVE  /\ cache'[s].revision <= Current
                      /\ cache'[s].doc = Doc(applied, args, body, cache'[s].revision)
    BY <1>2, InDocuments DEF Current
  <2>1. cache'[s] = IF s = t THEN r ELSE cache[s]
    BY <1>1 DEF TypeOK
  <2> QED
    BY <1>1, <2>1, InDocuments DEF IsCommitted
<1> QED
  BY <1>2, <1>4, <1>5 DEF SyncInv, ServerInv, TabsInv, WorkInv

\* The record a tab loads is one the server held.
LEMMA LoadedIsCommitted ==
    ASSUME TypeOK, ServerInv, NEW k \in 0 .. Current
    PROVE  IsCommitted(Loaded(k, DocumentAt(k)))
<1>1. IsProper(DocumentAt(k)) /\ k \in Nat
  BY DocumentIsProper DEF ServerInv
<1>2. DocumentAt(k) = Doc(applied, args, body, k)
  BY DEF DocumentAt, Doc
<1> HIDE DEF DocumentAt
<1> QED
  BY <1>1, <1>2 DEF IsCommitted, Loaded, IsProper

\* A GET that was answered: the cache takes the answer or keeps a newer document.
LEMMA FetchDoneSafe ==
    ASSUME SyncInv, NEW t \in Tabs, FetchDone(t)
    PROVE  SyncInv'
<1> DEFINE k == answer[fetch[t]].revision
<1>1. TypeOK /\ ServerInv /\ TabsInv /\ WorkInv
  BY DEF SyncInv, ServerInv, TabsInv, WorkInv
<1>2. fetch[t] \in Calls /\ answer[fetch[t]].kind = "loaded" /\ Current \in Nat
  BY <1>1 DEF FetchDone, TypeOK, Current, Rows
<1>3. k \in 0 .. Current
  BY <1>1, <1>2 DEF ServerInv, AnswersAreTrue, TypeOK
<1>4. /\ cache' = [cache EXCEPT ![t] = Loaded(k, DocumentAt(k))]
      /\ fetch' = [fetch EXCEPT ![t] = NoCall] /\ AfterFetch(t) /\ NoSend
  BY DEF FetchDone
<1> HIDE DEF k
<1>5. IsCommitted(Loaded(k, DocumentAt(k)))
  BY <1>1, <1>3, LoadedIsCommitted
<1>6. fetch' \in [Tabs -> Calls \cup {NoCall}]
  BY <1>1, <1>4 DEF TypeOK
<1>7. TabsInv' /\ WorkInv' /\ TasksOK' /\ UNCHANGED <<fetches, queue, update>>
  BY <1>1, <1>4, AfterFetchKeeps
<1> QED
  BY <1>4, <1>5, <1>6, <1>7, CacheStepSafe

\* A GET that failed leaves the cache as it was.
LEMMA FetchFailsSafe ==
    ASSUME SyncInv, NEW t \in Tabs, FetchFails(t)
    PROVE  SyncInv'
<1> DEFINE r == [cache[t] EXCEPT !.status = "error"]
<1>1. TypeOK /\ ServerInv /\ TabsInv /\ WorkInv /\ CacheIsCommitted
  BY DEF SyncInv, ServerInv, TabsInv, WorkInv
<1>2. /\ cache' = [cache EXCEPT ![t] = r]
      /\ fetch' = [fetch EXCEPT ![t] = NoCall] /\ AfterFetch(t) /\ NoSend
  BY DEF FetchFails
<1>3. IsCommitted(r)
  BY <1>1, InDocuments DEF IsCommitted, TypeOK
<1>4. fetch' \in [Tabs -> Calls \cup {NoCall}]
  BY <1>1, <1>2 DEF TypeOK
<1>5. TabsInv' /\ WorkInv' /\ TasksOK' /\ UNCHANGED <<fetches, queue, update>>
  BY <1>1, <1>2, AfterFetchKeeps
<1> HIDE DEF r
<1> QED
  BY <1>2, <1>3, <1>4, <1>5, CacheStepSafe

\* A PUT that was confirmed: the cache holds its document and the update resolves.
LEMMA PutSavedSafe ==
    ASSUME SyncInv, NEW t \in Tabs, PutSaved(t)
    PROVE  SyncInv'
<1> DEFINE c == task[t].call
           r == SavedRecord(c)
<1>1. TypeOK /\ ServerInv /\ TabsInv /\ WorkInv
  BY DEF SyncInv, ServerInv, TabsInv, WorkInv
<1>2. /\ cache' = [cache EXCEPT ![t] = r] /\ UNCHANGED fetch
      /\ EndTask(t, "resolved") /\ NoSend /\ task[t].phase = "putting"
      /\ answer[c].kind = "saved"
  BY DEF PutSaved
<1>3. c \in Calls /\ c \in applied /\ answer[c].revision = args[c].expected + 1
  BY <1>1, <1>2 DEF TabsInv, TasksRun, ServerInv, AnswersAreTrue
<1> HIDE DEF c
<1>4. /\ args[c].expected \in Nat /\ args[c].expected < Current /\ Current \in Nat
      /\ body[c] \in Docs /\ body[c] = DocumentAt(args[c].expected + 1)
  BY <1>1, <1>3, DocumentIs DEF TypeOK, ServerInv, SavesAreChained, Current, Rows
<1>5. IsCommitted(r)
  <2>1. DocumentAt(args[c].expected + 1) = Doc(applied, args, body, args[c].expected + 1)
    BY DEF DocumentAt, Doc
  <2> HIDE DEF DocumentAt
  <2> QED
    BY <1>3, <1>4, <2>1 DEF SavedRecord, Loaded, IsCommitted
<1>6. Keeps(ServerDocument, task[t].update)
         \/ update[task[t].update].kind # "validate"
  <2>1. task[t].update \in Updates
    BY <1>1, <1>2 DEF TabsInv, TasksRun
  <2> QED
    BY <1>1, <1>2, <1>3, <2>1 DEF WorkInv, AttemptsAreKept, c
<1>7. fetch' \in [Tabs -> Calls \cup {NoCall}]
  BY <1>1, <1>2 DEF TypeOK
<1>8. TabsInv' /\ WorkInv' /\ TasksOK'
  BY <1>1, <1>2, <1>6, EndTaskKeeps
<1>9. UNCHANGED <<fetches, queue, update>>
  BY <1>2 DEF EndTask
<1> HIDE DEF r
<1> QED
  BY <1>2, <1>5, <1>7, <1>8, <1>9, CacheStepSafe

\* A PUT, or the reload after its conflict, that failed for good.
LEMMA CallFailsSafe ==
    ASSUME SyncInv, NEW t \in Tabs, CallFails(t)
    PROVE  SyncInv'
<1>1. TypeOK /\ ServerInv /\ TabsInv /\ WorkInv /\ CacheIsCommitted
  BY DEF SyncInv, ServerInv, TabsInv, WorkInv
<1>2. /\ EndTask(t, "failed") /\ NoSend /\ UNCHANGED <<cache, fetch>>
      /\ task[t].phase \in {"putting", "reloading"}
  BY DEF CallFails
<1>3. TabsInv' /\ WorkInv' /\ TasksOK'
  BY <1>1, <1>2, EndTaskKeeps
<1>4. UNCHANGED <<fetches, queue, update>>
  BY <1>2 DEF EndTask
<1>5. IsCommitted(cache[t]) /\ cache' = [cache EXCEPT ![t] = cache[t]]
  BY <1>1, <1>2, InDocuments DEF IsCommitted, TypeOK
<1>6. fetch' \in [Tabs -> Calls \cup {NoCall}]
  BY <1>1, <1>2 DEF TypeOK
<1> QED
  BY <1>2, <1>3, <1>4, <1>5, <1>6, CacheStepSafe

-----------------------------------------------------------------------------
(* An update is queued.                                                     *)

\* The numbers used so far.
LEMMA UsedIsNat ==
    ASSUME NEW s \in Tabs
    PROVE  UsedUpdates(s) \in Nat
<1>1. MaxUpdates[s] \in Nat
  BY BoundsAssumption
<1>2. {n \in 1 .. MaxUpdates[s] : outcome[<<s, n>>] # "unused"}
          \in SUBSET (1 .. MaxUpdates[s])
  OBVIOUS
<1> QED
  BY <1>1, <1>2, NumbersUpTo DEF UsedUpdates

\* The user's next update joins the queue.
LEMMA EnqueueSafe ==
    ASSUME SyncInv, NEW t \in Tabs, NEW what \in Kinds, Enqueue(t, what)
    PROVE  SyncInv'
<1> DEFINE used == UsedUpdates(t)
           u == <<t, used + 1>>
<1>1. /\ TypeOK /\ ServerInv /\ TabsInv /\ WorkInv /\ CacheIsCommitted
  BY DEF SyncInv, ServerInv, TabsInv, WorkInv
<1>2. /\ NoSend /\ used < MaxUpdates[t]
      /\ update' = [update EXCEPT ![u] = what]
      /\ outcome' = [outcome EXCEPT ![u] = "queued"]
      /\ queue' = [queue EXCEPT ![t] = Append(@, u)]
      /\ UNCHANGED <<cache, fetch, fetches, task>>
  BY DEF Enqueue, Queued
<1>3. ServerInv' /\ UNCHANGED <<rows, history, args, applied, answer, body, calls>>
  BY <1>1, <1>2, NoSendKeeps DEF NoSend, serverVars
<1>4. used \in Nat /\ used + 1 \in 1 .. MaxUpdates[t]
  BY <1>2, UsedIsNat, BoundsAssumption
<1>5. u \in Updates /\ u[1] = t /\ u[2] = used + 1
  BY <1>4, UpdatesArePairs
<1>6. outcome[u] = "unused"
  BY <1>1, <1>4 DEF TabsInv, UpdatesInOrder
<1>7. /\ queue \in [Tabs -> Seq(Updates)]
      /\ update \in [Updates -> Kinds]
      /\ TasksOK
  BY <1>1 DEF TypeOK, TasksOK
<1>8. /\ update'[u] = what /\ \A v \in Updates : v # u => update'[v] = update[v]
      /\ outcome'[u] = "queued" /\ \A v \in Updates : v # u => outcome'[v] = outcome[v]
      /\ update' \in [Updates -> Kinds]
      /\ TasksOK'
  BY <1>2, <1>5, <1>7 DEF TasksOK
<1>9. \A s \in Tabs : UsedUpdates(s)' = IF s = t THEN used + 1 ELSE UsedUpdates(s)
  <2> SUFFICES ASSUME NEW s \in Tabs
               PROVE  UsedUpdates(s)' = IF s = t THEN used + 1 ELSE UsedUpdates(s)
    OBVIOUS
  <2>1. CASE s = t
    <3> DEFINE S == {n \in 1 .. MaxUpdates[t] : outcome[<<t, n>>] # "unused"}
    <3>1. S \in SUBSET (1 .. MaxUpdates[t]) /\ MaxUpdates[t] \in Nat
      BY BoundsAssumption
    <3>2. used + 1 \in (1 .. MaxUpdates[t]) \ S
      BY <1>4, <1>6
    <3>3. {n \in 1 .. MaxUpdates[t] : outcome'[<<t, n>>] # "unused"} = S \cup {used + 1}
      BY <1>4, <1>5, <1>8, UpdatesArePairs
    <3>4. used = Cardinality(S)
      BY DEF UsedUpdates
    <3>5. UsedUpdates(t)' = Cardinality(S \cup {used + 1})
      BY <3>3 DEF UsedUpdates
    <3> HIDE DEF S, used
    <3>6. Cardinality(S \cup {used + 1}) = Cardinality(S) + 1
      BY <3>1, <3>2, NumbersUpTo
    <3> QED
      BY <2>1, <3>4, <3>5, <3>6
  <2>2. CASE s # t
    <3>1. \A n \in 1 .. MaxUpdates[s] :
            outcome'[<<s, n>>] = "unused" <=> outcome[<<s, n>>] = "unused"
      BY <1>5, <1>8, <2>2, UpdatesArePairs
    <3> QED
      BY <2>2, <3>1, UsedStays
  <2> QED
    BY <2>1, <2>2
<1> HIDE DEF used, u
<1>10. /\ queue' \in [Tabs -> Seq(Updates)]
       /\ \A s \in Tabs : s # t => queue'[s] = queue[s]
       /\ Len(queue'[t]) = Len(queue[t]) + 1 /\ Len(queue[t]) \in Nat
       /\ \A i \in 1 .. Len(queue'[t]) :
             queue'[t][i] = IF i <= Len(queue[t]) THEN queue[t][i] ELSE u
  <2>1. queue'[t] = Append(queue[t], u) /\ \A s \in Tabs : s # t => queue'[s] = queue[s]
    BY <1>2, <1>7
  <2>2. /\ Append(queue[t], u) \in Seq(Updates)
        /\ Len(Append(queue[t], u)) = Len(queue[t]) + 1 /\ Len(queue[t]) \in Nat
        /\ \A i \in 1 .. Len(queue[t]) : Append(queue[t], u)[i] = queue[t][i]
        /\ Append(queue[t], u)[Len(queue[t]) + 1] = u
    BY <1>5, <1>7, AppendProperties, LenProperties
  <2>3. queue' \in [Tabs -> Seq(Updates)]
    BY <1>2, <1>7, <2>2
  <2>4. \A i \in 1 .. Len(queue'[t]) :
             queue'[t][i] = IF i <= Len(queue[t]) THEN queue[t][i] ELSE u
    BY <2>1, <2>2
  <2> QED
    BY <2>1, <2>2, <2>3, <2>4
<1>11. \A s \in Tabs : \A i \in 1 .. Len(queue[s]) :
           /\ queue[s][i] \in Updates /\ queue[s][i][1] = s
           /\ outcome[queue[s][i]] = "queued" /\ queue[s][i] # u
           /\ queue[s][i][2] \in Nat /\ queue[s][i][2] <= UsedUpdates(s)
  <2> SUFFICES ASSUME NEW s \in Tabs, NEW i \in 1 .. Len(queue[s])
               PROVE  /\ queue[s][i] \in Updates /\ queue[s][i][1] = s
                      /\ outcome[queue[s][i]] = "queued" /\ queue[s][i] # u
                      /\ queue[s][i][2] \in Nat /\ queue[s][i][2] <= UsedUpdates(s)
    OBVIOUS
  <2>1. queue[s][i] \in Updates
    BY <1>7, ElementOfSeq
  <2>2. queue[s][i][1] = s /\ outcome[queue[s][i]] = "queued"
    BY <1>1 DEF TabsInv, UpdatesInOrder
  <2> QED
    BY <1>1, <1>6, <2>1, <2>2, UpdatesArePairs DEF TabsInv, UpdatesInOrder
<1>12. \A s \in Tabs : task[s].phase # "idle" =>
           /\ task[s].update \in Updates /\ task[s].update # u
           /\ task[s].update[1] = s /\ outcome[task[s].update] = "running"
           /\ task[s].update[2] \in Nat /\ task[s].update[2] <= UsedUpdates(s)
  BY <1>1, <1>6, UpdatesArePairs DEF TabsInv, TasksRun, UpdatesInOrder
<1>13. TypeOK'
  BY <1>1, <1>2, <1>3, <1>8, <1>10 DEF TypeOK, TasksOK
<1>14. CallsSuffice'
  <2> SUFFICES ASSUME NEW s \in Tabs
               PROVE  calls[s] <= fetches[s] + 4 * Cardinality(Settled(s)') + Spent(s)'
    BY <1>1, <1>2, <1>3 DEF TabsInv, CallsSuffice
  <2>1. Settled(s)' = Settled(s)
    BY <1>5, <1>6, <1>8, UpdatesArePairs DEF Settled
  <2>2. Spent(s)' = Spent(s)
    BY <1>2 DEF Spent
  <2> QED
    BY <1>1, <2>1, <2>2 DEF TabsInv, CallsSuffice
<1>15. UpdatesInOrder'
  <2> SUFFICES ASSUME NEW s \in Tabs
               PROVE  /\ \A n \in 1 .. MaxUpdates[s] :
                            outcome'[<<s, n>>] # "unused" <=> n <= UsedUpdates(s)'
                      /\ \A i \in 1 .. Len(queue'[s]) :
                            queue'[s][i][1] = s /\ outcome'[queue'[s][i]] = "queued"
                      /\ \A i, j \in 1 .. Len(queue'[s]) :
                            i < j => queue'[s][i][2] < queue'[s][j][2]
    BY DEF UpdatesInOrder
  <2>1. ASSUME NEW n \in 1 .. MaxUpdates[s]
        PROVE  outcome'[<<s, n>>] # "unused" <=> n <= UsedUpdates(s)'
    <3>1. /\ outcome[<<s, n>>] # "unused" <=> n <= UsedUpdates(s)
          /\ <<s, n>> \in Updates /\ n \in Nat
      BY <1>1, UpdatesArePairs DEF TabsInv, UpdatesInOrder
    <3>2. CASE <<s, n>> = u
      <4>1. s = t /\ n = used + 1
        BY <1>5, <3>2, UpdatesArePairs
      <4> QED
        BY <1>4, <1>8, <1>9, <3>2, <4>1
    <3>3. CASE <<s, n>> # u
      <4>1. s = t => n # used + 1
        BY <3>3 DEF u
      <4>2. outcome'[<<s, n>>] = outcome[<<s, n>>]
        BY <1>8, <3>1, <3>3
      <4> QED
        BY <1>4, <1>9, <3>1, <4>1, <4>2 DEF used
    <3> QED
      BY <3>2, <3>3
  <2>2. \A i \in 1 .. Len(queue'[s]) :
            queue'[s][i][1] = s /\ outcome'[queue'[s][i]] = "queued"
    BY <1>5, <1>8, <1>10, <1>11
  <2>3. \A i, j \in 1 .. Len(queue'[s]) : i < j => queue'[s][i][2] < queue'[s][j][2]
    <3>1. CASE s = t
      <4> SUFFICES ASSUME NEW i \in 1 .. Len(queue'[t]), NEW j \in 1 .. Len(queue'[t]), i < j
                   PROVE  queue'[t][i][2] < queue'[t][j][2]
        BY <3>1
      <4>1. i \in 1 .. Len(queue[t]) /\ queue'[t][i] = queue[t][i]
        BY <1>10
      <4>2. CASE j <= Len(queue[t])
        BY <1>1, <1>10, <4>1, <4>2 DEF TabsInv, UpdatesInOrder
      <4>3. CASE ~(j <= Len(queue[t]))
        <5>1. queue'[t][j] = u
          BY <1>10, <4>3
        <5>2. queue[t][i][2] \in Nat /\ queue[t][i][2] <= used
          BY <1>11, <4>1 DEF used
        <5> QED
          BY <1>4, <1>5, <4>1, <5>1, <5>2
      <4> QED
        BY <4>2, <4>3
    <3>2. CASE s # t
      BY <1>1, <1>10, <3>2 DEF TabsInv, UpdatesInOrder
    <3> QED
      BY <3>1, <3>2
  <2> QED
    BY <2>1, <2>2, <2>3
<1>16. TasksRun'
  BY <1>1, <1>2, <1>3, <1>8, <1>12 DEF TabsInv, TasksRun, IsSave
<1>17. QueueIsLater'
  <2> SUFFICES ASSUME NEW s \in Tabs, task[s].phase # "idle", NEW i \in 1 .. Len(queue'[s])
               PROVE  task[s].update[2] < queue'[s][i][2]
    BY <1>2 DEF QueueIsLater
  <2>1. CASE s = t /\ ~(i <= Len(queue[t]))
    <3>1. task[t].update[2] \in Nat /\ task[t].update[2] <= used
      BY <1>12, <2>1 DEF used
    <3> QED
      BY <1>4, <1>5, <1>10, <2>1, <3>1
  <2>2. CASE ~(s = t /\ ~(i <= Len(queue[t])))
    BY <1>1, <1>10, <2>2 DEF TabsInv, QueueIsLater
  <2> QED
    BY <2>1, <2>2
<1>18. AttemptsHaveOrigin'
  BY <1>1, <1>2, <1>3, <1>6, <1>8 DEF WorkInv, AttemptsHaveOrigin, Live
<1>19. AttemptsAreKept'
  <2>1. ServerDocument' = ServerDocument
    BY <1>3, InDocuments DEF Current
  <2>2. \A s \in Tabs :
          (task[s].phase = "putting" /\ update'[task[s].update].kind = "validate") =>
              Lists(body[task[s].call], task[s].update)
    BY <1>1, <1>8, <1>12 DEF WorkInv, AttemptsAreKept
  <2>3. ResolvedEvidenceKept'
    <3>1. \A v \in Updates :
             (outcome'[v] = "resolved" /\ update'[v].kind = "validate") =>
                 Keeps(ServerDocument, v)
      BY <1>1, <1>8 DEF WorkInv, AttemptsAreKept, ResolvedEvidenceKept, Keeps, Lists
    <3> QED
      BY <2>1, <3>1 DEF ResolvedEvidenceKept, Keeps, Lists
  <2> QED
    BY <1>1, <1>2, <1>3, <2>1, <2>2, <2>3 DEF WorkInv, AttemptsAreKept
<1>20. DraftsInOrder'
  <2> SUFFICES ASSUME NEW c \in Calls, NEW s \in Tabs
               PROVE  /\ body[c].drafts[s] <= UsedUpdates(s)'
                      /\ task[s].phase # "idle" => body[c].drafts[s] <= task[s].update[2]
                      /\ \A i \in 1 .. Len(queue'[s]) : body[c].drafts[s] < queue'[s][i][2]
    BY <1>2, <1>3 DEF DraftsInOrder
  <2>1. /\ body[c].drafts[s] \in Nat /\ UsedUpdates(s) \in Nat
        /\ body[c].drafts[s] <= UsedUpdates(s)
        /\ task[s].phase # "idle" => body[c].drafts[s] <= task[s].update[2]
        /\ \A i \in 1 .. Len(queue[s]) : body[c].drafts[s] < queue[s][i][2]
    <3>1. body[c] \in Docs
      BY <1>1 DEF TypeOK
    <3>2. body[c].drafts[s] \in Nat
      BY <3>1 DEF Docs
    <3>3. /\ body[c].drafts[s] <= UsedUpdates(s)
          /\ task[s].phase # "idle" => body[c].drafts[s] <= task[s].update[2]
          /\ \A i \in 1 .. Len(queue[s]) : body[c].drafts[s] < queue[s][i][2]
      BY <1>1 DEF WorkInv, DraftsInOrder
    <3> QED
      BY <3>2, <3>3, UsedIsNat
  <2>2. body[c].drafts[s] <= UsedUpdates(s)'
    BY <1>4, <1>9, <2>1 DEF used
  <2>3. ASSUME NEW i \in 1 .. Len(queue'[s]) PROVE body[c].drafts[s] < queue'[s][i][2]
    <3>1. CASE s = t /\ ~(i <= Len(queue[t]))
      BY <1>4, <1>5, <1>10, <2>1, <3>1 DEF used
    <3>2. CASE ~(s = t /\ ~(i <= Len(queue[t])))
      BY <1>10, <2>1, <3>2
    <3> QED
      BY <3>1, <3>2
  <2> QED
    BY <2>1, <2>2, <2>3
<1>21. CacheIsCommitted'
  BY <1>1, <1>2, <1>3, InDocuments DEF Current
<1> QED
  BY <1>3, <1>13, <1>14, <1>15, <1>16, <1>17, <1>18, <1>19, <1>20, <1>21
  DEF SyncInv, ServerInv

-----------------------------------------------------------------------------
(* Steps that send a call.                                                  *)

\* What waits and what runs.
LEMMA WhatWaitsAndRuns ==
    ASSUME TypeOK, TabsInv, NEW s \in Tabs
    PROVE  /\ \A i \in 1 .. Len(queue[s]) :
                 /\ queue[s][i] \in Updates /\ queue[s][i][1] = s
                 /\ outcome[queue[s][i]] = "queued"
                 /\ queue[s][i][2] \in Nat /\ queue[s][i][2] > 0
                 /\ queue[s][i][2] <= UsedUpdates(s)
           /\ task[s].phase # "idle" =>
                 /\ task[s].update \in Updates /\ task[s].update[1] = s
                 /\ outcome[task[s].update] = "running" /\ task[s].call \in Calls
                 /\ task[s].update[2] \in Nat /\ task[s].update[2] > 0
                 /\ task[s].update[2] <= UsedUpdates(s)
<1>1. \A u \in Updates : u[2] \in Nat /\ u[2] > 0 /\ u[2] \in 1 .. MaxUpdates[u[1]]
  BY UpdatesArePairs, BoundsAssumption
<1>2. ASSUME NEW i \in 1 .. Len(queue[s])
      PROVE  /\ queue[s][i] \in Updates /\ queue[s][i][1] = s
             /\ outcome[queue[s][i]] = "queued"
             /\ queue[s][i][2] \in Nat /\ queue[s][i][2] > 0
             /\ queue[s][i][2] <= UsedUpdates(s)
  <2>1. queue[s][i] \in Updates
    BY ElementOfSeq DEF TypeOK
  <2>2. queue[s][i][1] = s /\ outcome[queue[s][i]] = "queued"
    BY DEF TabsInv, UpdatesInOrder
  <2> QED
    BY <1>1, <2>1, <2>2, UpdatesArePairs DEF TabsInv, UpdatesInOrder
<1>3. ASSUME task[s].phase # "idle"
      PROVE  /\ task[s].update \in Updates /\ task[s].update[1] = s
             /\ outcome[task[s].update] = "running" /\ task[s].call \in Calls
             /\ task[s].update[2] \in Nat /\ task[s].update[2] > 0
             /\ task[s].update[2] <= UsedUpdates(s)
  <2>1. /\ task[s].update \in Updates /\ task[s].update[1] = s
        /\ outcome[task[s].update] = "running" /\ task[s].call \in Calls
    BY <1>3 DEF TabsInv, TasksRun
  <2> QED
    BY <1>1, <2>1, UpdatesArePairs DEF TabsInv, UpdatesInOrder
<1> QED
  BY <1>2, <1>3

\* What a call that is sent leaves alone.
LEMMA SentKeeps ==
    ASSUME SyncInv, NEW t \in Tabs, NEW request, NEW doc,
           NextCall(t) \in Calls, IsRequest(request, doc), SendCall(t, request, doc),
           UNCHANGED cache
    PROVE  /\ Sent(t, request, doc) /\ ServerInv' /\ CacheIsCommitted'
           /\ ServerDocument' = ServerDocument /\ Current' = Current
           /\ \A s \in Tabs : task[s].phase = "putting" =>
                 /\ task[s].call # NextCall(t)
                 /\ args'[task[s].call].op = "save"
                 /\ body'[task[s].call] = body[task[s].call]
<1>1. TypeOK /\ ServerInv /\ TabsInv /\ CacheIsCommitted /\ Current \in Nat
  BY DEF SyncInv, ServerInv, TabsInv, TypeOK, Current, Rows
<1>2. Sent(t, request, doc) /\ ServerInv' /\ DocumentsStayed
  BY <1>1, SendKeeps
<1>3. Current' = Current /\ applied' = applied
  BY <1>2 DEF Sent, Current
<1>4. CacheIsCommitted'
  <2> SUFFICES ASSUME NEW s \in Tabs
               PROVE  /\ cache[s].revision <= Current
                      /\ cache[s].doc = Doc(applied', args', body', cache[s].revision)
    BY <1>3, InDocuments
  <2>1. cache[s].revision \in 0 .. Current
    BY <1>1, InDocuments DEF TypeOK
  <2> QED
    BY <1>1, <1>2, <2>1, InDocuments DEF DocumentsStayed
<1>5. ServerDocument' = ServerDocument
  BY <1>1, <1>2, <1>3, InDocuments DEF DocumentsStayed
<1>6. ASSUME NEW s \in Tabs, task[s].phase = "putting"
      PROVE  /\ task[s].call # NextCall(t)
             /\ args'[task[s].call].op = "save"
             /\ body'[task[s].call] = body[task[s].call]
  <2>1. args[task[s].call].op = "save" /\ task[s].call \in Calls
    BY <1>1, <1>6 DEF TabsInv, TasksRun, IsSave
  <2>2. task[s].call # NextCall(t)
    BY <1>2, <2>1 DEF Sent
  <2>3. args'[task[s].call] = args[task[s].call] /\ body'[task[s].call] = body[task[s].call]
    BY <1>2, <2>1, <2>2 DEF Sent
  <2> QED
    BY <2>1, <2>2, <2>3
<1> QED
  BY <1>2, <1>3, <1>4, <1>5, <1>6

\* What a load does to the tab that sends it: its task goes on to wait for it.
Waits(t) ==
    \/ task' = task
    \/ /\ task[t].phase = "putting"
       /\ task' = [task EXCEPT ![t].phase = "refetching"]
    \/ /\ task[t].phase = "putting" /\ task[t].attempt = 0
       /\ answer[task[t].call].kind = "conflict"
       /\ task' = [task EXCEPT ![t].phase = "reloading", ![t].call = NextCall(t)]

\* Loads carry nothing.
LEMMA LoadSafe ==
    ASSUME SyncInv, NEW t \in Tabs, NextCall(t) \in Calls, SendGet(t), Waits(t),
           UNCHANGED <<cache, queue, update, outcome>>,
           fetches' \in [Tabs -> Nat], fetch' \in [Tabs -> Calls \cup {NoCall}],
           \A s \in Tabs : fetches'[s] <= MaxFetches[s],
           \A s \in Tabs : s # t => fetches'[s] = fetches[s],
           fetches'[t] + Spent(t)' >= fetches[t] + Spent(t) + 1
    PROVE  SyncInv'
<1> DEFINE request == [Unsent EXCEPT !.op = "load"]
           n == NextCall(t)
<1>1. /\ TypeOK /\ ServerInv /\ TabsInv /\ WorkInv /\ CacheIsCommitted /\ TasksOK
  BY DEF SyncInv, ServerInv, TabsInv, WorkInv, TypeOK, TasksOK
<1>2. IsRequest(request, EmptyDoc) /\ SendCall(t, request, EmptyDoc)
  BY EmptyIsProper DEF IsRequest, Asked, Unsent, SendGet
<1>3. /\ Sent(t, request, EmptyDoc) /\ ServerInv' /\ CacheIsCommitted'
      /\ ServerDocument' = ServerDocument
      /\ \A s \in Tabs : task[s].phase = "putting" =>
            /\ task[s].call # n /\ args'[task[s].call].op = "save"
            /\ body'[task[s].call] = body[task[s].call]
  BY <1>2, SentKeeps
<1> HIDE DEF request
<1>4. /\ UNCHANGED <<rows, history, applied, answer>>
      /\ calls' = [calls EXCEPT ![t] = @ + 1]
      /\ args' \in [Calls -> Asked] /\ body' \in [Calls -> Docs] /\ calls' \in [Tabs -> Nat]
      /\ body'[n] = EmptyDoc
      /\ \A c \in Calls : c # n => body'[c] = body[c]
      /\ n \in Calls /\ n \notin applied
  BY <1>3 DEF Sent
<1> HIDE DEF n
<1>5. \A s \in Tabs :
         /\ task'[s].update = task[s].update
         /\ task'[s].phase = "idle" <=> task[s].phase = "idle"
         /\ task'[s].phase = "putting" => task'[s] = task[s]
         /\ task'[s].phase = "reloading" =>
               \/ task'[s] = task[s]
               \/ s = t /\ task[t].phase = "putting" /\ answer[task[t].call].kind = "conflict"
         /\ task'[s].call = task[s].call \/ task'[s].call = n
         /\ s # t => task'[s] = task[s]
  <2>1. CASE task' = task
    BY <2>1
  <2>2. CASE task[t].phase = "putting" /\ task' = [task EXCEPT ![t].phase = "refetching"]
    BY <1>1, <2>2 DEF TasksOK
  <2>3. CASE /\ task[t].phase = "putting" /\ answer[task[t].call].kind = "conflict"
             /\ task' = [task EXCEPT ![t].phase = "reloading", ![t].call = n]
    BY <1>1, <2>3 DEF TasksOK
  <2> QED
    BY <2>1, <2>2, <2>3 DEF Waits, n
<1>6. TasksOK'
  <2>1. CASE task' = task
    BY <1>1, <2>1 DEF TasksOK
  <2>2. CASE task[t].phase = "putting" /\ task' = [task EXCEPT ![t].phase = "refetching"]
    BY <1>1, <2>2 DEF TasksOK, Idle
  <2>3. CASE /\ task[t].phase = "putting"
             /\ task' = [task EXCEPT ![t].phase = "reloading", ![t].call = n]
    <3> DEFINE k == [task[t] EXCEPT !.phase = "reloading", !.call = n]
    <3>1. task' = [task EXCEPT ![t] = k]
      BY <2>3
    <3>2. /\ k \in [phase : {"idle", "putting", "reloading", "refetching"},
                    update : Updates \cup {NoUpdate}, attempt : {0, 1},
                    call : Calls \cup {NoCall}]
          /\ k.phase = "reloading"
      BY <1>1, <1>4 DEF TasksOK
    <3> HIDE DEF k
    <3> QED
      BY <1>1, <3>1, <3>2 DEF TasksOK, Idle
  <2> QED
    BY <2>1, <2>2, <2>3 DEF Waits, n
<1>7. TypeOK'
  BY <1>1, <1>4, <1>6 DEF TypeOK, TasksOK, Asked
<1>8. CallsSuffice'
  <2> SUFFICES ASSUME NEW s \in Tabs
               PROVE  calls'[s] <= fetches'[s] + 4 * Cardinality(Settled(s)') + Spent(s)'
    BY DEF CallsSuffice
  <2>1. Settled(s)' = Settled(s) /\ Settled(s) \in SUBSET (1 .. MaxUpdates[s])
    BY DEF Settled
  <2>2. Cardinality(Settled(s)) \in Nat
    BY <2>1, NumbersUpTo, BoundsAssumption
  <2>3. calls[s] <= fetches[s] + 4 * Cardinality(Settled(s)) + Spent(s)
    BY <1>1 DEF TabsInv, CallsSuffice
  <2>4. calls[s] \in Nat /\ fetches[s] \in Nat /\ fetches'[s] \in Nat
        /\ calls'[s] = IF s = t THEN calls[s] + 1 ELSE calls[s]
    BY <1>1, <1>4 DEF TypeOK
  <2>5. Spent(s) \in 0 .. 4 /\ Spent(s)' \in 0 .. 4
    BY <1>1, <1>6 DEF Spent, TasksOK
  <2>6. CASE s = t
    BY <2>1, <2>2, <2>3, <2>4, <2>5, <2>6
  <2>7. CASE s # t
    <3>1. Spent(s)' = Spent(s)
      BY <1>5, <2>7 DEF Spent
    <3> QED
      BY <2>1, <2>3, <2>4, <2>7, <3>1
  <2> QED
    BY <2>6, <2>7
<1>9. \A s \in Tabs : UsedUpdates(s)' = UsedUpdates(s)
  BY DEF UsedUpdates
<1>10. UpdatesInOrder'
  BY <1>1, <1>9 DEF TabsInv, UpdatesInOrder
<1>11. TasksRun'
  BY <1>1, <1>3, <1>4, <1>5 DEF TabsInv, TasksRun, IsSave
<1>12. QueueIsLater'
  BY <1>1, <1>5 DEF TabsInv, QueueIsLater
<1>13. \A c \in Calls, v \in Updates : Lists(body'[c], v) => c # n /\ Lists(body[c], v)
  BY <1>4, EmptyIsProper
<1>14. AttemptsHaveOrigin'
  <2> SUFFICES ASSUME NEW c \in Calls, NEW v \in Updates, Live(c), Lists(body'[c], v)
               PROVE  /\ outcome[v] \notin {"unused", "queued"}
                      /\ task'[v[1]].update = v =>
                            /\ task'[v[1]].phase # "reloading"
                            /\ task'[v[1]].phase = "putting" =>
                                  c = task'[v[1]].call \/ task'[v[1]].call \in applied
    BY <1>4 DEF AttemptsHaveOrigin, Live
  <2>1. v[1] \in Tabs /\ Lists(body[c], v)
    BY <1>13, UpdatesArePairs
  <2>2. /\ outcome[v] \notin {"unused", "queued"}
        /\ task[v[1]].update = v =>
              /\ task[v[1]].phase # "reloading"
              /\ task[v[1]].phase = "putting" =>
                    c = task[v[1]].call \/ task[v[1]].call \in applied
    BY <1>1, <2>1 DEF WorkInv, AttemptsHaveOrigin
  <2>3. task'[v[1]].update = v => task'[v[1]].phase # "reloading"
    <3>1. \A d \in applied : answer[d].kind # "conflict"
      BY <1>1 DEF ServerInv, SavesAreChained
    <3> QED
      BY <1>5, <2>1, <2>2, <3>1 DEF Live
  <2> QED
    BY <1>5, <2>1, <2>2, <2>3
<1>15. AttemptsAreKept'
  <2>1. \A s \in Tabs :
          (task'[s].phase = "putting" /\ update[task'[s].update].kind = "validate") =>
              Lists(body'[task'[s].call], task'[s].update)
    BY <1>1, <1>3, <1>5 DEF WorkInv, AttemptsAreKept
  <2>2. \A c \in applied, v \in Updates : Lists(body'[c], v) => Keeps(ServerDocument, v)
    <3>1. applied \subseteq Calls
      BY <1>1 DEF TypeOK
    <3> QED
      BY <1>1, <1>13, <3>1 DEF WorkInv, AttemptsAreKept
  <2>3. ResolvedEvidenceKept'
    BY <1>1, <1>3 DEF WorkInv, AttemptsAreKept, ResolvedEvidenceKept
  <2> QED
    BY <1>3, <1>4, <2>1, <2>2, <2>3 DEF AttemptsAreKept
<1>16. DraftsInOrder'
  <2> SUFFICES ASSUME NEW c \in Calls, NEW s \in Tabs
               PROVE  /\ body'[c].drafts[s] <= UsedUpdates(s)
                      /\ task[s].phase # "idle" => body'[c].drafts[s] <= task[s].update[2]
                      /\ \A i \in 1 .. Len(queue[s]) : body'[c].drafts[s] < queue[s][i][2]
    BY <1>5, <1>9 DEF DraftsInOrder
  <2>1. CASE c = n
    <3>1. body'[c].drafts[s] = 0
      BY <1>4, <2>1, EmptyIsProper
    <3>2. /\ UsedUpdates(s) \in Nat
          /\ task[s].phase # "idle" => task[s].update[2] \in Nat
          /\ \A i \in 1 .. Len(queue[s]) : queue[s][i][2] \in Nat /\ queue[s][i][2] > 0
      BY <1>1, UsedIsNat, WhatWaitsAndRuns
    <3> QED
      BY <3>1, <3>2
  <2>2. CASE c # n
    BY <1>1, <1>4, <2>2 DEF WorkInv, DraftsInOrder
  <2> QED
    BY <2>1, <2>2
<1> QED
  BY <1>3, <1>7, <1>8, <1>10, <1>11, <1>12, <1>14, <1>15, <1>16 DEF SyncInv, ServerInv

\* A query starts: one GET more of the fetches the bound allows.
LEMMA StartFetchSafe ==
    ASSUME SyncInv, NEW t \in Tabs, StartFetch(t)
    PROVE  SyncInv'
<1>1. TypeOK /\ TabsInv
  BY DEF SyncInv, TabsInv
<1>2. /\ fetches[t] < MaxFetches[t] /\ fetches' = [fetches EXCEPT ![t] = @ + 1]
      /\ SendGet(t) /\ fetch' = [fetch EXCEPT ![t] = NextCall(t)]
      /\ UNCHANGED <<cache, queue, task, update, outcome>>
  BY DEF StartFetch
<1>3. NextCall(t) \in Calls
  BY <1>1, <1>2, CallsAreLeft DEF TabsInv
<1>4. fetches \in [Tabs -> Nat] /\ \A s \in Tabs : fetches[s] <= MaxFetches[s] /\ MaxFetches[s] \in Nat
  BY <1>1, BoundsAssumption DEF TypeOK, TabsInv, CallsSuffice
<1>5. /\ fetches' \in [Tabs -> Nat] /\ fetches'[t] = fetches[t] + 1
      /\ \A s \in Tabs : s # t => fetches'[s] = fetches[s]
      /\ \A s \in Tabs : fetches'[s] <= MaxFetches[s]
  BY <1>2, <1>4
<1>6. fetch' \in [Tabs -> Calls \cup {NoCall}]
  BY <1>1, <1>2, <1>3 DEF TypeOK
<1>7. fetches'[t] + Spent(t)' >= fetches[t] + Spent(t) + 1
  <2>1. Spent(t) \in 0 .. 4 /\ Spent(t)' = Spent(t)
    BY <1>1, <1>2 DEF Spent, TypeOK
  <2> QED
    BY <1>4, <1>5, <2>1
<1> QED
  BY <1>2, <1>3, <1>5, <1>6, <1>7, LoadSafe DEF Waits

\* The first 409 of an update: its task asks for the newer document.
LEMMA PutRacesSafe ==
    ASSUME SyncInv, NEW t \in Tabs, PutRaces(t)
    PROVE  SyncInv'
<1>1. TypeOK /\ TabsInv
  BY DEF SyncInv, TabsInv
<1>2. /\ task[t].phase = "putting" /\ task[t].attempt = 0 /\ SendGet(t)
      /\ answer[task[t].call].kind = "conflict"
      /\ task' = [task EXCEPT ![t].phase = "reloading", ![t].call = NextCall(t)]
      /\ UNCHANGED <<cache, fetch, fetches, queue, update, outcome>>
  BY DEF PutRaces, IsRevisionRace
<1>3. NextCall(t) \in Calls
  BY <1>1, <1>2, CallsAreLeft DEF TabsInv
<1>4. /\ fetches' \in [Tabs -> Nat] /\ fetches[t] \in Nat
      /\ \A s \in Tabs : fetches'[s] <= MaxFetches[s]
      /\ fetch' \in [Tabs -> Calls \cup {NoCall}]
  BY <1>1, <1>2 DEF TypeOK, TabsInv, CallsSuffice
<1>5. fetches'[t] + Spent(t)' >= fetches[t] + Spent(t) + 1
  <2>1. task'[t].phase = "reloading"
    BY <1>1, <1>2 DEF TypeOK
  <2>2. Spent(t) = 1 /\ Spent(t)' = 2
    BY <1>2, <2>1 DEF Spent
  <2> QED
    BY <1>2, <1>4, <2>2
<1> QED
  BY <1>2, <1>3, <1>4, <1>5, LoadSafe DEF Waits

\* The second 409: the query is fetched anew before the update is given up.
LEMMA PutRacesAgainSafe ==
    ASSUME SyncInv, NEW t \in Tabs, PutRacesAgain(t)
    PROVE  SyncInv'
<1>1. TypeOK /\ TabsInv
  BY DEF SyncInv, TabsInv
<1>2. /\ task[t].phase = "putting" /\ task[t].attempt = 1 /\ SendGet(t)
      /\ fetch' = [fetch EXCEPT ![t] = NextCall(t)]
      /\ task' = [task EXCEPT ![t].phase = "refetching"]
      /\ UNCHANGED <<cache, fetches, queue, update, outcome>>
  BY DEF PutRacesAgain
<1>3. NextCall(t) \in Calls
  BY <1>1, <1>2, CallsAreLeft DEF TabsInv
<1>4. /\ fetches' \in [Tabs -> Nat] /\ fetches[t] \in Nat
      /\ \A s \in Tabs : fetches'[s] <= MaxFetches[s]
      /\ fetch' \in [Tabs -> Calls \cup {NoCall}]
  BY <1>1, <1>2, <1>3 DEF TypeOK, TabsInv, CallsSuffice
<1>5. fetches'[t] + Spent(t)' >= fetches[t] + Spent(t) + 1
  <2>1. task'[t].phase = "refetching"
    BY <1>1, <1>2 DEF TypeOK
  <2>2. Spent(t) = 3 /\ Spent(t)' = 4
    BY <1>2, <2>1 DEF Spent
  <2> QED
    BY <1>2, <1>4, <2>2
<1> QED
  BY <1>2, <1>3, <1>4, <1>5, LoadSafe DEF Waits

\* A save of update u made from the document of revision k: nothing that may yet
\* take effect lists u, and no draft is newer than it.
Puts(t, u, k, attempt) ==
    /\ u \in Updates /\ u[1] = t /\ outcome[u] \in {"queued", "running"}
    /\ k \in 0 .. Current /\ attempt \in {0, 1}
    /\ SendPut(t, k, Perform(DocumentAt(k), u))
    /\ task' = [task EXCEPT ![t] = [phase |-> "putting", update |-> u,
                                    attempt |-> attempt, call |-> NextCall(t)]]
    /\ outcome' = [outcome EXCEPT ![u] = "running"]
    /\ UNCHANGED <<cache, fetch, fetches, update>>
    /\ \A c \in Calls : Live(c) => ~Lists(body[c], u)
    /\ \A c \in Calls : body[c].drafts[t] <= u[2]

\* The queue without what was taken from it.
Queues(t, u) ==
    /\ queue' \in [Tabs -> Seq(Updates)]
    /\ \A s \in Tabs : s # t => queue'[s] = queue[s]
    /\ \A i \in 1 .. Len(queue'[t]) :
          /\ queue'[t][i] \in Updates /\ queue'[t][i][1] = t
          /\ outcome[queue'[t][i]] = "queued" /\ u[2] < queue'[t][i][2]
    /\ \A i, j \in 1 .. Len(queue'[t]) : i < j => queue'[t][i][2] < queue'[t][j][2]

\* A PUT that performs update u on what the server holds at revision k.
LEMMA PutSafe ==
    ASSUME SyncInv, NEW t \in Tabs, NextCall(t) \in Calls,
           NEW u, NEW k, NEW attempt, Puts(t, u, k, attempt), Queues(t, u),
           Spent(t)' = Spent(t) + 1
    PROVE  SyncInv'
<1> DEFINE request == [Unsent EXCEPT !.op = "save", !.expected = k]
           n == NextCall(t)
           base == DocumentAt(k)
           doc == Perform(base, u)
<1>1. /\ TypeOK /\ ServerInv /\ TabsInv /\ WorkInv /\ CacheIsCommitted /\ TasksOK
      /\ Current \in Nat /\ SavesAreChained /\ BodiesFollow
  BY DEF SyncInv, ServerInv, TabsInv, WorkInv, TypeOK, TasksOK, Current, Rows
<1>2. /\ u \in Updates /\ u[1] = t /\ outcome[u] \in {"queued", "running"}
      /\ k \in 0 .. Current /\ attempt \in {0, 1}
      /\ SendCall(t, request, doc)
      /\ task' = [task EXCEPT ![t] = [phase |-> "putting", update |-> u,
                                      attempt |-> attempt, call |-> n]]
      /\ outcome' = [outcome EXCEPT ![u] = "running"]
      /\ UNCHANGED <<cache, fetch, fetches, update>>
      /\ \A c \in Calls : Live(c) => ~Lists(body[c], u)
      /\ \A c \in Calls : body[c].drafts[t] <= u[2]
  BY DEF Puts, SendPut
<1>3. u[2] \in Nat /\ u[2] > 0 /\ u[2] \in 1 .. MaxUpdates[t] /\ u = <<t, u[2]>>
  BY <1>2, UpdatesArePairs
<1>4. /\ IsProper(base) /\ base = Doc(applied, args, body, k)
      /\ base = EmptyDoc \/ \E c \in applied : base = body[c]
  BY <1>1, <1>2, DocumentIsProper DEF DocumentAt, Doc
<1> HIDE DEF base
<1>5. \A c \in applied : c \in Calls /\ Live(c)
  BY <1>1 DEF TypeOK, SavesAreChained, Live
<1>6. ~Lists(base, u) /\ base.drafts[t] <= u[2]
  BY <1>2, <1>3, <1>4, <1>5, EmptyIsProper
<1>7. IsFollowUp(base, u, doc)
  BY <1>1, <1>2, <1>4, <1>6, PerformFollows
<1> HIDE DEF doc
<1>8. IsRequest(request, doc)
  <2>1. k \in Nat /\ k <= Current
    BY <1>1, <1>2
  <2>2. request \in Asked /\ request.op = "save" /\ request.expected = k
    BY ONLY <2>1 DEF Asked, Unsent
  <2>3. IsProper(doc) /\ Follows(base, doc)
    BY <1>7 DEF IsFollowUp
  <2> HIDE DEF request
  <2> QED
    BY <1>4, <2>1, <2>2, <2>3 DEF IsRequest
<1>9. /\ Sent(t, request, doc) /\ ServerInv' /\ CacheIsCommitted'
      /\ ServerDocument' = ServerDocument
      /\ \A s \in Tabs : task[s].phase = "putting" =>
            /\ task[s].call # n /\ args'[task[s].call].op = "save"
            /\ body'[task[s].call] = body[task[s].call]
  BY <1>2, <1>8, SentKeeps
<1>10. args'[n].op = "save"
  BY <1>9 DEF Sent, Unsent
<1> HIDE DEF request
<1>11. /\ UNCHANGED <<rows, history, applied, answer>>
       /\ calls' = [calls EXCEPT ![t] = @ + 1]
       /\ args' \in [Calls -> Asked] /\ body' \in [Calls -> Docs] /\ calls' \in [Tabs -> Nat]
       /\ body'[n] = doc
       /\ \A c \in Calls : c # n => body'[c] = body[c]
       /\ n \in Calls /\ n \notin applied
  BY <1>9 DEF Sent
<1> HIDE DEF n
<1>12. /\ task'[t].phase = "putting" /\ task'[t].update = u /\ task'[t].call = n
       /\ \A s \in Tabs : s # t => task'[s] = task[s]
       /\ outcome'[u] = "running" /\ \A v \in Updates : v # u => outcome'[v] = outcome[v]
       /\ TasksOK'
  BY <1>1, <1>2, <1>11 DEF TasksOK, Idle
<1>13. /\ queue' \in [Tabs -> Seq(Updates)]
       /\ \A s \in Tabs : s # t => queue'[s] = queue[s]
       /\ \A i \in 1 .. Len(queue'[t]) :
             /\ queue'[t][i] \in Updates /\ queue'[t][i][1] = t
             /\ outcome[queue'[t][i]] = "queued" /\ u[2] < queue'[t][i][2]
       /\ \A i, j \in 1 .. Len(queue'[t]) : i < j => queue'[t][i][2] < queue'[t][j][2]
  BY DEF Queues
<1>14. TypeOK'
  BY <1>1, <1>2, <1>11, <1>12, <1>13 DEF TypeOK, TasksOK, Asked
<1>15. \A s \in Tabs : UsedUpdates(s)' = UsedUpdates(s)
  <2> SUFFICES ASSUME NEW s \in Tabs PROVE UsedUpdates(s)' = UsedUpdates(s)
    OBVIOUS
  <2>1. \A m \in 1 .. MaxUpdates[s] :
            outcome'[<<s, m>>] = "unused" <=> outcome[<<s, m>>] = "unused"
    BY <1>2, <1>12, UpdatesArePairs
  <2> QED
    BY <2>1, UsedStays
<1>16. CallsSuffice'
  <2> SUFFICES ASSUME NEW s \in Tabs
               PROVE  /\ fetches[s] <= MaxFetches[s]
                      /\ calls'[s] <= fetches[s] + 4 * Cardinality(Settled(s)') + Spent(s)'
    BY <1>2 DEF CallsSuffice
  <2>1. Settled(s)' = Settled(s) /\ Settled(s) \in SUBSET (1 .. MaxUpdates[s])
    BY <1>2, <1>12, UpdatesArePairs DEF Settled
  <2>2. Cardinality(Settled(s)) \in Nat
    BY <2>1, NumbersUpTo, BoundsAssumption
  <2>3. /\ calls[s] <= fetches[s] + 4 * Cardinality(Settled(s)) + Spent(s)
        /\ fetches[s] <= MaxFetches[s]
    BY <1>1 DEF TabsInv, CallsSuffice
  <2>4. calls[s] \in Nat /\ fetches[s] \in Nat
        /\ calls'[s] = IF s = t THEN calls[s] + 1 ELSE calls[s]
    BY <1>1, <1>11 DEF TypeOK
  <2>5. Spent(s) \in 0 .. 4
    BY <1>1 DEF Spent, TasksOK
  <2>6. CASE s = t
    BY <2>1, <2>2, <2>3, <2>4, <2>5, <2>6
  <2>7. CASE s # t
    <3>1. Spent(s)' = Spent(s)
      BY <1>12, <2>7 DEF Spent
    <3> QED
      BY <2>1, <2>3, <2>4, <2>7, <3>1
  <2> QED
    BY <2>6, <2>7
<1>17. UpdatesInOrder'
  <2> SUFFICES ASSUME NEW s \in Tabs
               PROVE  /\ \A m \in 1 .. MaxUpdates[s] :
                            outcome'[<<s, m>>] # "unused" <=> m <= UsedUpdates(s)
                      /\ \A i \in 1 .. Len(queue'[s]) :
                            queue'[s][i][1] = s /\ outcome'[queue'[s][i]] = "queued"
                      /\ \A i, j \in 1 .. Len(queue'[s]) :
                            i < j => queue'[s][i][2] < queue'[s][j][2]
    BY <1>15 DEF UpdatesInOrder
  <2>1. \A m \in 1 .. MaxUpdates[s] : outcome'[<<s, m>>] # "unused" <=> m <= UsedUpdates(s)
    BY <1>1, <1>2, <1>12, UpdatesArePairs DEF TabsInv, UpdatesInOrder
  <2>2. CASE s = t
    <3>1. \A i \in 1 .. Len(queue'[t]) :
             queue'[t][i] # u /\ outcome'[queue'[t][i]] = "queued" /\ queue'[t][i][1] = t
      BY <1>3, <1>12, <1>13
    <3> QED
      BY <1>13, <2>1, <2>2, <3>1
  <2>3. CASE s # t
    <3>1. \A i \in 1 .. Len(queue[s]) :
             /\ queue[s][i] \in Updates /\ queue[s][i][1] = s
             /\ outcome[queue[s][i]] = "queued"
      BY <1>1, WhatWaitsAndRuns
    <3>2. \A i, j \in 1 .. Len(queue[s]) : i < j => queue[s][i][2] < queue[s][j][2]
      BY <1>1 DEF TabsInv, UpdatesInOrder
    <3> QED
      BY <1>2, <1>12, <1>13, <2>1, <2>3, <3>1, <3>2
  <2> QED
    BY <2>2, <2>3
<1>18. TasksRun'
  <2> SUFFICES ASSUME NEW s \in Tabs, task'[s].phase # "idle"
               PROVE  /\ task'[s].update \in Updates /\ task'[s].update[1] = s
                      /\ outcome'[task'[s].update] = "running"
                      /\ task'[s].call \in Calls
                      /\ task'[s].phase = "putting" => args'[task'[s].call].op = "save"
    BY DEF TasksRun, IsSave
  <2>1. CASE s = t
    BY <1>2, <1>10, <1>11, <1>12, <2>1
  <2>2. CASE s # t
    BY <1>1, <1>2, <1>9, <1>12, <2>2 DEF TabsInv, TasksRun
  <2> QED
    BY <2>1, <2>2
<1>19. QueueIsLater'
  BY <1>1, <1>12, <1>13 DEF TabsInv, QueueIsLater
<1>20. AttemptsHaveOrigin'
  <2> SUFFICES ASSUME NEW c \in Calls, NEW v \in Updates, Live(c), Lists(body'[c], v)
               PROVE  /\ outcome'[v] \notin {"unused", "queued"}
                      /\ task'[v[1]].update = v =>
                            /\ task'[v[1]].phase # "reloading"
                            /\ task'[v[1]].phase = "putting" =>
                                  c = task'[v[1]].call \/ task'[v[1]].call \in applied
    BY <1>11 DEF AttemptsHaveOrigin, Live
  <2>1. v[1] \in Tabs
    BY UpdatesArePairs
  <2>2. ASSUME NEW d \in Calls, Live(d), Lists(body[d], v), v # u
        PROVE  /\ outcome'[v] \notin {"unused", "queued"}
               /\ task'[v[1]].update = v =>
                     /\ task'[v[1]].phase # "reloading"
                     /\ task'[v[1]].phase = "putting" =>
                           d = task'[v[1]].call \/ task'[v[1]].call \in applied
    BY <1>1, <1>12, <2>1, <2>2 DEF WorkInv, AttemptsHaveOrigin
  <2>3. CASE c # n
    BY <1>2, <1>11, <2>2, <2>3
  <2>4. CASE c = n /\ v = u
    BY <1>2, <1>12, <2>4
  <2>5. CASE c = n /\ v # u
    <3>1. Lists(base, v)
      BY <1>7, <1>11, <2>5 DEF IsFollowUp
    <3>2. PICK d \in applied : Lists(body[d], v)
      BY <1>4, <3>1, EmptyIsProper
    <3> QED
      BY <1>5, <2>2, <2>5, <3>2
  <2> QED
    BY <2>3, <2>4, <2>5
<1>21. AttemptsAreKept'
  <2>1. \A s \in Tabs :
          (task'[s].phase = "putting" /\ update[task'[s].update].kind = "validate") =>
              Lists(body'[task'[s].call], task'[s].update)
    BY <1>1, <1>7, <1>9, <1>11, <1>12 DEF WorkInv, AttemptsAreKept, IsFollowUp
  <2>2. \A c \in applied, v \in Updates : Lists(body'[c], v) => Keeps(ServerDocument, v)
    BY <1>1, <1>5, <1>11 DEF WorkInv, AttemptsAreKept
  <2>3. ResolvedEvidenceKept'
    <3>1. \A v \in Updates :
             (outcome'[v] = "resolved" /\ update[v].kind = "validate") =>
                 Keeps(ServerDocument, v)
      BY <1>1, <1>12 DEF WorkInv, AttemptsAreKept, ResolvedEvidenceKept, Keeps, Lists
    <3> QED
      BY <1>2, <1>9, <3>1 DEF ResolvedEvidenceKept, Keeps, Lists
  <2> QED
    BY <1>2, <1>9, <1>11, <2>1, <2>2, <2>3 DEF AttemptsAreKept
<1>22. DraftsInOrder'
  <2>1. ASSUME NEW s \in Tabs, NEW d, d \in Nat, d <= UsedUpdates(s), s = t => d <= u[2],
               task[s].phase # "idle" => d <= task[s].update[2],
               \A i \in 1 .. Len(queue[s]) : d < queue[s][i][2]
        PROVE  /\ d <= UsedUpdates(s)
               /\ task'[s].phase # "idle" => d <= task'[s].update[2]
               /\ \A i \in 1 .. Len(queue'[s]) : d < queue'[s][i][2]
    <3>1. CASE s = t
      <4>1. \A i \in 1 .. Len(queue'[t]) : queue'[t][i][2] \in Nat /\ u[2] < queue'[t][i][2]
        BY <1>13, UpdatesArePairs
      <4> QED
        BY <1>3, <1>12, <2>1, <3>1, <4>1
    <3>2. CASE s # t
      BY <1>12, <1>13, <2>1, <3>2
    <3> QED
      BY <3>1, <3>2
  <2>2. ASSUME NEW c \in Calls, NEW s \in Tabs
        PROVE  /\ body[c].drafts[s] \in Nat /\ body[c].drafts[s] <= UsedUpdates(s)
               /\ s = t => body[c].drafts[s] <= u[2]
               /\ task[s].phase # "idle" => body[c].drafts[s] <= task[s].update[2]
               /\ \A i \in 1 .. Len(queue[s]) : body[c].drafts[s] < queue[s][i][2]
    <3>1. body[c] \in Docs
      BY <1>1 DEF TypeOK
    <3>2. body[c].drafts[s] \in Nat
      BY <3>1 DEF Docs
    <3>3. s = t => body[c].drafts[s] <= u[2]
      BY <1>2
    <3> QED
      BY <1>1, <3>2, <3>3 DEF WorkInv, DraftsInOrder
  <2>3. ASSUME NEW s \in Tabs
        PROVE  /\ 0 <= UsedUpdates(s) /\ UsedUpdates(s) \in Nat
               /\ task[s].phase # "idle" => 0 <= task[s].update[2]
               /\ \A i \in 1 .. Len(queue[s]) : 0 < queue[s][i][2]
    BY <1>1, UsedIsNat, WhatWaitsAndRuns
  <2>4. u[2] <= UsedUpdates(t)
    BY <1>1, <1>2, <1>3 DEF TabsInv, UpdatesInOrder
  <2> SUFFICES ASSUME NEW c \in Calls, NEW s \in Tabs
               PROVE  /\ body'[c].drafts[s] <= UsedUpdates(s)
                      /\ task'[s].phase # "idle" => body'[c].drafts[s] <= task'[s].update[2]
                      /\ \A i \in 1 .. Len(queue'[s]) : body'[c].drafts[s] < queue'[s][i][2]
    BY <1>15 DEF DraftsInOrder
  <2>5. CASE c # n
    <3>1. body'[c] = body[c]
      BY <1>11, <2>5
    <3> QED
      BY <2>1, <2>2, <3>1
  <2>6. CASE c = n
    <3>1. body'[c] = doc
      BY <1>11, <2>6
    <3>2. CASE s = t /\ doc.drafts[s] = u[2]
      <4>1. \A i \in 1 .. Len(queue'[t]) : u[2] < queue'[t][i][2]
        BY <1>13
      <4> QED
        BY <1>3, <1>12, <2>4, <3>1, <3>2, <4>1
    <3>3. CASE doc.drafts[s] = base.drafts[s]
      <4>1. CASE base = EmptyDoc
        <5>1. doc.drafts[s] = 0
          BY <3>3, <4>1, EmptyIsProper
        <5> QED
          BY <1>3, <2>1, <2>3, <3>1, <5>1
      <4>2. CASE base # EmptyDoc
        <5>1. PICK d \in applied : base = body[d]
          BY <1>4, <4>2
        <5>2. d \in Calls /\ doc.drafts[s] = body[d].drafts[s]
          BY <1>5, <3>3, <5>1
        <5> QED
          BY <2>1, <2>2, <3>1, <5>2
      <4> QED
        BY <4>1, <4>2
    <3> QED
      BY <1>2, <1>7, <3>2, <3>3 DEF IsFollowUp
  <2> QED
    BY <2>5, <2>6
<1> QED
  BY <1>9, <1>14, <1>16, <1>17, <1>18, <1>19, <1>20, <1>21, <1>22 DEF SyncInv, ServerInv

\* The queue starts its next update on the cached document, or on a fetched one.
LEMMA StartTaskSafe ==
    ASSUME SyncInv, NEW t \in Tabs, StartTask(t)
    PROVE  SyncInv'
<1> DEFINE u == Head(queue[t])
           k == cache[t].revision
<1>1. /\ TypeOK /\ ServerInv /\ TabsInv /\ WorkInv /\ CacheIsCommitted
      /\ Current \in Nat /\ SavesAreChained
  BY DEF SyncInv, ServerInv, TabsInv, WorkInv, TypeOK, Current, Rows
<1>2. /\ task[t] = Idle /\ queue[t] # <<>>
      /\ SendPut(t, k, Perform(cache[t].doc, u))
      /\ task' = [task EXCEPT ![t] = [phase |-> "putting", update |-> u,
                                      attempt |-> 0, call |-> NextCall(t)]]
      /\ queue' = [queue EXCEPT ![t] = Tail(@)]
      /\ outcome' = [outcome EXCEPT ![u] = "running"]
      /\ UNCHANGED <<cache, fetch, fetches, update>>
  BY DEF StartTask
<1>3. NextCall(t) \in Calls
  BY <1>1, <1>2, CallsAreLeft DEF TabsInv
<1>4. /\ queue \in [Tabs -> Seq(Updates)] /\ queue[t] \in Seq(Updates)
      /\ Len(queue[t]) \in Nat /\ Len(queue[t]) > 0 /\ u = queue[t][1]
  BY <1>1, <1>2, EmptySeq, LenProperties DEF TypeOK
<1> HIDE DEF u
<1>5. /\ u \in Updates /\ u[1] = t /\ outcome[u] = "queued" /\ u[2] \in Nat
  BY <1>1, <1>4, WhatWaitsAndRuns
<1>6. /\ Tail(queue[t]) \in Seq(Updates) /\ Len(Tail(queue[t])) = Len(queue[t]) - 1
      /\ \A i \in 1 .. Len(Tail(queue[t])) : Tail(queue[t])[i] = queue[t][i + 1]
  BY <1>2, <1>4, HeadTailProperties
<1>7. Queues(t, u)
  <2>1. /\ queue' \in [Tabs -> Seq(Updates)] /\ queue'[t] = Tail(queue[t])
        /\ \A s \in Tabs : s # t => queue'[s] = queue[s]
    BY <1>2, <1>4, <1>6
  <2>2. \A i \in 1 .. Len(queue'[t]) :
            /\ i + 1 \in 1 .. Len(queue[t]) /\ queue'[t][i] = queue[t][i + 1] /\ 1 < i + 1
    BY <1>4, <1>6, <2>1
  <2>3. \A i, j \in 1 .. Len(queue[t]) : i < j => queue[t][i][2] < queue[t][j][2]
    BY <1>1 DEF TabsInv, UpdatesInOrder
  <2>4. \A i \in 1 .. Len(queue'[t]) :
             /\ queue'[t][i] \in Updates /\ queue'[t][i][1] = t
             /\ outcome[queue'[t][i]] = "queued" /\ u[2] < queue'[t][i][2]
    <3> SUFFICES ASSUME NEW i \in 1 .. Len(queue'[t])
                 PROVE  /\ queue'[t][i] \in Updates /\ queue'[t][i][1] = t
                        /\ outcome[queue'[t][i]] = "queued" /\ u[2] < queue'[t][i][2]
      OBVIOUS
    <3>1. /\ 1 \in 1 .. Len(queue[t]) /\ i + 1 \in 1 .. Len(queue[t]) /\ 1 < i + 1
          /\ queue'[t][i] = queue[t][i + 1]
      BY <1>4, <2>2
    <3>2. u[2] < queue[t][i + 1][2]
      BY <1>4, <2>3, <3>1
    <3>3. /\ queue[t][i + 1] \in Updates /\ queue[t][i + 1][1] = t
          /\ outcome[queue[t][i + 1]] = "queued"
      BY <1>1, <3>1, WhatWaitsAndRuns
    <3> QED
      BY <3>1, <3>2, <3>3
  <2>5. \A i, j \in 1 .. Len(queue'[t]) : i < j => queue'[t][i][2] < queue'[t][j][2]
    <3> SUFFICES ASSUME NEW i \in 1 .. Len(queue'[t]), NEW j \in 1 .. Len(queue'[t]), i < j
                 PROVE  queue'[t][i][2] < queue'[t][j][2]
      OBVIOUS
    <3>1. i + 1 < j + 1
      OBVIOUS
    <3> QED
      BY <2>2, <2>3, <3>1
  <2> QED
    BY <2>1, <2>4, <2>5 DEF Queues
<1>8. cache[t].doc = DocumentAt(k) /\ k \in 0 .. Current
  BY <1>1 DEF CacheIsCommitted, TypeOK, Current
<1>9. \A c \in Calls : Live(c) => ~Lists(body[c], u)
  BY <1>1, <1>5 DEF WorkInv, AttemptsHaveOrigin
<1>10. \A c \in Calls : body[c].drafts[t] <= u[2]
  <2> SUFFICES ASSUME NEW c \in Calls PROVE body[c].drafts[t] <= u[2]
    OBVIOUS
  <2>1. body[c] \in Docs
    BY <1>1 DEF TypeOK
  <2>2. body[c].drafts[t] \in Nat
    BY <2>1 DEF Docs
  <2>3. body[c].drafts[t] < u[2]
    BY <1>1, <1>4 DEF WorkInv, DraftsInOrder
  <2> QED
    BY <1>5, <2>2, <2>3
<1>11. Spent(t)' = Spent(t) + 1
  <2>1. task'[t].phase = "putting" /\ task'[t].attempt = 0
    BY <1>1, <1>2 DEF TypeOK
  <2>2. Spent(t) = 0 /\ Spent(t)' = 1
    BY <1>2, <2>1 DEF Spent, Idle
  <2> QED
    BY <2>2
<1> HIDE DEF k
<1>12. Puts(t, u, k, 0)
  BY <1>2, <1>5, <1>8, <1>9, <1>10 DEF Puts
<1> QED
  BY <1>3, <1>7, <1>11, <1>12, PutSafe

\* The newer document arrived: the update is performed on it and sent once more.
LEMMA ReloadedSafe ==
    ASSUME SyncInv, NEW t \in Tabs, Reloaded(t)
    PROVE  SyncInv'
<1> DEFINE u == task[t].update
           c == task[t].call
           k == answer[c].revision
<1>1. /\ TypeOK /\ ServerInv /\ TabsInv /\ WorkInv /\ CacheIsCommitted
      /\ Current \in Nat /\ SavesAreChained /\ AnswersAreTrue
  BY DEF SyncInv, ServerInv, TabsInv, WorkInv, TypeOK, Current, Rows
<1>2. /\ task[t].phase = "reloading" /\ answer[c].kind = "loaded"
      /\ SendPut(t, k, Perform(DocumentAt(k), u))
      /\ task' = [task EXCEPT ![t].phase = "putting", ![t].attempt = 1,
                              ![t].call = NextCall(t)]
      /\ UNCHANGED <<cache, fetch, fetches, queue, update, outcome>>
  BY DEF Reloaded, ReloadedDocument
<1>3. NextCall(t) \in Calls
  BY <1>1, <1>2, CallsAreLeft DEF TabsInv
<1>4. /\ u \in Updates /\ u[1] = t /\ outcome[u] = "running" /\ u[2] \in Nat
      /\ c \in Calls
  BY <1>1, <1>2, WhatWaitsAndRuns
<1>5. k \in 0 .. Current
  BY <1>1, <1>2, <1>4 DEF AnswersAreTrue, TypeOK
<1>6. Queues(t, u)
  <2>1. queue' = queue /\ queue \in [Tabs -> Seq(Updates)]
    BY <1>1, <1>2 DEF TypeOK
  <2>2. \A i \in 1 .. Len(queue[t]) :
            /\ queue[t][i] \in Updates /\ queue[t][i][1] = t
            /\ outcome[queue[t][i]] = "queued" /\ u[2] < queue[t][i][2]
    BY <1>1, <1>2, WhatWaitsAndRuns DEF TabsInv, QueueIsLater
  <2>3. \A i, j \in 1 .. Len(queue[t]) : i < j => queue[t][i][2] < queue[t][j][2]
    BY <1>1 DEF TabsInv, UpdatesInOrder
  <2> QED
    BY <2>1, <2>2, <2>3 DEF Queues
<1>7. \A d \in Calls : Live(d) => ~Lists(body[d], u)
  BY <1>1, <1>2, <1>4 DEF WorkInv, AttemptsHaveOrigin
<1>8. \A d \in Calls : body[d].drafts[t] <= u[2]
  BY <1>1, <1>2 DEF WorkInv, DraftsInOrder
<1>9. /\ task' = [task EXCEPT ![t] = [phase |-> "putting", update |-> u,
                                      attempt |-> 1, call |-> NextCall(t)]]
      /\ outcome' = [outcome EXCEPT ![u] = "running"]
  <2>1. /\ task[t] \in [phase : {"idle", "putting", "reloading", "refetching"},
                        update : Updates \cup {NoUpdate}, attempt : {0, 1},
                        call : Calls \cup {NoCall}]
        /\ outcome \in [Updates -> {"unused", "queued", "running", "resolved",
                                   "failed", "raced"}]
    BY <1>1 DEF TypeOK
  <2> DEFINE r == [task[t] EXCEPT !.phase = "putting", !.attempt = 1,
                                  !.call = NextCall(t)]
  <2>2. r = [phase |-> "putting", update |-> u, attempt |-> 1, call |-> NextCall(t)]
    <3> DEFINE n == NextCall(t)
               old == task[t]
    <3>1. /\ old \in [phase : {"idle", "putting", "reloading", "refetching"},
                      update : Updates \cup {NoUpdate}, attempt : {0, 1},
                      call : Calls \cup {NoCall}]
          /\ r = [old EXCEPT !.phase = "putting", !.attempt = 1, !.call = n]
          /\ u = old.update
      BY <2>1
    <3> HIDE DEF n, r, old, u
    <3>2. r = [phase |-> "putting", update |-> u, attempt |-> 1, call |-> n]
      BY ONLY <3>1
    <3> QED
      BY <3>2 DEF n
  <2>3. task' = [task EXCEPT ![t] = r]
    BY <1>2
  <2>4. outcome' = [outcome EXCEPT ![u] = "running"]
    BY <1>2, <1>4, <2>1
  <2> QED
    BY <2>2, <2>3, <2>4
<1>10. Spent(t)' = Spent(t) + 1
  <2>1. task'[t].phase = "putting" /\ task'[t].attempt = 1
    BY <1>1, <1>9 DEF TypeOK
  <2>2. Spent(t) = 2 /\ Spent(t)' = 3
    BY <1>2, <2>1 DEF Spent
  <2> QED
    BY <2>2
<1> HIDE DEF u, k
<1>11. Puts(t, u, k, 1)
  BY <1>2, <1>4, <1>5, <1>7, <1>8, <1>9 DEF Puts
<1> QED
  BY <1>3, <1>6, <1>10, <1>11, PutSafe

-----------------------------------------------------------------------------
(* The invariant and what follows from it.                                  *)

\* Every behaviour starts in order.
LEMMA InitSync == Init => SyncInv
<1> SUFFICES ASSUME Init PROVE SyncInv
  OBVIOUS
<1>1. /\ rows = [p \in {Profile} |-> [revision |-> 0, state |-> NoCall]]
      /\ history = [p \in {Profile} |-> {}] /\ applied = {}
      /\ answer = [c \in Calls |-> Store!NoAnswer]
      /\ args = [c \in Calls |-> Unsent] /\ body = [c \in Calls |-> EmptyDoc]
  BY DEF Init, Store!StoreInit
<1>2. /\ EmptyDoc \in Docs /\ [kind |-> "none"] \in Kinds
      /\ <<>> \in Seq(Updates) /\ Len(<<>>) = 0 /\ Idle.phase = "idle"
      /\ Idle \in [phase : {"idle", "putting", "reloading", "refetching"},
                   update : Updates \cup {NoUpdate}, attempt : {0, 1},
                   call : Calls \cup {NoCall}]
      /\ Current = 0
  BY <1>1, EmptyIsProper DEF IsProper, Kinds, Idle, Current
<1>3. TypeOK
  <2>1. Unloaded \in [status : {"pending", "success", "error"}, revision : Nat, doc : Docs]
    BY <1>2 DEF Unloaded
  <2>2. /\ rows \in [{Profile} -> Rows] /\ history \in [{Profile} -> SUBSET Rows]
        /\ applied \in SUBSET Calls
        /\ args \in [Calls -> [op : {"none", "save", "load"}, profile : {Profile},
                               expected : Nat, valid : BOOLEAN]]
        /\ answer \in [Calls -> [revision : Nat,
                         kind : {"none", "saved", "conflict", "loaded", "failed"}]]
    BY <1>1 DEF Rows, Unsent, Store!NoAnswer
  <2>3. body \in [Calls -> Docs]
    BY <1>1, <1>2
  <2>4. \A t \in Tabs : task[t].phase = "idle" <=> task[t] = Idle
    BY <1>2 DEF Init
  <2> HIDE DEF NoUpdate
  <2> QED
    BY <1>2, <2>1, <2>2, <2>3, <2>4 DEF Init, TypeOK
<1>4. \A s \in Tabs : UsedUpdates(s) = 0
  <2> SUFFICES ASSUME NEW s \in Tabs PROVE UsedUpdates(s) = 0
    OBVIOUS
  <2>1. {n \in 1 .. MaxUpdates[s] : outcome[<<s, n>>] # "unused"} = {}
    BY UpdatesArePairs DEF Init
  <2> QED
    BY <2>1, FS_EmptySet DEF UsedUpdates
<1>5. \A s \in Tabs : task[s] = Idle /\ queue[s] = <<>> /\ calls[s] = 0 /\ fetches[s] = 0
  BY DEF Init
<1>6. CallsAreFresh
  BY <1>1 DEF CallsAreFresh
<1>7. CallsSuffice
  <2> SUFFICES ASSUME NEW s \in Tabs
               PROVE  /\ fetches[s] <= MaxFetches[s]
                      /\ calls[s] <= fetches[s] + 4 * Cardinality(Settled(s)) + Spent(s)
    BY DEF CallsSuffice
  <2>1. Settled(s) \in SUBSET (1 .. MaxUpdates[s])
    BY DEF Settled
  <2>2. Cardinality(Settled(s)) \in Nat
    BY <2>1, NumbersUpTo, BoundsAssumption
  <2>3. Spent(s) = 0
    BY <1>2, <1>5 DEF Spent
  <2> QED
    BY <1>5, <2>2, <2>3, BoundsAssumption
<1>8. UpdatesInOrder
  <2>1. \A s \in Tabs : \A n \in 1 .. MaxUpdates[s] :
            outcome[<<s, n>>] = "unused" /\ ~(n <= 0)
    <3>1. \A u \in Updates : outcome[u] = "unused"
      BY DEF Init
    <3>2. \A s \in Tabs : MaxUpdates[s] \in Nat
      BY BoundsAssumption
    <3>3. ASSUME NEW s \in Tabs, NEW n \in 1 .. MaxUpdates[s]
          PROVE  outcome[<<s, n>>] = "unused" /\ ~(n <= 0)
      <4>1. <<s, n>> \in Updates
        BY UpdatesArePairs
      <4>2. n \in Nat /\ n >= 1
        BY <3>2
      <4> QED
        BY <3>1, <4>1, <4>2
    <3> QED
      BY <3>3
  <2> QED
    BY <1>2, <1>4, <1>5, <2>1 DEF UpdatesInOrder
<1>9. TasksRun /\ QueueIsLater
  BY <1>2, <1>5 DEF TasksRun, QueueIsLater
<1>10. SavesAreChained
  BY <1>1, <1>2 DEF SavesAreChained
<1>11. AnswersAreTrue
  BY <1>1 DEF AnswersAreTrue, Store!NoAnswer
<1>12. DocumentAt(0) = EmptyDoc
  BY DEF DocumentAt
<1>13. CacheIsCommitted
  BY <1>1, <1>12 DEF CacheIsCommitted, Init, Unloaded
<1>14. BodiesFollow
  BY <1>1, EmptyIsProper DEF BodiesFollow, IsSave, Unsent
<1>15. AttemptsHaveOrigin
  BY <1>1, EmptyIsProper DEF AttemptsHaveOrigin
<1>16. AttemptsAreKept
  BY <1>1, <1>2, <1>5 DEF AttemptsAreKept, ResolvedEvidenceKept, Init
<1>17. DraftsInOrder
  BY <1>1, <1>2, <1>4, <1>5, EmptyIsProper DEF DraftsInOrder
<1> QED
  BY <1>3, <1>6, <1>7, <1>8, <1>9, <1>10, <1>11, <1>13, <1>14, <1>15, <1>16, <1>17
  DEF SyncInv

\* A step of nobody.
LEMMA StutterSafe ==
    ASSUME SyncInv, UNCHANGED vars
    PROVE  SyncInv'
<1>1. /\ TypeOK /\ ServerInv /\ TabsInv /\ WorkInv /\ CacheIsCommitted
  BY DEF SyncInv, ServerInv, TabsInv, WorkInv
<1>2. UNCHANGED <<rows, history, args, applied, answer, body, calls, cache, fetch, fetches,
                  queue, task, update, outcome>>
  BY DEF vars, serverVars, clientVars
<1>3. TypeOK'
  BY <1>1, <1>2 DEF TypeOK
<1>4. ServerInv'
  BY <1>1, <1>2, NoSendKeeps DEF NoSend, serverVars
<1>5. TabsInv'
  BY <1>1, <1>2, TabsStay
<1>6. CacheIsCommitted' /\ ServerDocument' = ServerDocument
  BY <1>1, <1>2, InDocuments DEF Current
<1>7. AttemptsHaveOrigin' /\ DraftsInOrder'
  BY <1>1, <1>2 DEF WorkInv, AttemptsHaveOrigin, Live, DraftsInOrder, UsedUpdates
<1>8. AttemptsAreKept'
  BY <1>1, <1>2, <1>6 DEF WorkInv, AttemptsAreKept, ResolvedEvidenceKept
<1> QED
  BY <1>3, <1>4, <1>5, <1>6, <1>7, <1>8 DEF SyncInv, ServerInv, TabsInv

\* What the user queues.
LEMMA UserSafe ==
    ASSUME SyncInv, NEW t \in Tabs, UserStep(t)
    PROVE  SyncInv'
<1>1. CASE StartFetch(t)
  BY <1>1, StartFetchSafe
<1>2. CASE Draft(t)
  <2>1. [kind |-> "draft"] \in Kinds
    BY DEF Kinds
  <2> QED
    BY <1>2, <2>1, EnqueueSafe DEF Draft
<1>3. ASSUME NEW key \in RewardKeys, NEW reward \in Rewarded, Validate(t, key, reward)
      PROVE  SyncInv'
  <2>1. [kind |-> "validate", key |-> key, reward |-> reward] \in Kinds
    BY RewardedAssumption DEF Kinds
  <2> QED
    BY <1>3, <2>1, EnqueueSafe DEF Validate
<1> QED
  BY <1>1, <1>2, <1>3 DEF UserStep

\* Every step keeps the invariant.
LEMMA NextSync ==
    ASSUME SyncInv, [Next]_vars
    PROVE  SyncInv'
<1>1. ASSUME NEW t \in Tabs, SaveStep(t) PROVE SyncInv'
  BY <1>1, StartTaskSafe, PutSavedSafe, PutRacesSafe, ReloadedSafe, PutRacesAgainSafe,
     CallFailsSafe DEF SaveStep
<1>2. ASSUME NEW t \in Tabs, FetchStep(t) PROVE SyncInv'
  BY <1>2, FetchDoneSafe, FetchFailsSafe DEF FetchStep
<1>3. ASSUME NEW t \in Tabs, UserStep(t) PROVE SyncInv'
  BY <1>3, UserSafe
<1>4. ASSUME NEW c \in Calls, ServerStep(c) PROVE SyncInv'
  BY <1>4, ServerSafe
<1>5. CASE Finished \/ UNCHANGED vars
  BY <1>5, StutterSafe DEF Finished
<1> QED
  BY <1>1, <1>2, <1>3, <1>4, <1>5 DEF Next

\* SyncInv holds of the client in every reachable state.
THEOREM SyncInvariant == Spec => []SyncInv
<1>1. Init => SyncInv
  BY InitSync
<1>2. SyncInv /\ [Next]_vars => SyncInv'
  BY NextSync
<1> QED
  BY <1>1, <1>2, PTL DEF Spec

\* What a tab shows was committed once, under the revision it sends next.
THEOREM CacheCommitted == Spec => []CacheIsCommitted
<1>1. SyncInv => CacheIsCommitted
  BY DEF SyncInv
<1> QED
  BY <1>1, SyncInvariant, PTL

\* The server's document is proper.
LEMMA ServerDocumentIsProper ==
    ASSUME SyncInv
    PROVE  IsProper(ServerDocument)
<1>1. TypeOK /\ SavesAreChained /\ BodiesFollow /\ Current \in 0 .. Current
  BY DEF SyncInv, TypeOK, Current, Rows
<1>2. IsProper(DocumentAt(Current))
  BY <1>1, DocumentIsProper
<1> QED
  BY <1>2 DEF ServerDocument, Current

\* However saves raced, failed or were applied again, each reward key is paid once
\* and each attempt is recorded once.
THEOREM PaidOnce == Spec => []PaidAndRecordedOnce
<1>1. SyncInv => PaidAndRecordedOnce
  BY ServerDocumentIsProper DEF IsProper, PaidAndRecordedOnce
<1> QED
  BY <1>1, SyncInvariant, PTL

\* An attempt whose save resolved stays until newer ones fill the profile.
THEOREM EvidenceKept == Spec => []ResolvedEvidenceKept
<1>1. SyncInv => ResolvedEvidenceKept
  BY DEF SyncInv, AttemptsAreKept
<1> QED
  BY <1>1, SyncInvariant, PTL

\* Only a committed save changes the server's document.
LEMMA OthersKeepDocument ==
    ASSUME SyncInv, UNCHANGED <<rows, applied>>,
           \/ UNCHANGED <<args, body>>
           \/ \E t \in Tabs : \E request, doc : SendCall(t, request, doc)
    PROVE  ServerDocument' = ServerDocument
<1>1. /\ TypeOK /\ CallsAreFresh /\ SavesAreChained /\ Current \in Nat
      /\ applied \subseteq Calls /\ args \in [Calls -> Asked]
  BY DEF SyncInv, TypeOK, Current, Rows, Asked
<1>2. \A c \in applied : args'[c] = args[c] /\ body'[c] = body[c]
  <2>1. CASE UNCHANGED <<args, body>>
    BY <2>1
  <2>2. ASSUME NEW t \in Tabs, NEW request, NEW doc, SendCall(t, request, doc),
               NEW c \in applied
        PROVE  args'[c] = args[c] /\ body'[c] = body[c]
    <3>1. c # NextCall(t)
      BY <1>1, CallsArePairs DEF CallsAreFresh, NextCall, TypeOK
    <3> QED
      BY <1>1, <2>2, <3>1 DEF SendCall, TypeOK
  <2> QED
    BY <2>1, <2>2
<1>3. \A c \in applied : args'[c].expected \in Nat
  BY <1>1, <1>2 DEF Asked
<1>4. \A c, d \in applied : c # d => args'[c].expected # args'[d].expected
  BY <1>1, <1>2 DEF SavesAreChained
<1>5. DocumentsStayed
  BY <1>1, <1>2, <1>3, <1>4, DocumentsStay DEF DocumentsStayed
<1> QED
  BY <1>1, <1>5, InDocuments DEF DocumentsStayed, Current

\* A tab's later draft is never replaced by its own earlier one.
THEOREM DraftsNeverRevert == Spec => OwnDraftsNeverRevert
<1> DEFINE Later == \A t \in Tabs : ServerDocument'.drafts[t] >= ServerDocument.drafts[t]
<1>1. SyncInv /\ [Next]_vars => [Later]_serverVars
  <2> SUFFICES ASSUME SyncInv, [Next]_vars, ~UNCHANGED serverVars PROVE Later
    OBVIOUS
  <2>1. \A t \in Tabs : ServerDocument.drafts[t] \in Nat
    BY ServerDocumentIsProper DEF IsProper, Docs
  <2>2. CASE ServerDocument' = ServerDocument
    BY <2>1, <2>2
  <2>3. ASSUME NEW t \in Tabs, SaveStep(t) \/ FetchStep(t) \/ UserStep(t)
        PROVE  ServerDocument' = ServerDocument
    <3>1. NoSend \/ \E request, doc : SendCall(t, request, doc)
      <4>1. ASSUME SaveStep(t) PROVE NoSend \/ \E request, doc : SendCall(t, request, doc)
        BY <4>1 DEF SaveStep, StartTask, PutSaved, PutRaces, Reloaded, PutRacesAgain,
                    CallFails, SendGet, SendPut
      <4>2. ASSUME FetchStep(t) PROVE NoSend
        BY <4>2 DEF FetchStep, FetchDone, FetchFails
      <4>3. ASSUME UserStep(t) PROVE NoSend \/ \E request, doc : SendCall(t, request, doc)
        BY <4>3 DEF UserStep, StartFetch, Draft, Validate, Enqueue, SendGet
      <4> QED
        BY <2>3, <4>1, <4>2, <4>3
    <3>2. CASE NoSend
      BY <3>2, OthersKeepDocument DEF NoSend, serverVars
    <3>3. ASSUME NEW request, NEW doc, SendCall(t, request, doc)
          PROVE  ServerDocument' = ServerDocument
      <4>1. UNCHANGED <<rows, applied>>
        BY <3>3 DEF SendCall
      <4> QED
        BY <3>3, <4>1, OthersKeepDocument
    <3> QED
      BY <3>1, <3>2, <3>3
  <2>4. ASSUME NEW c \in Calls, ServerStep(c) PROVE Later
    <3>1. UNCHANGED clientVars
      BY <2>4 DEF ServerStep
    <3>2. CASE Store!Apply(c)
      BY <2>1, <3>1, <3>2, ApplySafe DEF Follows
    <3>3. CASE ~Store!Apply(c)
      <4>1. UNCHANGED <<rows, applied, args, body>>
        BY <2>4, <3>1, <3>3 DEF ServerStep, Store!TellSaved, Store!TellConflict,
           Store!TellLoaded, Store!TellFailed, Store!Tell, clientVars
      <4> QED
        BY <2>2, <4>1, OthersKeepDocument
    <3> QED
      BY <3>2, <3>3
  <2>5. CASE Finished \/ UNCHANGED vars
    BY <2>5 DEF Finished, vars
  <2> QED
    BY <2>2, <2>3, <2>4, <2>5 DEF Next
<1> QED
  BY <1>1, SyncInvariant, PTL DEF Spec, OwnDraftsNeverRevert
=============================================================================
