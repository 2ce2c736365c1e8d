--------------------------- MODULE LegacySyncProofs ---------------------------
(****************************************************************************)
(* LegacyInv is inductive, and what follows from it: the page's ETag stays  *)
(* with its revision, no award is paid twice, and neither the page nor the  *)
(* server loses one, for any number of tabs, keys, saves and flows.         *)
(****************************************************************************)
EXTENDS LegacySyncInv, FiniteSetTheorems, TLAPS

-----------------------------------------------------------------------------
(* Calls and states.                                                        *)

\* A call is named by its tab and its number.
LEMMA CallsArePairs ==
    /\ \A c \in Calls : c[1] \in Tabs /\ c[2] \in Nat /\ c = <<c[1], c[2]>>
    /\ \A b \in Bounds, t \in Tabs : MaxCalls(b, t) \in Nat
    /\ \A b \in Bounds, t \in Tabs : \A n \in 1 .. MaxCalls(b, t) :
          <<t, n>> \in Calls /\ <<t, n>>[1] = t /\ <<t, n>>[2] = n
<1>1. \A b \in Bounds, t \in Tabs : MaxCalls(b, t) \in Nat
  BY LegacyBoundsAssumption DEF MaxCalls
<1>2. ASSUME NEW c \in Calls
      PROVE  c[1] \in Tabs /\ c[2] \in Nat /\ c = <<c[1], c[2]>>
  <2>1. PICK t \in Tabs, b \in Bounds : c \in {t} \X (1 .. MaxCalls(b, t))
    BY DEF Calls
  <2> QED
    BY <1>1, <2>1
<1>3. ASSUME NEW b \in Bounds, NEW t \in Tabs, NEW n \in 1 .. MaxCalls(b, t)
      PROVE  <<t, n>> \in Calls
  <2> DEFINE S == {t} \X (1 .. MaxCalls(b, t))
             All == {{u} \X (1 .. MaxCalls(d, u)) : u \in Tabs, d \in Bounds}
  <2>1. S \in All
    OBVIOUS
  <2>2. <<t, n>> \in S
    OBVIOUS
  <2> HIDE DEF S
  <2> QED
    BY <2>1, <2>2 DEF Calls
<1> QED
  BY <1>1, <1>2, <1>3

\* The awards of a state are finitely many.
LEMMA AwardsAreFinite ==
    ASSUME NEW s \in States
    PROVE  /\ s.awards \in SUBSET Keys /\ IsFiniteSet(s.awards)
           /\ Cardinality(s.awards) \in Nat /\ s.xp \in Nat
           /\ Cardinality(s.awards) <= Cardinality(Keys) /\ Cardinality(Keys) \in Nat
<1>1. IsFiniteSet(Keys) /\ Cardinality(Keys) \in Nat
  BY FinitelyManyAssumption, FS_CardinalityType
<1>2. s.awards \in SUBSET Keys /\ s.xp \in Nat
  BY <1>1 DEF States
<1> QED
  BY <1>1, <1>2, FS_Subset, FS_CardinalityType

\* The state of a profile that was never saved.
LEMMA EmptyIsEarned ==
    /\ IsEarned(Empty)
    /\ \A s \in States : Below(Empty, s)
<1>1. Cardinality({}) = 0 /\ Cardinality(Keys) \in Nat
  BY FS_EmptySet, FinitelyManyAssumption, FS_CardinalityType
<1> QED
  BY <1>1, AwardsAreFinite DEF IsEarned, Empty, States, Below

\* Nothing is missing of a state in itself, nor of what is below in what is above.
LEMMA BelowIsOrder ==
    /\ \A a \in States : Below(a, a)
    /\ \A a, b, c \in States : Below(a, b) /\ Below(b, c) => Below(a, c)
BY AwardsAreFinite DEF Below

\* award() of a key that was not paid adds one point and keeps the rest.
LEMMA AwardIsEarned ==
    ASSUME NEW s, IsEarned(s), NEW k \in Keys \ s.awards
    PROVE  IsEarned(Award(s, k)) /\ Below(s, Award(s, k))
<1> DEFINE more == s.awards \cup {k}
<1>1. /\ s \in States /\ s.awards \in SUBSET Keys /\ IsFiniteSet(s.awards)
      /\ Cardinality(s.awards) \in Nat /\ s.xp \in Nat /\ Cardinality(Keys) \in Nat
      /\ s.xp <= Cardinality(s.awards)
  BY AwardsAreFinite DEF IsEarned
<1>2. IsFiniteSet(more) /\ Cardinality(more) = Cardinality(s.awards) + 1
  BY <1>1, FS_AddElement
<1>3. more \in SUBSET Keys /\ Cardinality(more) <= Cardinality(Keys)
  <2>1. more \in SUBSET Keys
    BY <1>1
  <2> QED
    BY <2>1, FinitelyManyAssumption, FS_Subset
<1>4. Award(s, k).awards = more /\ Award(s, k).xp = s.xp + 1
      /\ Award(s, k) = [awards |-> more, xp |-> s.xp + 1]
  BY DEF Award
<1> HIDE DEF more
<1>5. s.xp + 1 <= Cardinality(more) /\ s.xp + 1 \in 0 .. Cardinality(Keys)
  BY <1>1, <1>2, <1>3
<1>6. s.awards \subseteq more
  BY DEF more
<1> QED
  BY <1>1, <1>3, <1>4, <1>5, <1>6 DEF IsEarned, Below, States

\* Merging keeps both sides and pays nobody twice.
LEMMA MergeIsEarned ==
    ASSUME NEW a, IsEarned(a), NEW b, IsEarned(b)
    PROVE  /\ IsEarned(Merge(a, b))
           /\ Below(a, Merge(a, b)) /\ Below(b, Merge(a, b))
<1> DEFINE all == a.awards \cup b.awards
           x == MergeXp(b.xp, a.xp)
<1>1. /\ a \in States /\ a.awards \in SUBSET Keys /\ a.xp \in Nat
      /\ Cardinality(a.awards) \in Nat /\ a.xp <= Cardinality(a.awards)
      /\ b \in States /\ b.awards \in SUBSET Keys /\ b.xp \in Nat
      /\ Cardinality(b.awards) \in Nat /\ b.xp <= Cardinality(b.awards)
      /\ Cardinality(Keys) \in Nat
  BY AwardsAreFinite DEF IsEarned
<1>2. /\ all \in SUBSET Keys /\ IsFiniteSet(all) /\ Cardinality(all) \in Nat
      /\ Cardinality(all) <= Cardinality(Keys)
      /\ Cardinality(a.awards) <= Cardinality(all)
      /\ Cardinality(b.awards) <= Cardinality(all)
  <2>1. all \in SUBSET Keys /\ a.awards \in SUBSET all /\ b.awards \in SUBSET all
    BY <1>1
  <2>2. IsFiniteSet(all) /\ Cardinality(all) <= Cardinality(Keys)
    BY <2>1, FinitelyManyAssumption, FS_Subset
  <2> HIDE DEF all
  <2> QED
    BY <2>1, <2>2, FS_Subset, FS_CardinalityType
<1>3. Merge(a, b) = [awards |-> all, xp |-> MergeXp(a.xp, b.xp)]
      \/ Merge(a, b) = [awards |-> all, xp |-> x]
  BY DEF Merge, MergeAwards
<1>4. /\ MergeXp(a.xp, b.xp) \in {a.xp, b.xp} /\ x \in {a.xp, b.xp}
      /\ MergeXp(a.xp, b.xp) >= a.xp /\ MergeXp(a.xp, b.xp) >= b.xp
      /\ x >= a.xp /\ x >= b.xp
  BY <1>1 DEF MergeXp
<1>5. /\ Merge(a, b) = [awards |-> Merge(a, b).awards, xp |-> Merge(a, b).xp]
      /\ Merge(a, b).awards = all
      /\ Merge(a, b).xp \in {a.xp, b.xp}
      /\ Merge(a, b).xp >= a.xp /\ Merge(a, b).xp >= b.xp
  BY <1>3, <1>4
<1>6. a.awards \subseteq all /\ b.awards \subseteq all
  OBVIOUS
<1> HIDE DEF all, x
<1>7. Merge(a, b).xp <= Cardinality(all) /\ Merge(a, b).xp \in 0 .. Cardinality(Keys)
  BY <1>1, <1>2, <1>5
<1> QED
  BY <1>1, <1>2, <1>5, <1>6, <1>7 DEF IsEarned, Below, States

-----------------------------------------------------------------------------
(* The states the server ever held.                                         *)

\* The state that the saves S, asked with A and carrying B, left at revision k.
Doc(S, A, B, k) ==
    IF k = 0 THEN Empty ELSE B[CHOOSE c \in S : A[c].expected + 1 = k]

\* At most one save expects each revision: its body is the next state.
LEMMA DocIs ==
    ASSUME NEW S, NEW A, NEW B, NEW c \in S,
           \A d \in S : A[d].expected \in Nat,
           \A d \in S : c # d => A[c].expected # A[d].expected
    PROVE  Doc(S, A, B, A[c].expected + 1) = B[c]
<1> DEFINE k == A[c].expected + 1
           e == CHOOSE d \in S : A[d].expected + 1 = k
<1>1. e \in S /\ A[e].expected + 1 = k
  OBVIOUS
<1> HIDE DEF e
<1>2. e = c
  BY <1>1
<1>3. k # 0
  OBVIOUS
<1> QED
  BY <1>2, <1>3 DEF Doc, e

\* What the routes are asked.
Asked == [op : {"none", "save", "load"}, profile : {Profile},
          expected : Nat, valid : BOOLEAN]

\* The types of the server's part.
ServerTypes ==
    /\ rows \in [{Profile} -> Rows]
    /\ history \in [{Profile} -> SUBSET Rows]
    /\ args \in [Calls -> Asked]
    /\ applied \in SUBSET Calls
    /\ answer \in [Calls -> [kind : {"none", "saved", "conflict", "loaded"},
                         revision : Nat]]
    /\ body \in [Calls -> States]
    /\ calls \in [Tabs -> Nat]

\* The documents of the chain of applied saves.
LEMMA DocumentIs ==
    ASSUME ServerTypes, SavesAreChained
    PROVE  /\ Doc(applied, args, body, 0) = Empty
           /\ \A c \in applied : Doc(applied, args, body, args[c].expected + 1) = body[c]
           /\ \A k \in 1 .. Current : \E c \in applied :
                 args[c].expected + 1 = k /\ Doc(applied, args, body, k) = body[c]
<1>1. \A c \in applied : args[c].expected \in Nat
  BY DEF ServerTypes, Asked
<1>2. \A c \in applied : Doc(applied, args, body, args[c].expected + 1) = body[c]
  BY <1>1, DocIs DEF SavesAreChained
<1>3. Doc(applied, args, body, 0) = Empty
  BY DEF Doc
<1> QED
  BY <1>2, <1>3 DEF SavesAreChained

\* What the server held under a revision stays what it is.
DocumentsStayed ==
    \A k \in 0 .. Current : Doc(applied', args', body', k) = Doc(applied, args, body, k)

\* DocIs, of the next state.
LEMMA DocIsNext ==
    ASSUME NEW k, NEW c \in applied', args'[c].expected + 1 = k, k # 0,
           \A d \in applied' : args'[d].expected \in Nat,
           \A d, e \in applied' : d # e => args'[d].expected # args'[e].expected
    PROVE  Doc(applied', args', body', k) = body'[c]
<1> DEFINE e == CHOOSE d \in applied' : args'[d].expected + 1 = k
<1>1. e \in applied' /\ args'[e].expected + 1 = k
  OBVIOUS
<1> HIDE DEF e
<1>2. e = c
  BY <1>1
<1> QED
  BY <1>2 DEF Doc, e

\* It does while the applied saves stay what they are.
LEMMA DocumentsStay ==
    ASSUME ServerTypes, SavesAreChained, applied \subseteq applied',
           \A c \in applied : args'[c] = args[c] /\ body'[c] = body[c],
           \A c \in applied' : args'[c].expected \in Nat,
           \A c, d \in applied' : c # d => args'[c].expected # args'[d].expected
    PROVE  DocumentsStayed
<1> SUFFICES ASSUME NEW k \in 0 .. Current
             PROVE  Doc(applied', args', body', k) = Doc(applied, args, body, k)
  BY DEF DocumentsStayed
<1>1. CASE k = 0
  BY <1>1 DEF Doc
<1>2. CASE k # 0
  <2>1. Current \in Nat
    BY DEF ServerTypes, Current, Rows
  <2>2. PICK c \in applied : args[c].expected + 1 = k
                             /\ Doc(applied, args, body, k) = body[c]
    BY <1>2, <2>1, DocumentIs
  <2>3. c \in applied' /\ args'[c].expected + 1 = k /\ k # 0 /\ body'[c] = body[c]
    BY <1>2, <2>2
  <2>4. Doc(applied', args', body', k) = body'[c]
    BY <2>3, DocIsNext
  <2> QED
    BY <2>2, <2>3, <2>4
<1> QED
  BY <1>1, <1>2

\* What a save names it was made from.
Follows(request, s, S, A, B, k) ==
    (request.op = "save" /\ request.valid) =>
        request.expected <= k /\ Below(Doc(S, A, B, request.expected), s)

\* The definitions about the server's states, in those terms.
LEMMA InDocuments ==
    /\ \A k : StateAt(k) = Doc(applied, args, body, k)
    /\ \A k : Record(k) = [revision |-> k, state |-> Doc(applied, args, body, k)]
    /\ ServerState = Doc(applied, args, body, Current)
    /\ ServerState' = Doc(applied', args', body', Current')
    /\ BodiesFollow <=>
          \A c \in Calls : IsEarned(body[c])
                           /\ Follows(args[c], body[c], applied, args, body, Current)
    /\ BodiesFollow' <=>
          \A c \in Calls : IsEarned(body'[c])
                           /\ Follows(args'[c], body'[c], applied', args', body', Current')
<1>1. /\ \A k : StateAt(k) = Doc(applied, args, body, k)
      /\ \A k : Record(k) = [revision |-> k, state |-> Doc(applied, args, body, k)]
  BY DEF StateAt, Record, Doc
<1>2. ServerState = Doc(applied, args, body, Current)
  BY DEF ServerState, StateAt, Doc, Current
<1>3. ServerState' = Doc(applied', args', body', Current')
  BY DEF ServerState, StateAt, Doc, Current
<1>4. BodiesFollow <=>
          \A c \in Calls : IsEarned(body[c])
                           /\ Follows(args[c], body[c], applied, args, body, Current)
  BY DEF BodiesFollow, StateAt, Doc, Follows
<1>5. BodiesFollow' <=>
          \A c \in Calls : IsEarned(body'[c])
                           /\ Follows(args'[c], body'[c], applied', args', body', Current')
  BY DEF BodiesFollow, StateAt, Doc, Follows
<1> QED
  BY <1>1, <1>2, <1>3, <1>4, <1>5

\* They are earned.
LEMMA DocumentIsEarned ==
    ASSUME ServerTypes, SavesAreChained, BodiesFollow, NEW k \in 0 .. Current
    PROVE  IsEarned(Doc(applied, args, body, k))
<1>1. Current \in Nat /\ applied \subseteq Calls
  BY DEF ServerTypes, Current, Rows
<1>2. CASE k = 0
  BY <1>2, DocumentIs, EmptyIsEarned
<1>3. CASE k # 0
  BY <1>1, <1>3, DocumentIs DEF BodiesFollow
<1> QED
  BY <1>2, <1>3

-----------------------------------------------------------------------------
(* Calls and what the server does with them.                                *)

ServerInv ==
    ServerTypes /\ CallsAreFresh /\ SavesAreChained /\ AnswersAreTrue /\ BodiesFollow

\* What was sent stays what it is.
SentStays ==
    \A c \in Calls : args[c].op # "none" => args'[c] = args[c] /\ body'[c] = body[c]

\* What a step does to the server's part, and takes from nobody.
ServerMoves ==
    /\ ServerInv' /\ DocumentsStayed /\ SentStays
    /\ Current \in Nat /\ Current' \in Nat /\ Current <= Current'
    /\ Below(Doc(applied, args, body, Current), Doc(applied', args', body', Current'))

\* A call as the pages make them.
IsRequest(request, s) ==
    /\ request \in Asked /\ request.op \in {"save", "load"}
    /\ IsEarned(s)
    /\ Follows(request, s, applied, args, body, Current)

\* What sending it changes.
Sent(t, request, s) ==
    LET n == NextCall(t) IN
    /\ UNCHANGED <<rows, history, applied, answer>>
    /\ calls' = [calls EXCEPT ![t] = @ + 1]
    /\ args' \in [Calls -> Asked] /\ body' \in [Calls -> States] /\ calls' \in [Tabs -> Nat]
    /\ args'[n] = request /\ body'[n] = s
    /\ \A c \in Calls : c # n => args'[c] = args[c] /\ body'[c] = body[c]
    /\ n \in Calls /\ n \notin applied /\ answer[n].kind = "none" /\ args[n].op = "none"

\* A call that the next number names and that was made of what the server held
\* keeps the server's part in order.
LEMMA SendKeeps ==
    ASSUME ServerInv, NEW t \in Tabs, NEW request, NEW s, NextCall(t) \in Calls,
           IsRequest(request, s),
           calls' = [calls EXCEPT ![t] = @ + 1],
           args' = [args EXCEPT ![NextCall(t)] = request],
           body' = [body EXCEPT ![NextCall(t)] = s],
           UNCHANGED <<rows, history, applied, answer>>
    PROVE  Sent(t, request, s) /\ ServerMoves /\ Current' = Current
<1> DEFINE n == NextCall(t)
<1>1. /\ ServerTypes /\ SavesAreChained /\ CallsAreFresh
      /\ args \in [Calls -> Asked] /\ body \in [Calls -> States] /\ calls \in [Tabs -> Nat]
      /\ applied \subseteq Calls /\ Current \in Nat
  BY DEF ServerInv, ServerTypes, Current, Rows
<1>2. n[1] = t /\ n[2] = calls[t] + 1 /\ n \in Calls /\ calls[t] \in Nat
  BY <1>1 DEF NextCall
<1>3. /\ args[n] = Unsent /\ answer[n] = Store!NoAnswer /\ n \notin applied
  BY <1>1, <1>2 DEF CallsAreFresh
<1>4. Sent(t, request, s)
  BY <1>1, <1>2, <1>3 DEF Sent, IsRequest, IsEarned, Unsent, Store!NoAnswer
<1>5. CallsAreFresh'
  <2> SUFFICES ASSUME NEW c \in Calls, c[2] > calls'[c[1]]
               PROVE  /\ args'[c] = Unsent /\ body'[c] = Empty
                      /\ answer'[c] = Store!NoAnswer /\ c \notin applied'
    BY DEF CallsAreFresh
  <2>1. c # n /\ c[2] > calls[c[1]]
    BY <1>1, <1>2, CallsArePairs
  <2>2. /\ args[c] = Unsent /\ body[c] = Empty
        /\ answer[c] = Store!NoAnswer /\ c \notin applied
    BY <1>1, <2>1 DEF CallsAreFresh
  <2> QED
    BY <1>4, <2>1, <2>2 DEF Sent
<1> HIDE DEF n
<1>6. /\ \A c \in applied : args'[c] = args[c] /\ body'[c] = body[c]
      /\ applied' = applied /\ Current' = Current /\ answer' = answer
  BY <1>1, <1>3, <1>4 DEF Sent, n, Current
<1>7. SavesAreChained'
  BY <1>1, <1>6 DEF SavesAreChained
<1>8. DocumentsStayed
  <2>1. \A c \in applied' : args'[c].expected \in Nat
    BY <1>1, <1>6 DEF Asked
  <2>2. \A c, d \in applied' : c # d => args'[c].expected # args'[d].expected
    BY <1>7 DEF SavesAreChained
  <2> QED
    BY <1>1, <1>6, <2>1, <2>2, DocumentsStay
<1>9. AnswersAreTrue'
  <2> SUFFICES ASSUME NEW c \in Calls
               PROVE  /\ answer[c].kind = "loaded" => answer[c].revision <= Current
                      /\ answer[c].kind = "saved" =>
                            c \in applied /\ answer[c].revision = args'[c].expected + 1
    BY <1>6 DEF AnswersAreTrue
  <2> QED
    BY <1>6 DEF AnswersAreTrue, ServerInv
<1>10. BodiesFollow'
  <2> SUFFICES ASSUME NEW c \in Calls
               PROVE  /\ IsEarned(body'[c])
                      /\ Follows(args'[c], body'[c], applied', args', body', Current)
    BY <1>6, InDocuments
  <2>1. \E r \in Asked, b \in States :
           /\ args'[c] = r /\ body'[c] = b /\ IsEarned(b)
           /\ Follows(r, b, applied, args, body, Current)
    <3>1. CASE c = n
      BY <1>4, <3>1 DEF Sent, n, IsRequest, IsEarned
    <3>2. CASE c # n
      BY <1>1, <1>4, <3>2, InDocuments DEF Sent, n, ServerInv
    <3> QED
      BY <3>1, <3>2
  <2>2. PICK r \in Asked, b \in States :
           /\ args'[c] = r /\ body'[c] = b /\ IsEarned(b)
           /\ Follows(r, b, applied, args, body, Current)
    BY <2>1
  <2>3. Follows(r, b, applied', args', body', Current)
    <3> SUFFICES ASSUME r.op = "save", r.valid
                 PROVE  /\ r.expected <= Current
                        /\ Below(Doc(applied', args', body', r.expected), b)
      BY DEF Follows
    <3>1. r.expected \in 0 .. Current /\ Below(Doc(applied, args, body, r.expected), b)
      BY <1>1, <2>2 DEF Follows, Asked
    <3> QED
      BY ONLY <1>1, <1>8, <3>1 DEF DocumentsStayed
  <2> QED
    BY <2>2, <2>3
<1>11. SentStays
  BY <1>4 DEF Sent, SentStays
<1>12. ServerTypes'
  BY <1>1, <1>4, <1>6 DEF ServerTypes, Sent
<1>13. Below(Doc(applied, args, body, Current), Doc(applied', args', body', Current'))
  <2>1. IsEarned(Doc(applied, args, body, Current))
    BY <1>1, DocumentIsEarned DEF ServerInv
  <2>2. Doc(applied', args', body', Current') = Doc(applied, args, body, Current)
    <3>1. Current' = Current /\ Current \in 0 .. Current
      BY <1>1, <1>6
    <3> QED
      BY ONLY <1>8, <3>1 DEF DocumentsStayed
  <2> QED
    BY <2>1, <2>2, BelowIsOrder DEF IsEarned
<1> QED
  BY <1>1, <1>4, <1>5, <1>6, <1>7, <1>8, <1>9, <1>10, <1>11, <1>12, <1>13
     DEF ServerInv, ServerMoves

\* A step that sends nothing.
LEMMA NoSendKeeps ==
    ASSUME ServerInv, NoSend
    PROVE  ServerMoves /\ Current' = Current
<1>1. UNCHANGED <<rows, history, args, applied, answer, body, calls>>
  BY DEF NoSend, serverVars
<1>2. CallsAreFresh'
  BY <1>1 DEF ServerInv, CallsAreFresh
<1>3. SavesAreChained'
  BY <1>1 DEF ServerInv, SavesAreChained, Current
<1>4. AnswersAreTrue'
  BY <1>1 DEF ServerInv, AnswersAreTrue, Current
<1>5. BodiesFollow'
  BY <1>1, InDocuments DEF ServerInv, Current
<1>6. ServerTypes'
  BY <1>1 DEF ServerInv, ServerTypes
<1>7. Current' = Current /\ Current \in Nat
  BY <1>1 DEF ServerInv, ServerTypes, Current, Rows
<1>8. Below(Doc(applied, args, body, Current), Doc(applied', args', body', Current'))
  <2>1. IsEarned(Doc(applied, args, body, Current))
    BY <1>7, DocumentIsEarned DEF ServerInv
  <2> QED
    BY <1>1, <1>7, <2>1, BelowIsOrder DEF IsEarned
<1> QED
  BY <1>1, <1>2, <1>3, <1>4, <1>5, <1>6, <1>7, <1>8
     DEF ServerInv, ServerMoves, DocumentsStayed, SentStays

\* The server commits a save: its body, made from the state it replaces, becomes
\* the server's state.
LEMMA ApplyKeeps ==
    ASSUME ServerInv, NEW c \in Calls, Store!Apply(c), UNCHANGED <<body, calls>>
    PROVE  ServerMoves
<1> DEFINE row == [revision |-> Current + 1, state |-> c]
<1>1. /\ ServerTypes /\ CallsAreFresh /\ SavesAreChained /\ AnswersAreTrue /\ BodiesFollow
      /\ args \in [Calls -> Asked] /\ applied \in SUBSET Calls
      /\ rows \in [{Profile} -> Rows] /\ history \in [{Profile} -> SUBSET Rows]
      /\ Current \in Nat /\ Current + 1 \in Nat /\ args[c].profile = Profile
  BY DEF ServerInv, ServerTypes, Asked, Current, Rows
<1>2. /\ args[c].op = "save" /\ args[c].valid /\ c \notin applied
      /\ answer[c].kind \in {"none", "failed"} /\ args[c].expected = Current
      /\ rows' = [rows EXCEPT ![Profile] = row]
      /\ applied' = applied \cup {c}
      /\ UNCHANGED <<args, answer, body, calls>>
  BY <1>1 DEF Store!Apply, Store!Revision, Current
<1>3. history' \in [{Profile} -> SUBSET Rows]
  <2>1. row \in Rows
    BY <1>1 DEF Rows
  <2>2. history' = [history EXCEPT ![Profile] =
                       {h \in @ \cup {row} : h.revision + 1 > row.revision}]
    BY <1>1 DEF Store!Apply, Store!Revision, Current
  <2> HIDE DEF row
  <2> QED
    BY <1>1, <2>1, <2>2
<1>4. ServerTypes'
  <2>1. rows' \in [{Profile} -> Rows] /\ applied' \in SUBSET Calls
    BY <1>1, <1>2 DEF Rows
  <2> QED
    BY <1>1, <1>2, <1>3, <2>1 DEF ServerTypes
<1>5. Current' = Current + 1
  BY <1>1, <1>2 DEF Current
<1>6. SavesAreChained'
  <2>1. \A d \in applied : args[d].expected \in Nat /\ args[d].expected < Current
    BY <1>1 DEF SavesAreChained, Asked
  <2>2. \A d \in applied' : /\ args[d].op = "save" /\ args[d].expected < Current + 1
                            /\ answer[d].kind \in {"none", "saved"}
    <3>1. answer[c].kind \in {"none", "saved"}
      BY <1>1, <1>2 DEF ServerTypes
    <3> QED
      BY <1>1, <1>2, <2>1, <3>1 DEF SavesAreChained
  <2>3. \A d, e \in applied' : d # e => args[d].expected # args[e].expected
    BY <1>1, <1>2, <2>1 DEF SavesAreChained
  <2>4. \A k \in 1 .. Current + 1 : \E d \in applied' : args[d].expected + 1 = k
    <3> SUFFICES ASSUME NEW k \in 1 .. Current + 1
                 PROVE  \E d \in applied' : args[d].expected + 1 = k
      OBVIOUS
    <3>1. CASE k = Current + 1
      BY <1>2, <3>1
    <3>2. CASE k # Current + 1
      <4>1. k \in 1 .. Current
        BY <1>1, <3>2
      <4> QED
        BY <1>1, <1>2, <4>1 DEF SavesAreChained
    <3> QED
      BY <3>1, <3>2
  <2> QED
    BY <1>2, <1>5, <2>2, <2>3, <2>4 DEF SavesAreChained
<1>7. DocumentsStayed
  <2>1. /\ \A d \in applied' : args'[d].expected \in Nat
        /\ \A d, e \in applied' : d # e => args'[d].expected # args'[e].expected
        /\ \A d \in applied : args'[d] = args[d] /\ body'[d] = body[d]
        /\ applied \subseteq applied'
    BY <1>1, <1>2, <1>6 DEF Asked, SavesAreChained
  <2> QED
    BY <1>1, <2>1, DocumentsStay
<1>8. CallsAreFresh'
  <2> SUFFICES ASSUME NEW d \in Calls, d[2] > calls[d[1]]
               PROVE  /\ args[d] = Unsent /\ body[d] = Empty
                      /\ answer[d] = Store!NoAnswer /\ d \notin applied'
    BY <1>2 DEF CallsAreFresh
  <2>1. /\ args[d] = Unsent /\ body[d] = Empty
        /\ answer[d] = Store!NoAnswer /\ d \notin applied
    BY <1>1 DEF CallsAreFresh
  <2>2. d # c
    BY <1>2, <2>1 DEF Unsent
  <2> QED
    BY <1>2, <2>1, <2>2
<1>9. AnswersAreTrue'
  BY <1>1, <1>2, <1>5 DEF AnswersAreTrue, ServerTypes
<1>10. BodiesFollow'
  <2> SUFFICES ASSUME NEW d \in Calls
               PROVE  /\ IsEarned(body[d])
                      /\ Follows(args[d], body[d], applied', args', body', Current + 1)
    BY <1>2, <1>5, InDocuments
  <2>1. /\ IsEarned(body[d])
        /\ Follows(args[d], body[d], applied, args, body, Current)
    BY <1>1, InDocuments
  <2> QED
    BY <1>1, <1>7, <2>1 DEF Follows, DocumentsStayed, Asked
<1>11. Below(Doc(applied, args, body, Current), Doc(applied', args', body', Current'))
  <2>1. Doc(applied', args', body', Current') = body[c]
    <3>1. /\ c \in applied' /\ args'[c].expected + 1 = Current' /\ Current' # 0
          /\ body'[c] = body[c]
      BY <1>1, <1>2, <1>5
    <3>2. /\ \A d \in applied' : args'[d].expected \in Nat
          /\ \A d, e \in applied' : d # e => args'[d].expected # args'[e].expected
      BY <1>4, <1>6 DEF SavesAreChained, ServerTypes, Asked
    <3>3. Doc(applied', args', body', Current') = body'[c]
      BY ONLY <3>1, <3>2, DocIsNext
    <3> QED
      BY <3>1, <3>3
  <2>2. Below(Doc(applied, args, body, Current), body[c])
    BY <1>1, <1>2, InDocuments DEF Follows
  <2> QED
    BY <2>1, <2>2
<1>12. SentStays
  BY <1>2 DEF SentStays
<1> QED
  BY <1>1, <1>4, <1>5, <1>6, <1>7, <1>8, <1>9, <1>10, <1>11, <1>12
     DEF ServerInv, ServerMoves

\* An answer: the revision now, or the one the save made.
LEMMA TellKeeps ==
    ASSUME ServerInv, NEW c \in Calls, args[c].op # "none",
           Store!TellSaved(c) \/ Store!TellLoaded(c) \/ Store!TellConflict(c),
           UNCHANGED <<body, calls>>
    PROVE  ServerMoves /\ Current' = Current
<1>1. /\ ServerTypes /\ CallsAreFresh /\ SavesAreChained /\ AnswersAreTrue /\ BodiesFollow
      /\ args \in [Calls -> Asked] /\ applied \in SUBSET Calls
      /\ Current \in Nat /\ args[c].profile = Profile /\ args[c].expected \in Nat
  BY DEF ServerInv, ServerTypes, Asked, Current, Rows
<1>2. PICK kind \in {"saved", "loaded", "conflict"}, k \in Nat :
         /\ answer' = [answer EXCEPT ![c] = [kind |-> kind, revision |-> k]]
         /\ kind = "saved" => c \in applied /\ k = args[c].expected + 1
         /\ kind = "loaded" => k = Current /\ args[c].op = "load"
         /\ kind = "conflict" => c \notin applied
  BY <1>1 DEF Store!TellSaved, Store!TellLoaded, Store!TellConflict, Store!Tell,
              Store!Revision, Current
<1>3. UNCHANGED <<rows, history, args, applied, body, calls>>
  BY DEF Store!TellSaved, Store!TellLoaded, Store!TellConflict, Store!Tell
<1>4. /\ Current' = Current
      /\ \A d \in Calls : d # c => answer'[d] = answer[d]
      /\ answer'[c] = [kind |-> kind, revision |-> k]
  BY <1>1, <1>2, <1>3 DEF Current, ServerTypes
<1>5. ServerTypes'
  BY <1>1, <1>2, <1>3 DEF ServerTypes
<1>6. CallsAreFresh'
  <2> SUFFICES ASSUME NEW d \in Calls, d[2] > calls[d[1]]
               PROVE  /\ args[d] = Unsent /\ body[d] = Empty
                      /\ answer'[d] = Store!NoAnswer /\ d \notin applied
    BY <1>3 DEF CallsAreFresh
  <2>1. /\ args[d] = Unsent /\ body[d] = Empty
        /\ answer[d] = Store!NoAnswer /\ d \notin applied
    BY <1>1 DEF CallsAreFresh
  <2>2. d # c
    BY <2>1 DEF Unsent
  <2> QED
    BY <1>4, <2>1, <2>2
<1>7. SavesAreChained'
  <2>1. c \in applied => kind = "saved"
    BY <1>1, <1>2 DEF SavesAreChained
  <2>2. \A d \in applied : answer'[d].kind \in {"none", "saved"}
    BY <1>1, <1>4, <2>1 DEF SavesAreChained
  <2> QED
    BY <1>1, <1>3, <1>4, <2>2 DEF SavesAreChained
<1>8. AnswersAreTrue'
  <2> SUFFICES ASSUME NEW d \in Calls
               PROVE  /\ answer'[d].kind = "loaded" => answer'[d].revision <= Current
                      /\ answer'[d].kind = "saved" =>
                            d \in applied /\ answer'[d].revision = args[d].expected + 1
    BY <1>3, <1>4 DEF AnswersAreTrue
  <2>1. CASE d = c
    BY <1>1, <1>2, <1>4, <2>1
  <2>2. CASE d # c
    BY <1>1, <1>4, <2>2 DEF AnswersAreTrue
  <2> QED
    BY <2>1, <2>2
<1>9. BodiesFollow'
  BY <1>1, <1>3, <1>4, InDocuments
<1>10. Below(Doc(applied, args, body, Current), Doc(applied', args', body', Current'))
  <2>1. IsEarned(Doc(applied, args, body, Current))
    BY <1>1, DocumentIsEarned DEF ServerInv
  <2> QED
    BY <1>3, <1>4, <2>1, BelowIsOrder DEF IsEarned
<1> QED
  BY <1>1, <1>3, <1>4, <1>5, <1>6, <1>7, <1>8, <1>9, <1>10
     DEF ServerInv, ServerMoves, DocumentsStayed, SentStays

-----------------------------------------------------------------------------
(* Enough calls for what runs.                                              *)

Steps == {"idle", "hydrate", "save", "reload", "resave"}
Waiting == [step : Steps, call : Calls \cup {NoCall}, tag : Tags]

Is(x, step) == IF x = step THEN 1 ELSE 0
Weight(x) == 3 * Is(x, "hydrate") + 2 * Is(x, "save") + Is(x, "reload")

\* The flows of fs that wait in this step, and what edits, opens, a timer and
\* flows may cost.
In(fs, step) == Cardinality({f \in Flows : fs[f].step = step})
Base(e, o, w) == 3 * e + 4 * o + (IF w THEN 3 ELSE 0)
Spend(x, fs) == x + 3 * In(fs, "hydrate") + 2 * In(fs, "save") + In(fs, "reload")

\* The number of flows in a step is a number; moving one flow changes it by one.
LEMMA FlowsAreCounted ==
    ASSUME NEW fs \in [Flows -> Waiting], NEW f \in Flows, NEW k \in Waiting,
           NEW gs, \A g \in Flows : gs[g] = IF g = f THEN k ELSE fs[g], NEW step
    PROVE  /\ In(fs, step) \in Nat /\ In(gs, step) \in Nat
           /\ In(gs, step) + Is(fs[f].step, step) = In(fs, step) + Is(k.step, step)
           /\ In(fs, step) >= Is(fs[f].step, step)
<1> DEFINE S == {g \in Flows : fs[g].step = step}
           T == {g \in Flows : gs[g].step = step}
           R == S \ {f}
<1>1. IsFiniteSet(R) /\ Cardinality(R) \in Nat
  BY FinitelyManyAssumption, FS_Subset, FS_CardinalityType
<1>2. f \notin R /\ IsFiniteSet(R \cup {f}) /\ Cardinality(R \cup {f}) = Cardinality(R) + 1
  BY <1>1, FS_AddElement
<1>3. S = IF fs[f].step = step THEN R \cup {f} ELSE R
  OBVIOUS
<1>4. T = IF k.step = step THEN R \cup {f} ELSE R
  OBVIOUS
<1>5. In(fs, step) = Cardinality(S) /\ In(gs, step) = Cardinality(T)
  BY DEF In
<1> HIDE DEF S, T, R
<1>6. Cardinality(S) = IF fs[f].step = step THEN Cardinality(R) + 1 ELSE Cardinality(R)
  BY <1>2, <1>3
<1>7. Cardinality(T) = IF k.step = step THEN Cardinality(R) + 1 ELSE Cardinality(R)
  BY <1>2, <1>4
<1>8. /\ Cardinality(S) \in Nat /\ Cardinality(T) \in Nat
      /\ Cardinality(T) + Is(fs[f].step, step)
           = Cardinality(S) + Is(k.step, step)
      /\ Cardinality(S) >= Is(fs[f].step, step)
  BY ONLY <1>1, <1>6, <1>7 DEF Is
<1> QED
  BY <1>5, <1>8

\* The cost of all flows moves with the one that moves.
LEMMA SpendMoves ==
    ASSUME NEW fs \in [Flows -> Waiting], NEW f \in Flows, NEW k \in Waiting,
           NEW gs, \A g \in Flows : gs[g] = IF g = f THEN k ELSE fs[g],
           NEW x \in Nat
    PROVE  /\ Spend(x, fs) \in Nat
           /\ Spend(x, gs) = Spend(x, fs) - Weight(fs[f].step) + Weight(k.step)
           /\ Spend(x, fs) >= x
           /\ Spend(x, fs) >= Weight(fs[f].step)
<1>1. \A s, t : Is(s, t) \in 0 .. 1
  BY DEF Is
<1>2. ASSUME NEW step
      PROVE  /\ In(fs, step) \in Nat /\ In(gs, step) \in Nat
             /\ In(gs, step) + Is(fs[f].step, step) = In(fs, step) + Is(k.step, step)
             /\ In(fs, step) >= Is(fs[f].step, step)
  BY FlowsAreCounted
<1>3. /\ Spend(x, fs) \in Nat
      /\ Spend(x, gs) = Spend(x, fs) - Weight(fs[f].step) + Weight(k.step)
      /\ Spend(x, fs) >= x
      /\ Spend(x, fs) >= Weight(fs[f].step)
  <2> DEFINE h == In(fs, "hydrate")
             v == In(fs, "save")
             r == In(fs, "reload")
             h2 == In(gs, "hydrate")
             v2 == In(gs, "save")
             r2 == In(gs, "reload")
             a == Is(fs[f].step, "hydrate")
             b == Is(fs[f].step, "save")
             c == Is(fs[f].step, "reload")
             a2 == Is(k.step, "hydrate")
             b2 == Is(k.step, "save")
             c2 == Is(k.step, "reload")
  <2>1. /\ h \in Nat /\ h2 \in Nat /\ h2 + a = h + a2 /\ h >= a
        /\ v \in Nat /\ v2 \in Nat /\ v2 + b = v + b2 /\ v >= b
        /\ r \in Nat /\ r2 \in Nat /\ r2 + c = r + c2 /\ r >= c
    BY <1>2
  <2>2. /\ a \in 0 .. 1 /\ b \in 0 .. 1 /\ c \in 0 .. 1
        /\ a2 \in 0 .. 1 /\ b2 \in 0 .. 1 /\ c2 \in 0 .. 1
    BY <1>1
  <2>3. /\ Weight(fs[f].step) = 3 * a + 2 * b + c
        /\ Weight(k.step) = 3 * a2 + 2 * b2 + c2
        /\ Spend(x, fs) = x + 3 * h + 2 * v + r
        /\ Spend(x, gs) = x + 3 * h2 + 2 * v2 + r2
    BY DEF Weight, Spend
  <2> HIDE DEF h, v, r, h2, v2, r2, a, b, c, a2, b2, c2
  <2> QED
    BY ONLY <2>1, <2>2, <2>3, x \in Nat
<1> QED
  BY <1>3

\* Flows that all rest cost nothing.
LEMMA IdleIsFree ==
    ASSUME NEW x \in Nat
    PROVE  Spend(x, [f \in Flows |-> Idle]) = x
<1>1. \A step : step # "idle" => In([f \in Flows |-> Idle], step) = 0
  <2> SUFFICES ASSUME NEW step, step # "idle"
               PROVE  {f \in Flows : [g \in Flows |-> Idle][f].step = step} = {}
    BY FS_EmptySet DEF In
  <2> QED
    BY DEF Idle
<1> QED
  BY <1>1 DEF Spend

-----------------------------------------------------------------------------
(* Pages.                                                                   *)

\* The types of the pages' part.
PageTypes ==
    /\ edits \in [Tabs -> Nat] /\ opens \in [Tabs -> Nat]
    /\ lost \in Nat
    /\ local \in States
    /\ phase \in [Tabs -> {"closed", "hydrating", "open"}]
    /\ state \in [Tabs -> States]
    /\ revision \in [Tabs -> Nat]
    /\ timer \in [Tabs -> BOOLEAN]
    /\ status \in [Tabs -> {"connecting", "saving", "saved", "offline"}]
    /\ tag \in [Tabs -> Tags]
    /\ cached \in [Tabs -> [revision : Nat, state : States]]
    /\ flow \in [Tabs -> [Flows -> Waiting]]

\* A flow k of a page in phase ph, with ETag tg and state s, when the calls were
\* asked with A and carry B.
FlowOK(k, ph, tg, s, A, B) ==
    /\ k.step = "idle" <=> k = Idle
    /\ k # Idle => /\ ph # "closed" /\ k.call \in Calls
                   /\ A[k.call].op = IF k.step \in {"save", "resave"} THEN "save"
                                                                      ELSE "load"
    /\ k.step = "hydrate" => ph = "hydrating"
    /\ k.tag # NoTag => tg # NoTag
    /\ k.step \in {"save", "resave"} => Below(B[k.call], s)

\* ETag tg, revision rv and cached record ca of a page with state s, when the
\* saves S lead to revision cur.
EtagOK(tg, rv, ca, s, S, A, B, cur) ==
    /\ tg # NoTag =>
          /\ tg = rv /\ rv <= cur
          /\ ca = [revision |-> tg, state |-> Doc(S, A, B, tg)]
          /\ Below(Doc(S, A, B, rv), s)
    /\ tg = NoTag => rv = 0

\* All of a page: its flows fs, its timer tm and the above.
PageOK(fs, ph, tm, tg, rv, ca, s, S, A, B, cur) ==
    /\ \A f \in Flows : FlowOK(fs[f], ph, tg, s, A, B)
    /\ ph = "hydrating" => \A f, g \in Flows : fs[f] # Idle /\ fs[g] # Idle => f = g
    /\ ph # "open" => ~tm
    /\ ph = "closed" => tg = NoTag
    /\ EtagOK(tg, rv, ca, s, S, A, B, cur)
    /\ IsEarned(s)

\* The parts of the invariant about the pages, in those terms.
LEMMA InPages ==
    /\ (FlowsRun /\ EtagFollowsRevision /\ PagesFollow) <=>
          \A t \in Tabs : PageOK(flow[t], phase[t], timer[t], tag[t], revision[t],
                                 cached[t], state[t], applied, args, body, Current)
    /\ (FlowsRun /\ EtagFollowsRevision /\ PagesFollow)' <=>
          \A t \in Tabs : PageOK(flow'[t], phase'[t], timer'[t], tag'[t], revision'[t],
                                 cached'[t], state'[t], applied', args', body', Current')
<1>1. Flows # {}
  BY FinitelyManyAssumption
<1>2. ASSUME FlowsRun, EtagFollowsRevision, PagesFollow, NEW t \in Tabs
      PROVE  PageOK(flow[t], phase[t], timer[t], tag[t], revision[t],
                    cached[t], state[t], applied, args, body, Current)
  BY <1>1, <1>2 DEF FlowsRun, EtagFollowsRevision, PagesFollow, PageOK, FlowOK, EtagOK,
                    Record, StateAt, Doc
<1>3. ASSUME \A t \in Tabs : PageOK(flow[t], phase[t], timer[t], tag[t], revision[t],
                                    cached[t], state[t], applied, args, body, Current)
      PROVE  FlowsRun /\ EtagFollowsRevision /\ PagesFollow
  <2>1. FlowsRun
    BY <1>1, <1>3 DEF FlowsRun, PageOK, FlowOK
  <2>2. EtagFollowsRevision
    BY <1>3 DEF EtagFollowsRevision, PageOK, EtagOK, Record, StateAt, Doc
  <2>3. PagesFollow
    BY <1>3 DEF PagesFollow, PageOK, FlowOK, EtagOK, StateAt, Doc
  <2> QED
    BY <2>1, <2>2, <2>3
<1>4. ASSUME FlowsRun', EtagFollowsRevision', PagesFollow', NEW t \in Tabs
      PROVE  PageOK(flow'[t], phase'[t], timer'[t], tag'[t], revision'[t],
                    cached'[t], state'[t], applied', args', body', Current')
  BY <1>1, <1>4 DEF FlowsRun, EtagFollowsRevision, PagesFollow, PageOK, FlowOK, EtagOK,
                    Record, StateAt, Doc
<1>5. ASSUME \A t \in Tabs : PageOK(flow'[t], phase'[t], timer'[t], tag'[t], revision'[t],
                                    cached'[t], state'[t], applied', args', body', Current')
      PROVE  (FlowsRun /\ EtagFollowsRevision /\ PagesFollow)'
  <2>1. FlowsRun'
    BY <1>1, <1>5 DEF FlowsRun, PageOK, FlowOK
  <2>2. EtagFollowsRevision'
    BY <1>5 DEF EtagFollowsRevision, PageOK, EtagOK, Record, StateAt, Doc
  <2>3. PagesFollow'
    BY <1>5 DEF PagesFollow, PageOK, FlowOK, EtagOK, StateAt, Doc
  <2> QED
    BY <2>1, <2>2, <2>3
<1> QED
  BY <1>2, <1>3, <1>4, <1>5

\* A page stays in order while the server moves.
LEMMA PageStays ==
    ASSUME ServerInv, ServerMoves,
           NEW fs, NEW ph, NEW tm, NEW tg, NEW rv \in Nat, NEW ca, NEW s,
           PageOK(fs, ph, tm, tg, rv, ca, s, applied, args, body, Current)
    PROVE  PageOK(fs, ph, tm, tg, rv, ca, s, applied', args', body', Current')
<1>1. ASSUME NEW f \in Flows PROVE FlowOK(fs[f], ph, tg, s, args', body')
  <2>1. FlowOK(fs[f], ph, tg, s, args, body)
    BY DEF PageOK
  <2>2. fs[f] # Idle => /\ args'[fs[f].call] = args[fs[f].call]
                        /\ body'[fs[f].call] = body[fs[f].call]
    BY <2>1 DEF FlowOK, SentStays, ServerMoves
  <2>3. fs[f].step \in {"save", "resave"} => fs[f] # Idle
    BY DEF Idle
  <2> QED
    BY <2>1, <2>2, <2>3 DEF FlowOK
<1>2. EtagOK(tg, rv, ca, s, applied', args', body', Current')
  <2>1. EtagOK(tg, rv, ca, s, applied, args, body, Current)
    BY DEF PageOK
  <2>2. CASE tg # NoTag
    <3>1. rv \in 0 .. Current /\ rv <= Current'
      BY <2>1, <2>2 DEF EtagOK, ServerMoves
    <3>2. Doc(applied', args', body', rv) = Doc(applied, args, body, rv)
      BY <3>1 DEF ServerMoves, DocumentsStayed
    <3> QED
      BY <2>1, <2>2, <3>1, <3>2 DEF EtagOK
  <2>3. CASE tg = NoTag
    BY <2>1, <2>3 DEF EtagOK
  <2> QED
    BY <2>2, <2>3
<1> QED
  BY <1>1, <1>2 DEF PageOK

\* A flow moves on to a call k2 that suits the page.
LEMMA FlowMoves ==
    ASSUME NEW fs \in [Flows -> Waiting], NEW f \in Flows, NEW k2, NEW ph, NEW tm, NEW tg,
           NEW rv, NEW ca, NEW s, NEW S, NEW A, NEW B, NEW cur,
           PageOK(fs, ph, tm, tg, rv, ca, s, S, A, B, cur),
           FlowOK(k2, ph, tg, s, A, B),
           ph = "open" \/ fs[f] # Idle
    PROVE  PageOK([fs EXCEPT ![f] = k2], ph, tm, tg, rv, ca, s, S, A, B, cur)
<1> DEFINE gs == [fs EXCEPT ![f] = k2]
<1>1. \A g \in Flows : gs[g] = IF g = f THEN k2 ELSE fs[g]
  OBVIOUS
<1> HIDE DEF gs
<1>2. \A g \in Flows : FlowOK(gs[g], ph, tg, s, A, B)
  BY <1>1 DEF PageOK
<1>3. ph = "hydrating" => \A g, h \in Flows : gs[g] # Idle /\ gs[h] # Idle => g = h
  BY <1>1 DEF PageOK
<1>4. PageOK(gs, ph, tm, tg, rv, ca, s, S, A, B, cur)
  BY <1>2, <1>3 DEF PageOK
<1> QED
  BY <1>4 DEF gs

\* A flow is over and the page ready.
LEMMA FlowEnds ==
    ASSUME NEW fs \in [Flows -> Waiting], NEW f \in Flows, NEW ph, NEW tm, NEW tg,
           NEW rv, NEW ca, NEW s, NEW S, NEW A, NEW B, NEW cur,
           PageOK(fs, ph, tm, tg, rv, ca, s, S, A, B, cur),
           ph \in {"closed", "hydrating", "open"}, fs[f] # Idle
    PROVE  /\ PageOK([fs EXCEPT ![f] = Idle], "open", tm, tg, rv, ca, s, S, A, B, cur)
           /\ ph = "hydrating" => \A g \in Flows : [fs EXCEPT ![f] = Idle][g] = Idle
<1> DEFINE gs == [fs EXCEPT ![f] = Idle]
<1>1. \A g \in Flows : gs[g] = IF g = f THEN Idle ELSE fs[g]
  OBVIOUS
<1> HIDE DEF gs
<1>2. \A g \in Flows : FlowOK(Idle, "open", tg, s, A, B)
  BY DEF FlowOK, Idle
<1>3. ph # "closed"
  BY DEF PageOK, FlowOK
<1>4. ph = "hydrating" => \A g \in Flows : gs[g] = Idle
  BY <1>1 DEF PageOK
<1>5. \A g \in Flows : FlowOK(gs[g], "open", tg, s, A, B)
  <2>1. CASE ph = "hydrating"
    BY <1>2, <1>4, <2>1
  <2>2. CASE ph = "open"
    BY <1>1, <1>2, <2>2 DEF PageOK
  <2> QED
    BY <1>3, <2>1, <2>2
<1>6. PageOK(gs, "open", tm, tg, rv, ca, s, S, A, B, cur)
  BY <1>5 DEF PageOK
<1> QED
  BY <1>4, <1>6 DEF gs

\* A page with state s remembers what the server held at revision j, and takes a
\* state s2 in which nothing of it is missing.
LEMMA PageRemembers ==
    ASSUME NEW fs, NEW ph, NEW tm, NEW tg,
           NEW rv, NEW ca, NEW s \in States, NEW S, NEW A, NEW B, NEW cur \in Nat,
           PageOK(fs, ph, tm, tg, rv, ca, s, S, A, B, cur),
           ph # "closed",
           NEW j \in 0 .. cur, NEW s2, IsEarned(s2), Below(Doc(S, A, B, j), s2),
           Below(s, s2) \/ \A f \in Flows : fs[f] = Idle,
           \A c \in Calls : B[c] \in States
    PROVE  PageOK(fs, ph, tm, j, j, [revision |-> j, state |-> Doc(S, A, B, j)], s2,
                  S, A, B, cur)
<1>1. j # NoTag
  BY NoneAssumption
<1>2. ASSUME NEW f \in Flows PROVE FlowOK(fs[f], ph, j, s2, A, B)
  <2>1. FlowOK(fs[f], ph, tg, s, A, B)
    BY DEF PageOK
  <2>2. fs[f].step \in {"save", "resave"} => Below(B[fs[f].call], s2)
    <3>1. SUFFICES ASSUME fs[f].step \in {"save", "resave"}
                   PROVE  Below(B[fs[f].call], s2)
      OBVIOUS
    <3>2. fs[f] # Idle /\ fs[f].call \in Calls /\ Below(B[fs[f].call], s)
      BY <2>1, <3>1 DEF FlowOK, Idle
    <3>3. Below(s, s2) /\ B[fs[f].call] \in States /\ s2 \in States
      BY <3>2 DEF IsEarned
    <3> QED
      BY <3>2, <3>3, BelowIsOrder
  <2> QED
    BY <1>1, <2>1, <2>2 DEF FlowOK
<1>3. EtagOK(j, j, [revision |-> j, state |-> Doc(S, A, B, j)], s2, S, A, B, cur)
  BY <1>1 DEF EtagOK
<1> QED
  BY <1>2, <1>3 DEF PageOK

\* An open page takes a state in which nothing of its own is missing; its timer
\* does not matter.
LEMMA PageGrows ==
    ASSUME NEW fs, NEW tm, NEW tg, NEW rv \in Nat, NEW ca, NEW s \in States,
           NEW S, NEW A, NEW B, NEW cur \in Nat,
           PageOK(fs, "open", tm, tg, rv, ca, s, S, A, B, cur),
           NEW s2, IsEarned(s2), Below(s, s2), NEW tm2,
           \A c \in Calls : B[c] \in States,
           \A k \in 0 .. cur : Doc(S, A, B, k) \in States
    PROVE  PageOK(fs, "open", tm2, tg, rv, ca, s2, S, A, B, cur)
<1>1. s2 \in States
  BY DEF IsEarned
<1>2. ASSUME NEW f \in Flows PROVE FlowOK(fs[f], "open", tg, s2, A, B)
  <2>1. FlowOK(fs[f], "open", tg, s, A, B)
    BY DEF PageOK
  <2>2. fs[f].step \in {"save", "resave"} => Below(B[fs[f].call], s2)
    <3>1. SUFFICES ASSUME fs[f].step \in {"save", "resave"}
                   PROVE  Below(B[fs[f].call], s2)
      OBVIOUS
    <3>2. fs[f] # Idle /\ fs[f].call \in Calls /\ Below(B[fs[f].call], s)
      BY <2>1, <3>1 DEF FlowOK, Idle
    <3> QED
      BY <1>1, <3>2, BelowIsOrder
  <2> QED
    BY <2>1, <2>2 DEF FlowOK
<1>3. EtagOK(tg, rv, ca, s2, S, A, B, cur)
  <2>1. EtagOK(tg, rv, ca, s, S, A, B, cur)
    BY DEF PageOK
  <2>2. tg # NoTag => rv \in 0 .. cur /\ Below(Doc(S, A, B, rv), s)
    BY <2>1 DEF EtagOK
  <2>3. tg # NoTag => Below(Doc(S, A, B, rv), s2)
    BY <1>1, <2>2, BelowIsOrder
  <2> QED
    BY <2>1, <2>3 DEF EtagOK
<1> QED
  BY <1>2, <1>3 DEF PageOK

-----------------------------------------------------------------------------
(* Steps of one page.                                                       *)

\* The page of tab t is in order, and so it is after the step.
ThisPage(t) ==
    PageOK(flow[t], phase[t], timer[t], tag[t], revision[t], cached[t], state[t],
           applied, args, body, Current)
NextPage(t) ==
    PageOK(flow'[t], phase'[t], timer'[t], tag'[t], revision'[t], cached'[t], state'[t],
           applied', args', body', Current')

\* What it may still cost, now and then.
Left(t) == Spend(Base(edits[t], opens[t], timer[t]), flow[t])
NextLeft(t) == Spend(Base(edits'[t], opens'[t], timer'[t]), flow'[t])

\* What the invariant says, part by part.
LEMMA InvariantParts ==
    /\ LegacyInv <=> /\ ServerInv /\ PageTypes /\ CallsSuffice /\ IsEarned(local)
                     /\ \A t \in Tabs : ThisPage(t)
    /\ LegacyInv' <=> /\ ServerInv' /\ PageTypes' /\ CallsSuffice' /\ IsEarned(local')
                      /\ \A t \in Tabs : NextPage(t)
<1>1. TypeOK <=> ServerTypes /\ PageTypes
  BY DEF TypeOK, ServerTypes, PageTypes, Asked, Waiting, Steps
<1>2. TypeOK' <=> ServerTypes' /\ PageTypes'
  BY DEF TypeOK, ServerTypes, PageTypes, Asked, Waiting, Steps
<1>3. IsEarned(local)' <=> IsEarned(local')
  BY DEF IsEarned
<1>4. (FlowsRun /\ EtagFollowsRevision /\ PagesFollow) <=> \A t \in Tabs : ThisPage(t)
  BY InPages DEF ThisPage
<1>5. (FlowsRun' /\ EtagFollowsRevision' /\ PagesFollow') <=> \A t \in Tabs : NextPage(t)
  BY InPages DEF NextPage
<1>6. LegacyInv <=> /\ ServerInv /\ PageTypes /\ CallsSuffice /\ IsEarned(local)
                    /\ \A t \in Tabs : ThisPage(t)
  BY <1>1, <1>4 DEF LegacyInv, ServerInv
<1>7. LegacyInv' <=> /\ ServerInv' /\ PageTypes' /\ CallsSuffice' /\ IsEarned(local')
                     /\ \A t \in Tabs : NextPage(t)
  BY <1>2, <1>3, <1>5 DEF LegacyInv, ServerInv
<1> QED
  BY <1>6, <1>7

\* The calls made and left stay within one of the bounds.
LEMMA InCosts ==
    /\ CallsSuffice <=>
          \E b \in Bounds : \A t \in Tabs : calls[t] + Left(t) <= MaxCalls(b, t)
    /\ CallsSuffice' <=>
          \E b \in Bounds : \A t \in Tabs : calls'[t] + NextLeft(t) <= MaxCalls(b, t)
<1>1. CallsSuffice <=>
          \E b \in Bounds : \A t \in Tabs : calls[t] + Left(t) <= MaxCalls(b, t)
  BY DEF CallsSuffice, Left, Cost, Spend, Base, Count, In
<1>2. CallsSuffice' <=>
          \E b \in Bounds : \A t \in Tabs : calls'[t] + NextLeft(t) <= MaxCalls(b, t)
  BY DEF CallsSuffice, NextLeft, Cost, Spend, Base, Count, In
<1> QED
  BY <1>1, <1>2

\* What is left is a number, and what it costs to move one flow.
LEMMA LeftIs ==
    ASSUME PageTypes, NEW t \in Tabs, NEW f \in Flows, NEW k \in Waiting
    PROVE  LET x == Base(edits[t], opens[t], timer[t]) IN
           /\ x \in Nat /\ x = 3 * edits[t] + 4 * opens[t] + (IF timer[t] THEN 3 ELSE 0)
           /\ Left(t) \in Nat /\ Left(t) >= x /\ Left(t) >= Weight(flow[t][f].step)
           /\ Spend(x, [flow[t] EXCEPT ![f] = k])
                = Left(t) - Weight(flow[t][f].step) + Weight(k.step)
<1>1. ASSUME NEW x \in Nat, NEW fs \in [Flows -> Waiting]
      PROVE  /\ Spend(x, fs) \in Nat
             /\ Spend(x, fs) >= x /\ Spend(x, fs) >= Weight(fs[f].step)
             /\ Spend(x, [fs EXCEPT ![f] = k])
                  = Spend(x, fs) - Weight(fs[f].step) + Weight(k.step)
  <2> DEFINE gs == [fs EXCEPT ![f] = k]
  <2>1. \A g \in Flows : gs[g] = IF g = f THEN k ELSE fs[g]
    OBVIOUS
  <2> HIDE DEF gs
  <2>2. Spend(x, fs) \in Nat /\ Spend(x, fs) >= x
    BY SpendMoves
  <2>3. Spend(x, fs) >= Weight(fs[f].step)
    BY SpendMoves
  <2>4. Spend(x, gs) = Spend(x, fs) - Weight(fs[f].step) + Weight(k.step)
    BY <2>1, SpendMoves
  <2> QED
    BY <2>2, <2>3, <2>4 DEF gs
<1>2. LET x == Base(edits[t], opens[t], timer[t]) IN
      x \in Nat /\ x = 3 * edits[t] + 4 * opens[t] + (IF timer[t] THEN 3 ELSE 0)
  BY DEF PageTypes, Base
<1>3. flow[t] \in [Flows -> Waiting]
  BY DEF PageTypes
<1> QED
  BY <1>1, <1>2, <1>3 DEF Left

\* While something is left there is a next call.
LEMMA CallsAreLeft ==
    ASSUME ServerTypes, CallsSuffice, NEW t \in Tabs, Left(t) \in Nat, Left(t) >= 1
    PROVE  NextCall(t) \in Calls
<1>1. calls[t] \in Nat
  BY DEF ServerTypes
<1>2. PICK b \in Bounds : calls[t] + Left(t) <= MaxCalls(b, t)
  BY InCosts
<1>3. MaxCalls(b, t) \in Nat
  BY CallsArePairs
<1>4. calls[t] + 1 \in 1 .. MaxCalls(b, t)
  BY ONLY <1>1, <1>2, <1>3, Left(t) \in Nat, Left(t) >= 1
<1> QED
  BY <1>4, CallsArePairs DEF NextCall

\* What a step of tab t does to the pages.
TabMoves(t) ==
    /\ PageTypes'
    /\ IsEarned(local')
    /\ \A u \in Tabs : u # t =>
          /\ flow'[u] = flow[u] /\ phase'[u] = phase[u] /\ timer'[u] = timer[u]
          /\ tag'[u] = tag[u] /\ revision'[u] = revision[u] /\ cached'[u] = cached[u]
          /\ state'[u] = state[u] /\ calls'[u] = calls[u]
          /\ edits'[u] = edits[u] /\ opens'[u] = opens[u]
    /\ NextPage(t)
    /\ calls'[t] + NextLeft(t) <= calls[t] + Left(t)
    /\ phase[t] = "open" /\ phase'[t] = "open" => Below(state[t], state'[t])

\* What no step takes away.
PagesKeep ==
    \A t \in Tabs : phase[t] = "open" /\ phase'[t] = "open" => Below(state[t], state'[t])

Safe == LegacyInv' /\ PagesKeep /\ ServerMoves

\* Such a step keeps the invariant.
LEMMA TabSafe ==
    ASSUME LegacyInv, NEW t \in Tabs, ServerMoves, TabMoves(t)
    PROVE  Safe
<1>1. /\ ServerInv /\ ServerTypes /\ PageTypes /\ CallsSuffice
      /\ \A u \in Tabs : ThisPage(u)
  BY InvariantParts DEF ServerInv
<1>2. ASSUME NEW u \in Tabs PROVE NextPage(u)
  <2>1. CASE u = t
    BY <2>1 DEF TabMoves
  <2>2. CASE u # t
    <3>1. revision[u] \in Nat
      BY <1>1 DEF PageTypes
    <3>2. PageOK(flow[u], phase[u], timer[u], tag[u], revision[u], cached[u], state[u],
                 applied', args', body', Current')
      BY <1>1, <3>1, PageStays DEF ThisPage
    <3> QED
      BY <2>2, <3>2 DEF NextPage, TabMoves
  <2> QED
    BY <2>1, <2>2
<1>3. CallsSuffice'
  <2>1. PICK b \in Bounds : \A u \in Tabs : calls[u] + Left(u) <= MaxCalls(b, u)
    BY <1>1, InCosts
  <2>2. ASSUME NEW u \in Tabs PROVE calls'[u] + NextLeft(u) <= MaxCalls(b, u)
    <3>1. CASE u # t
      BY <2>1, <3>1 DEF TabMoves, NextLeft, Left
    <3>2. CASE u = t
      <4>1. calls[t] + Left(t) <= MaxCalls(b, t)
        BY <2>1
      <4>2. calls[t] \in Nat /\ calls'[t] \in Nat /\ MaxCalls(b, t) \in Nat
        BY <1>1, CallsArePairs DEF ServerMoves, ServerInv, ServerTypes
      <4>3. Left(t) \in Nat
        BY <1>1, LeftIs, FinitelyManyAssumption DEF PageTypes
      <4>4. NextLeft(t) \in Nat
        <5>1. Base(edits'[t], opens'[t], timer'[t]) \in Nat /\ flow'[t] \in [Flows -> Waiting]
          BY DEF TabMoves, PageTypes, Base
        <5>2. PICK f \in Flows : flow'[t][f] \in Waiting
          BY <5>1, FinitelyManyAssumption
        <5> QED
          BY <5>1, <5>2, SpendMoves DEF NextLeft
      <4>5. calls'[t] + NextLeft(t) <= calls[t] + Left(t)
        BY DEF TabMoves
      <4>6. calls'[t] + NextLeft(t) <= MaxCalls(b, t)
        BY ONLY <4>1, <4>2, <4>3, <4>4, <4>5
      <4> QED
        BY <3>2, <4>6
    <3> QED
      BY <3>1, <3>2
  <2> QED
    BY <2>2, InCosts
<1>4. LegacyInv'
  BY <1>2, <1>3, InvariantParts DEF ServerMoves, TabMoves
<1>5. PagesKeep
  <2> SUFFICES ASSUME NEW u \in Tabs, phase[u] = "open", phase'[u] = "open"
               PROVE  Below(state[u], state'[u])
    BY DEF PagesKeep
  <2>1. state[u] \in States
    BY <1>1 DEF PageTypes
  <2> QED
    BY <2>1, BelowIsOrder DEF TabMoves
<1> QED
  BY <1>4, <1>5 DEF Safe

\* The server's own steps keep it too.
LEMMA ServerSafe ==
    ASSUME LegacyInv, NEW c \in Calls, ServerStep(c)
    PROVE  Safe
<1>1. /\ ServerInv /\ PageTypes /\ CallsSuffice /\ IsEarned(local)
      /\ \A u \in Tabs : ThisPage(u)
  BY InvariantParts
<1>2. UNCHANGED <<body, calls, edits, opens, lost, local, phase, state, revision, timer,
                  status, tag, cached, flow>>
  BY DEF ServerStep, counted, pageVars
<1>3. ServerMoves
  BY <1>1, <1>2, ApplyKeeps, TellKeeps DEF ServerStep
<1>4. ASSUME NEW u \in Tabs PROVE NextPage(u)
  <2>1. revision[u] \in Nat
    BY <1>1 DEF PageTypes
  <2>2. PageOK(flow[u], phase[u], timer[u], tag[u], revision[u], cached[u], state[u],
               applied', args', body', Current')
    BY <1>1, <1>3, <2>1, PageStays DEF ThisPage
  <2> QED
    BY <1>2, <2>2 DEF NextPage
<1>5. CallsSuffice'
  BY <1>1, <1>2, InCosts DEF Left, NextLeft
<1>6. PageTypes'
  BY <1>1, <1>2 DEF PageTypes
<1>7. PagesKeep
  <2>1. \A u \in Tabs : state[u] \in States /\ state'[u] = state[u]
    BY <1>1, <1>2 DEF PageTypes
  <2> QED
    BY <2>1, BelowIsOrder DEF PagesKeep
<1>8. IsEarned(local')
  BY <1>1, <1>2
<1>9. LegacyInv'
  BY <1>3, <1>4, <1>5, <1>6, <1>8, InvariantParts DEF ServerMoves
<1> QED
  BY <1>3, <1>7, <1>9 DEF Safe

-----------------------------------------------------------------------------
(* What the pages send and what they are told.                              *)

\* A load carries nothing.
LEMMA GetIsRequest ==
    /\ IsRequest([Unsent EXCEPT !.op = "load"], Empty)
    /\ [Unsent EXCEPT !.op = "load"].op = "load"
BY EmptyIsEarned DEF IsRequest, Follows, Asked, Unsent

\* A save whose ETag is its revision was made from what the server holds there.
LEMMA PutIsRequest ==
    ASSUME NEW k \in Nat, NEW e, NEW s, IsEarned(s),
           e = k => k <= Current /\ Below(Doc(applied, args, body, k), s)
    PROVE  LET r == [Unsent EXCEPT !.op = "save", !.expected = k, !.valid = (e = k)] IN
           IsRequest(r, s) /\ r.op = "save"
<1> DEFINE v == (e = k)
           r == [Unsent EXCEPT !.op = "save", !.expected = k, !.valid = v]
<1>1. v \in BOOLEAN /\ (v => e = k)
  OBVIOUS
<1> HIDE DEF v
<1>2. r \in Asked /\ r.op = "save" /\ r.expected = k /\ r.valid = v
  BY <1>1 DEF Asked, Unsent
<1> HIDE DEF r
<1>3. IsRequest(r, s) /\ r.op = "save"
  BY <1>1, <1>2 DEF IsRequest, Follows
<1> QED
  BY <1>3 DEF r, v

\* What flow f of tab t becomes when it sends its next call.
Sending(t, step) == [step |-> step, call |-> NextCall(t), tag |-> tag[t]]

\* The state after a call was sent.
IsSent(t, f, step, request, s) ==
    /\ ServerMoves /\ Current' = Current
    /\ calls'[t] = calls[t] + 1 /\ calls[t] \in Nat
    /\ \A u \in Tabs : u # t => calls'[u] = calls[u] /\ flow'[u] = flow[u]
    /\ flow' \in [Tabs -> [Flows -> Waiting]]
    /\ flow'[t] = [flow[t] EXCEPT ![f] = Sending(t, step)]
    /\ Sending(t, step) \in Waiting /\ Sending(t, step) # Idle
    /\ NextCall(t) \in Calls
    /\ args'[NextCall(t)] = request /\ body'[NextCall(t)] = s

\* A request of the kinds above, sent while something is left, leads to that state.
LEMMA CallIsSent ==
    ASSUME LegacyInv, NEW t \in Tabs, NEW f \in Flows, NEW step \in Steps \ {"idle"},
           NEW request, NEW s, IsRequest(request, s),
           SendCall(t, f, step, request, s), Left(t) >= 1
    PROVE  IsSent(t, f, step, request, s)
<1>1. /\ ServerInv /\ ServerTypes /\ PageTypes /\ CallsSuffice
      /\ calls \in [Tabs -> Nat] /\ flow \in [Tabs -> [Flows -> Waiting]]
      /\ tag[t] \in Tags
  BY InvariantParts DEF ServerInv, ServerTypes, PageTypes
<1>2. Left(t) \in Nat
  <2>1. flow[t][f] \in Waiting
    BY <1>1
  <2> QED
    BY <1>1, <2>1, LeftIs
<1>3. NextCall(t) \in Calls
  BY <1>1, <1>2, CallsAreLeft
<1>4. Sent(t, request, s) /\ ServerMoves /\ Current' = Current
  BY <1>1, <1>3, SendKeeps DEF SendCall
<1>5. Sending(t, step) \in Waiting /\ Sending(t, step) # Idle
  BY <1>1, <1>3 DEF Sending, Waiting, Idle
<1>6. flow' = [flow EXCEPT ![t][f] = Sending(t, step)]
  BY DEF SendCall, Sending
<1>7. /\ flow' \in [Tabs -> [Flows -> Waiting]]
      /\ flow'[t] = [flow[t] EXCEPT ![f] = Sending(t, step)]
      /\ \A u \in Tabs : u # t => flow'[u] = flow[u]
  BY <1>1, <1>5, <1>6
<1> QED
  BY <1>1, <1>3, <1>4, <1>5, <1>7 DEF IsSent, Sent

\* What such a call needs to suit the page.
LEMMA SendingIsOK ==
    ASSUME NEW t \in Tabs, NEW f \in Flows, NEW step \in Steps \ {"idle"},
           NEW request, NEW s, IsSent(t, f, step, request, s),
           request.op = IF step \in {"save", "resave"} THEN "save" ELSE "load",
           NEW ph, ph # "closed", step = "hydrate" => ph = "hydrating",
           NEW tg, tag[t] # NoTag => tg # NoTag,
           NEW s2, step \in {"save", "resave"} => Below(s, s2)
    PROVE  FlowOK(Sending(t, step), ph, tg, s2, args', body')
<1>1. /\ Sending(t, step).step = step /\ Sending(t, step).call = NextCall(t)
      /\ Sending(t, step).tag = tag[t]
  BY DEF Sending
<1> QED
  BY <1>1 DEF FlowOK, IsSent

\* What a load returns is what the server held under some revision.
LEMMA LoadIs ==
    ASSUME LegacyInv, NEW t \in Tabs, NEW f \in Flows, flow[t][f] # Idle,
           answer[flow[t][f].call].kind = "loaded"
    PROVE  \E j \in 0 .. Current :
              /\ LoadResult(t, f) = [revision |-> j, state |-> Doc(applied, args, body, j)]
              /\ IsEarned(Doc(applied, args, body, j))
<1> DEFINE k == answer[flow[t][f].call].revision
<1>1. /\ ServerInv /\ ServerTypes /\ AnswersAreTrue /\ SavesAreChained /\ BodiesFollow
      /\ PageTypes /\ ThisPage(t)
  BY InvariantParts DEF ServerInv
<1>2. /\ FlowOK(flow[t][f], phase[t], tag[t], state[t], args, body)
      /\ EtagOK(tag[t], revision[t], cached[t], state[t], applied, args, body, Current)
  BY <1>1 DEF ThisPage, PageOK
<1>3. flow[t][f].call \in Calls
  BY <1>2 DEF FlowOK
<1>4. k \in 0 .. Current /\ Current \in Nat
  BY <1>1, <1>3 DEF AnswersAreTrue, ServerTypes, Current, Rows
<1>5. revision[t] \in Nat
  BY <1>1 DEF PageTypes
<1>6. \E j \in 0 .. Current :
         LoadResult(t, f) = [revision |-> j, state |-> Doc(applied, args, body, j)]
  <2>1. CASE k = flow[t][f].tag
    <3>1. tag[t] # NoTag
      BY <1>2, <1>4, <2>1, NoneAssumption DEF FlowOK
    <3>2. /\ tag[t] \in 0 .. Current
          /\ cached[t] = [revision |-> tag[t], state |-> Doc(applied, args, body, tag[t])]
      BY <1>2, <1>4, <1>5, <3>1 DEF EtagOK
    <3> QED
      BY <2>1, <3>2 DEF LoadResult
  <2>2. CASE k # flow[t][f].tag
    <3>1. LoadResult(t, f) = Record(k)
      BY <2>2 DEF LoadResult
    <3>2. Record(k) = [revision |-> k, state |-> Doc(applied, args, body, k)]
      BY InDocuments
    <3> QED
      BY <1>4, <3>1, <3>2
  <2> QED
    BY <2>1, <2>2
<1> QED
  BY <1>1, <1>6, DocumentIsEarned

-----------------------------------------------------------------------------
(* Steps that send nothing.                                                 *)

\* The parts of the invariant that a step of tab t starts from.
Before(t) ==
    /\ ServerInv /\ PageTypes /\ CallsSuffice /\ IsEarned(local) /\ ThisPage(t)
    /\ Current \in Nat /\ (\A c \in Calls : body[c] \in States)
    /\ \A k \in 0 .. Current : /\ Doc(applied, args, body, k) \in States
                               /\ IsEarned(Doc(applied, args, body, k))
    /\ state[t] \in States /\ IsEarned(state[t]) /\ revision[t] \in Nat
    /\ flow[t] \in [Flows -> Waiting]
    /\ phase[t] \in {"closed", "hydrating", "open"}
    /\ Left(t) \in Nat /\ calls[t] \in Nat

\* The invariant gives all of it.
LEMMA BeforeHolds ==
    ASSUME LegacyInv, NEW t \in Tabs
    PROVE  Before(t)
<1>1. /\ ServerInv /\ ServerTypes /\ SavesAreChained /\ BodiesFollow
      /\ PageTypes /\ CallsSuffice /\ IsEarned(local) /\ ThisPage(t)
  BY InvariantParts DEF ServerInv
<1>2. Current \in Nat /\ (\A c \in Calls : body[c] \in States) /\ calls[t] \in Nat
  BY <1>1 DEF ServerTypes, Current, Rows
<1>3. \A k \in 0 .. Current : /\ Doc(applied, args, body, k) \in States
                              /\ IsEarned(Doc(applied, args, body, k))
  BY <1>1, DocumentIsEarned DEF IsEarned
<1>4. /\ state[t] \in States /\ revision[t] \in Nat /\ flow[t] \in [Flows -> Waiting]
      /\ phase[t] \in {"closed", "hydrating", "open"}
  BY <1>1 DEF PageTypes
<1>5. IsEarned(state[t])
  BY <1>1 DEF ThisPage, PageOK
<1>6. Left(t) \in Nat
  <2>1. PICK f \in Flows : flow[t][f] \in Waiting
    BY <1>4, FinitelyManyAssumption
  <2> QED
    BY <1>1, <2>1, LeftIs
<1> QED
  BY <1>1, <1>2, <1>3, <1>4, <1>5, <1>6 DEF Before

\* A flow that ends costs nothing more.
LEMMA EndIsCheaper ==
    ASSUME LegacyInv, NEW t \in Tabs, NEW f \in Flows,
           flow'[t] = [flow[t] EXCEPT ![f] = Idle],
           edits'[t] = edits[t], opens'[t] = opens[t], timer'[t] = timer[t],
           calls'[t] = calls[t]
    PROVE  calls'[t] + NextLeft(t) <= calls[t] + Left(t)
<1>1. PageTypes /\ Before(t)
  BY BeforeHolds DEF Before
<1>2. Idle \in Waiting /\ Weight(Idle.step) = 0 /\ Weight(flow[t][f].step) \in Nat
  BY DEF Idle, Waiting, Steps, Tags, Weight, Is
<1>3. NextLeft(t) = Left(t) - Weight(flow[t][f].step) + 0
  BY <1>1, <1>2, LeftIs DEF NextLeft
<1>4. Left(t) \in Nat /\ calls[t] \in Nat /\ Left(t) >= Weight(flow[t][f].step)
  BY <1>1, <1>2, LeftIs DEF Before
<1> QED
  BY ONLY <1>2, <1>3, <1>4, calls'[t] = calls[t]

\* "Offline backup": the page keeps what it has.
LEMMA CallFailsSafe ==
    ASSUME LegacyInv, NEW t \in Tabs, NEW f \in Flows, CallFails(t, f)
    PROVE  Safe
<1>1. Before(t) /\ ServerInv /\ PageTypes
  BY BeforeHolds DEF Before
<1>2. /\ flow[t][f] # Idle /\ NoSend /\ Show(t, "offline") /\ lost' \in Nat
      /\ flow' = [flow EXCEPT ![t][f] = Idle] /\ phase' = [phase EXCEPT ![t] = "open"]
      /\ UNCHANGED <<edits, opens, local, state, revision, timer, tag, cached>>
  BY <1>1 DEF CallFails, EndFlow, PageTypes
<1>3. ServerMoves /\ calls' = calls
  BY <1>1, <1>2, NoSendKeeps DEF NoSend
<1>4. Idle \in Waiting
  BY DEF Idle, Waiting, Steps, Tags
<1>5. PageTypes'
  BY <1>1, <1>2, <1>4 DEF PageTypes, Show
<1>6. flow'[t] = [flow[t] EXCEPT ![f] = Idle] /\ phase'[t] = "open"
  BY <1>1, <1>2 DEF PageTypes
<1>7. NextPage(t)
  <2>1. PageOK([flow[t] EXCEPT ![f] = Idle], "open", timer[t], tag[t], revision[t],
               cached[t], state[t], applied, args, body, Current)
    BY <1>1, <1>2, FlowEnds DEF Before, ThisPage
  <2>2. PageOK([flow[t] EXCEPT ![f] = Idle], "open", timer[t], tag[t], revision[t],
               cached[t], state[t], applied', args', body', Current')
    BY <1>1, <1>3, <2>1, PageStays DEF Before
  <2> QED
    BY <1>2, <1>6, <2>2 DEF NextPage
<1>8. calls'[t] + NextLeft(t) <= calls[t] + Left(t)
  BY <1>2, <1>3, <1>6, EndIsCheaper
<1>9. \A u \in Tabs : u # t => flow'[u] = flow[u] /\ phase'[u] = phase[u]
  BY <1>1, <1>2 DEF PageTypes
<1>10. TabMoves(t)
  BY <1>1, <1>2, <1>3, <1>5, <1>7, <1>8, <1>9, BelowIsOrder DEF TabMoves, Before
<1> QED
  BY <1>3, <1>10, TabSafe

\* A save that succeeded: the page has what the server has.
LEMMA SaveDoneSafe ==
    ASSUME LegacyInv, NEW t \in Tabs, NEW f \in Flows, SaveDone(t, f)
    PROVE  Safe
<1> DEFINE c == flow[t][f].call
           k == answer[c].revision
<1>1. /\ Before(t) /\ ServerInv /\ ServerTypes /\ SavesAreChained /\ AnswersAreTrue
      /\ PageTypes
  BY BeforeHolds DEF Before, ServerInv
<1>2. /\ flow[t][f].step \in {"save", "resave"} /\ answer[c].kind = "saved"
      /\ NoSend /\ Show(t, "saved")
      /\ flow' = [flow EXCEPT ![t][f] = Idle] /\ phase' = [phase EXCEPT ![t] = "open"]
      /\ cached' = [cached EXCEPT ![t] = [revision |-> k, state |-> body[c]]]
      /\ tag' = [tag EXCEPT ![t] = k] /\ revision' = [revision EXCEPT ![t] = k]
      /\ UNCHANGED <<edits, opens, lost, local, state, timer>>
  BY DEF SaveDone, Waits, EndFlow, Remember, NewTag, counted
<1>3. flow[t][f] # Idle /\ c \in Calls /\ Below(body[c], state[t])
  <2>1. FlowOK(flow[t][f], phase[t], tag[t], state[t], args, body)
    BY <1>1 DEF Before, ThisPage, PageOK
  <2> QED
    BY <1>2, <2>1 DEF FlowOK, Idle
<1>4. k \in 0 .. Current /\ Doc(applied, args, body, k) = body[c]
  <2>1. /\ c \in applied /\ k = args[c].expected + 1 /\ args[c].expected < Current
        /\ args[c].expected \in Nat /\ Current \in Nat
    BY <1>1, <1>2, <1>3 DEF AnswersAreTrue, SavesAreChained, ServerTypes, Asked, Before
  <2> QED
    BY <1>1, <2>1, DocumentIs
<1> HIDE DEF k, c
<1>5. ServerMoves /\ calls' = calls
  BY <1>1, <1>2, NoSendKeeps DEF NoSend
<1>6. Idle \in Waiting /\ k \in Tags /\ k \in Nat /\ body[c] \in States
  BY <1>1, <1>3, <1>4 DEF Idle, Waiting, Steps, Tags, ServerTypes, Before
<1>7. PageTypes'
  BY <1>1, <1>2, <1>6 DEF PageTypes, Show
<1>8. /\ flow'[t] = [flow[t] EXCEPT ![f] = Idle] /\ phase'[t] = "open"
      /\ cached'[t] = [revision |-> k, state |-> body[c]] /\ tag'[t] = k /\ revision'[t] = k
  BY <1>1, <1>2 DEF PageTypes
<1>9. NextPage(t)
  <2>1. PageOK([flow[t] EXCEPT ![f] = Idle], "open", timer[t], tag[t], revision[t],
               cached[t], state[t], applied, args, body, Current)
    BY <1>1, <1>3, FlowEnds DEF Before, ThisPage
  <2>2. PageOK([flow[t] EXCEPT ![f] = Idle], "open", timer[t], k, k,
               [revision |-> k, state |-> Doc(applied, args, body, k)],
               state[t], applied, args, body, Current)
    BY <1>1, <1>3, <1>4, <2>1, PageRemembers, BelowIsOrder DEF Before
  <2>3. PageOK([flow[t] EXCEPT ![f] = Idle], "open", timer[t], k, k,
               [revision |-> k, state |-> Doc(applied, args, body, k)],
               state[t], applied', args', body', Current')
    BY <1>1, <1>5, <1>6, <2>2, PageStays
  <2> QED
    BY <1>2, <1>4, <1>8, <2>3 DEF NextPage
<1>10. calls'[t] + NextLeft(t) <= calls[t] + Left(t)
  BY <1>2, <1>5, <1>8, EndIsCheaper
<1>11. \A u \in Tabs : u # t => /\ flow'[u] = flow[u] /\ phase'[u] = phase[u]
                                /\ cached'[u] = cached[u] /\ tag'[u] = tag[u]
                                /\ revision'[u] = revision[u]
  BY <1>1, <1>2 DEF PageTypes
<1>12. TabMoves(t)
  BY <1>1, <1>2, <1>5, <1>7, <1>9, <1>10, <1>11, BelowIsOrder DEF TabMoves, Before
<1> QED
  BY <1>5, <1>12, TabSafe

\* The server's state replaces that of a page nobody has used yet.
LEMMA HydratedSafe ==
    ASSUME LegacyInv, NEW t \in Tabs, NEW f \in Flows, Hydrated(t, f)
    PROVE  Safe
<1>1. Before(t) /\ ServerInv /\ PageTypes
  BY BeforeHolds DEF Before
<1>2. flow[t][f] # Idle /\ phase[t] = "hydrating"
  <2>1. FlowOK(flow[t][f], phase[t], tag[t], state[t], args, body)
    BY <1>1 DEF Before, ThisPage, PageOK
  <2> QED
    BY <2>1 DEF FlowOK, Idle, Hydrated, Waits
<1>3. PICK j \in 0 .. Current :
         /\ LoadResult(t, f) = [revision |-> j, state |-> Doc(applied, args, body, j)]
         /\ IsEarned(Doc(applied, args, body, j))
  BY <1>2, LoadIs DEF Hydrated, Waits
<1> DEFINE s == Doc(applied, args, body, j)
<1>4. /\ NoSend /\ Show(t, "saved")
      /\ flow' = [flow EXCEPT ![t][f] = Idle] /\ phase' = [phase EXCEPT ![t] = "open"]
      /\ cached' = [cached EXCEPT ![t] = [revision |-> j, state |-> s]]
      /\ tag' = [tag EXCEPT ![t] = j] /\ revision' = [revision EXCEPT ![t] = j]
      /\ state' = [state EXCEPT ![t] = s]
      /\ UNCHANGED <<edits, opens, lost, local, timer>>
  BY <1>3 DEF Hydrated, EndFlow, Remember, NewTag, counted
<1>5. s \in States /\ IsEarned(s) /\ Below(s, s) /\ j \in Nat
  BY <1>1, <1>3, BelowIsOrder DEF IsEarned, Before
<1>6. ServerMoves /\ calls' = calls
  BY <1>1, <1>4, NoSendKeeps DEF NoSend
<1>7. Idle \in Waiting /\ j \in Tags
  BY <1>5 DEF Idle, Waiting, Steps, Tags
<1>8. NextPage(t)
  <2>1. /\ PageOK([flow[t] EXCEPT ![f] = Idle], "open", timer[t], tag[t], revision[t],
                  cached[t], state[t], applied, args, body, Current)
        /\ \A g \in Flows : [flow[t] EXCEPT ![f] = Idle][g] = Idle
    BY <1>1, <1>2, FlowEnds DEF Before, ThisPage
  <2>2. PageOK([flow[t] EXCEPT ![f] = Idle], "open", timer[t], j, j,
               [revision |-> j, state |-> s], s, applied, args, body, Current)
    BY <1>1, <1>5, <2>1, PageRemembers DEF Before
  <2> HIDE DEF s
  <2>3. PageOK([flow[t] EXCEPT ![f] = Idle], "open", timer[t], j, j,
               [revision |-> j, state |-> s], s, applied', args', body', Current')
    BY <1>1, <1>5, <1>6, <2>2, PageStays
  <2>4. /\ flow'[t] = [flow[t] EXCEPT ![f] = Idle] /\ phase'[t] = "open"
        /\ cached'[t] = [revision |-> j, state |-> s] /\ tag'[t] = j /\ revision'[t] = j
        /\ state'[t] = s /\ timer'[t] = timer[t]
    BY <1>1, <1>4 DEF PageTypes
  <2> QED
    BY <2>3, <2>4 DEF NextPage
<1> HIDE DEF s
<1>9. PageTypes'
  BY <1>1, <1>4, <1>5, <1>7 DEF PageTypes, Show
<1>10. calls'[t] + NextLeft(t) <= calls[t] + Left(t)
  <2>1. flow'[t] = [flow[t] EXCEPT ![f] = Idle]
    BY <1>1, <1>4 DEF PageTypes
  <2> QED
    BY <1>4, <1>6, <2>1, EndIsCheaper
<1>11. \A u \in Tabs : u # t => /\ flow'[u] = flow[u] /\ phase'[u] = phase[u]
                                /\ cached'[u] = cached[u] /\ tag'[u] = tag[u]
                                /\ revision'[u] = revision[u] /\ state'[u] = state[u]
  BY <1>1, <1>4 DEF PageTypes
<1>12. TabMoves(t)
  BY <1>1, <1>2, <1>4, <1>6, <1>8, <1>9, <1>10, <1>11 DEF TabMoves, Before
<1> QED
  BY <1>6, <1>12, TabSafe

\* An award: one key more, in the page and in localStorage, and a save to come.
LEMMA EarnSafe ==
    ASSUME LegacyInv, NEW t \in Tabs, NEW k \in Keys, Earn(t, k)
    PROVE  Safe
<1> DEFINE s == Award(state[t], k)
<1>1. Before(t) /\ ServerInv /\ PageTypes
  BY BeforeHolds DEF Before
<1>2. /\ phase[t] = "open" /\ edits[t] > 0 /\ k \in Keys \ state[t].awards
      /\ edits' = [edits EXCEPT ![t] = @ - 1] /\ state' = [state EXCEPT ![t] = s]
      /\ local' = state'[t] /\ timer' = [timer EXCEPT ![t] = TRUE]
      /\ Show(t, "saving") /\ NoSend
      /\ UNCHANGED <<opens, lost, phase, revision, tag, cached, flow>>
  BY DEF Earn
<1>3. IsEarned(s) /\ Below(state[t], s) /\ s \in States
  BY <1>1, <1>2, AwardIsEarned DEF Before, IsEarned
<1> HIDE DEF s
<1>4. /\ state'[t] = s /\ timer'[t] = TRUE /\ edits'[t] = edits[t] - 1
      /\ edits[t] \in Nat /\ opens[t] \in Nat /\ timer[t] \in BOOLEAN
      /\ \A u \in Tabs : u # t => /\ state'[u] = state[u] /\ timer'[u] = timer[u]
                                  /\ edits'[u] = edits[u]
  BY <1>1, <1>2 DEF PageTypes
<1>5. ServerMoves /\ calls' = calls
  BY <1>1, <1>2, NoSendKeeps DEF NoSend
<1>6. PageTypes'
  <2>1. edits' \in [Tabs -> Nat]
    BY <1>1, <1>2, <1>4 DEF PageTypes
  <2> QED
    BY <1>1, <1>2, <1>3, <1>4, <2>1 DEF PageTypes, Show
<1>7. NextPage(t)
  <2>1. PageOK(flow[t], "open", TRUE, tag[t], revision[t], cached[t], s,
               applied, args, body, Current)
    BY <1>1, <1>2, <1>3, PageGrows DEF Before, ThisPage
  <2>2. PageOK(flow[t], "open", TRUE, tag[t], revision[t], cached[t], s,
               applied', args', body', Current')
    BY <1>1, <1>5, <2>1, PageStays DEF Before
  <2> QED
    BY <1>2, <1>4, <2>2 DEF NextPage
<1>8. calls'[t] + NextLeft(t) <= calls[t] + Left(t)
  <2>1. Base(edits'[t], opens'[t], timer'[t]) <= Base(edits[t], opens[t], timer[t])
    BY <1>2, <1>4 DEF Base
  <2>2. /\ Base(edits'[t], opens'[t], timer'[t]) \in Nat
        /\ Base(edits[t], opens[t], timer[t]) \in Nat
    BY <1>2, <1>4 DEF Base
  <2> DEFINE x == Base(edits[t], opens[t], timer[t])
             y == Base(edits'[t], opens'[t], timer'[t])
             a == In(flow[t], "hydrate")
             b == In(flow[t], "save")
             c == In(flow[t], "reload")
  <2>3. a \in Nat /\ b \in Nat /\ c \in Nat
    <3>1. PICK f \in Flows : flow[t][f] \in Waiting
      BY <1>1, FinitelyManyAssumption DEF Before
    <3>2. \A step : In(flow[t], step) \in Nat
      <4> SUFFICES ASSUME NEW step PROVE In(flow[t], step) \in Nat
        OBVIOUS
      <4>1. \A g \in Flows : flow[t][g] = IF g = f THEN flow[t][f] ELSE flow[t][g]
        OBVIOUS
      <4> QED
        BY <1>1, <3>1, <4>1, FlowsAreCounted DEF Before
    <3> QED
      BY <3>2
  <2>4. Left(t) = x + 3 * a + 2 * b + c /\ NextLeft(t) = y + 3 * a + 2 * b + c
    BY <1>2 DEF Left, NextLeft, Spend
  <2>5. calls'[t] = calls[t] /\ calls[t] \in Nat
    BY <1>1, <1>5 DEF Before
  <2> HIDE DEF x, y, a, b, c
  <2>6. x \in Nat /\ y \in Nat /\ y <= x
    BY <2>1, <2>2 DEF x, y
  <2> QED
    BY ONLY <2>3, <2>4, <2>5, <2>6
<1>9. IsEarned(local')
  BY <1>2, <1>3, <1>4
<1>10. TabMoves(t)
  BY <1>2, <1>3, <1>4, <1>5, <1>6, <1>7, <1>8, <1>9 DEF TabMoves
<1> QED
  BY <1>5, <1>10, TabSafe

\* A page that is closed leaves nothing behind but localStorage.
LEMMA CloseSafe ==
    ASSUME LegacyInv, NEW t \in Tabs, Close(t)
    PROVE  Safe
<1> DEFINE none == [f \in Flows |-> Idle]
           record == [revision |-> 0, state |-> Empty]
<1>1. Before(t) /\ ServerInv /\ PageTypes
  BY BeforeHolds DEF Before
<1>2. /\ phase[t] = "open" /\ NoSend /\ Show(t, "connecting")
      /\ phase' = [phase EXCEPT ![t] = "closed"] /\ state' = [state EXCEPT ![t] = Empty]
      /\ revision' = [revision EXCEPT ![t] = 0] /\ timer' = [timer EXCEPT ![t] = FALSE]
      /\ tag' = [tag EXCEPT ![t] = NoTag] /\ cached' = [cached EXCEPT ![t] = record]
      /\ flow' = [flow EXCEPT ![t] = none]
      /\ UNCHANGED <<edits, opens, lost, local>>
  BY DEF Close, counted
<1>3. /\ none \in [Flows -> Waiting] /\ Empty \in States /\ IsEarned(Empty)
      /\ record \in [revision : Nat, state : States]
  BY EmptyIsEarned DEF IsEarned, Idle, Waiting, Steps, Tags
<1>4. ServerMoves /\ calls' = calls
  BY <1>1, <1>2, NoSendKeeps DEF NoSend
<1>5. PageOK(none, "closed", FALSE, NoTag, 0, record, Empty, applied', args', body', Current')
  <2>1. \A f \in Flows : none[f] = Idle
    OBVIOUS
  <2>2. FlowOK(Idle, "closed", NoTag, Empty, args', body')
    BY DEF FlowOK, Idle
  <2>3. EtagOK(NoTag, 0, record, Empty, applied', args', body', Current')
    BY DEF EtagOK
  <2> QED
    BY <1>3, <2>1, <2>2, <2>3 DEF PageOK
<1>6. calls'[t] + NextLeft(t) <= calls[t] + Left(t)
  <2>1. /\ edits[t] \in Nat /\ opens[t] \in Nat /\ timer[t] \in BOOLEAN
        /\ flow'[t] = none /\ timer'[t] = FALSE
    BY <1>1, <1>2 DEF PageTypes
  <2>2. PICK f \in Flows : flow[t][f] \in Waiting
    BY <1>1, FinitelyManyAssumption DEF Before
  <2> DEFINE x == Base(edits[t], opens[t], timer[t])
             y == Base(edits[t], opens[t], FALSE)
  <2>3. x \in Nat /\ y \in Nat /\ y <= x
    BY <2>1 DEF Base
  <2>4. Left(t) >= x
    BY <1>1, <2>2, LeftIs
  <2>5. NextLeft(t) = y
    <3>1. NextLeft(t) = Spend(y, none)
      BY <1>2, <2>1 DEF NextLeft
    <3> HIDE DEF y
    <3> QED
      BY <2>3, <3>1, IdleIsFree
  <2>6. calls'[t] = calls[t] /\ calls[t] \in Nat /\ Left(t) \in Nat
    BY <1>1, <1>4 DEF Before
  <2> HIDE DEF x, y
  <2> QED
    BY ONLY <2>3, <2>4, <2>5, <2>6
<1> HIDE DEF none, record
<1>7. PageTypes'
  BY <1>1, <1>2, <1>3 DEF PageTypes, Show, Tags
<1>8. /\ phase'[t] = "closed" /\ state'[t] = Empty /\ revision'[t] = 0 /\ timer'[t] = FALSE
      /\ tag'[t] = NoTag /\ cached'[t] = record /\ flow'[t] = none
  BY <1>1, <1>2 DEF PageTypes
<1>9. NextPage(t)
  BY <1>5, <1>8 DEF NextPage
<1>10. TabMoves(t)
  <2>1. \A u \in Tabs : u # t =>
          /\ flow'[u] = flow[u] /\ phase'[u] = phase[u] /\ timer'[u] = timer[u]
          /\ tag'[u] = tag[u] /\ revision'[u] = revision[u] /\ cached'[u] = cached[u]
          /\ state'[u] = state[u] /\ calls'[u] = calls[u]
          /\ edits'[u] = edits[u] /\ opens'[u] = opens[u]
    BY <1>1, <1>2, <1>4 DEF PageTypes
  <2> QED
    BY <1>1, <1>2, <1>6, <1>7, <1>8, <1>9, <2>1 DEF TabMoves, Before
<1> QED
  BY <1>4, <1>10, TabSafe

-----------------------------------------------------------------------------
(* Steps that send a call.                                                  *)

\* The steps of a flow cost what they may still send.
LEMMA Weights ==
    /\ Weight("idle") = 0 /\ Weight("hydrate") = 3 /\ Weight("save") = 2
    /\ Weight("reload") = 1 /\ Weight("resave") = 0
BY DEF Weight, Is

\* A flow that sends costs one less, and one call more was made.
LEMMA SendIsPaid ==
    ASSUME LegacyInv, NEW t \in Tabs, NEW f \in Flows, NEW k \in Waiting,
           flow'[t] = [flow[t] EXCEPT ![f] = k],
           Base(edits'[t], opens'[t], timer'[t]) \in Nat,
           Base(edits'[t], opens'[t], timer'[t]) + Weight(k.step) + 1
             <= Base(edits[t], opens[t], timer[t]) + Weight(flow[t][f].step),
           calls'[t] = calls[t] + 1
    PROVE  calls'[t] + NextLeft(t) <= calls[t] + Left(t)
<1> DEFINE x == Base(edits[t], opens[t], timer[t])
           y == Base(edits'[t], opens'[t], timer'[t])
           fs == flow[t]
           gs == flow'[t]
           v == Weight(flow[t][f].step)
           w == Weight(k.step)
<1>1. Before(t) /\ PageTypes /\ fs \in [Flows -> Waiting]
  BY BeforeHolds DEF Before
<1>2. x \in Nat
  BY <1>1, LeftIs
<1>3. \A g \in Flows : gs[g] = IF g = f THEN k ELSE fs[g]
  BY <1>1
<1>4. /\ Spend(x, fs) \in Nat /\ Spend(x, gs) = Spend(x, fs) - v + w
      /\ Spend(x, fs) >= x /\ v \in Nat /\ w \in Nat
  <2>1. Weight(fs[f].step) \in Nat /\ Weight(k.step) \in Nat
    BY DEF Weight, Is
  <2>2. /\ Left(t) \in Nat /\ Left(t) >= x
        /\ Spend(x, [flow[t] EXCEPT ![f] = k])
             = Left(t) - Weight(flow[t][f].step) + Weight(k.step)
    BY <1>1, LeftIs
  <2>3. Left(t) = Spend(x, fs)
    BY DEF Left
  <2>4. gs = [flow[t] EXCEPT ![f] = k]
    OBVIOUS
  <2> HIDE DEF x, gs
  <2> QED
    BY <2>1, <2>2, <2>3, <2>4
<1>5. Spend(y, gs) - y = Spend(x, gs) - x /\ Spend(x, gs) \in Nat /\ Spend(y, gs) \in Nat
  <2> DEFINE a == In(gs, "hydrate")
             b == In(gs, "save")
             c == In(gs, "reload")
  <2>1. a \in Nat /\ b \in Nat /\ c \in Nat
    <3>1. \A step : In(gs, step) \in Nat
      <4> SUFFICES ASSUME NEW step PROVE In(gs, step) \in Nat
        OBVIOUS
      <4> HIDE DEF gs, fs
      <4> QED
        BY <1>1, <1>3, FlowsAreCounted
    <3> QED
      BY <3>1
  <2>2. Spend(y, gs) = y + 3 * a + 2 * b + c /\ Spend(x, gs) = x + 3 * a + 2 * b + c
    BY DEF Spend
  <2>3. y \in Nat
    OBVIOUS
  <2> HIDE DEF a, b, c, x, y, gs
  <2> QED
    BY ONLY <1>2, <2>1, <2>2, <2>3
<1>6. Left(t) = Spend(x, fs) /\ NextLeft(t) = Spend(y, gs) /\ calls[t] \in Nat
  BY <1>1 DEF Left, NextLeft, Before
<1>7. y + w + 1 <= x + v /\ y \in Nat /\ calls'[t] = calls[t] + 1
  OBVIOUS
<1> HIDE DEF x, y, fs, gs, v, w
<1> QED
  BY ONLY <1>2, <1>4, <1>5, <1>6, <1>7

\* boot(): the page starts from localStorage and loads.
LEMMA OpenSafe ==
    ASSUME LegacyInv, NEW t \in Tabs, Open(t)
    PROVE  Safe
<1> DEFINE f == Free(t)
           r == [Unsent EXCEPT !.op = "load"]
           k == Sending(t, "hydrate")
<1>1. Before(t) /\ ServerInv /\ PageTypes /\ IsEarned(local)
  BY BeforeHolds DEF Before
<1>2. /\ phase[t] = "closed" /\ opens[t] > 0 /\ opens' = [opens EXCEPT ![t] = @ - 1]
      /\ phase' = [phase EXCEPT ![t] = "hydrating"] /\ state' = [state EXCEPT ![t] = local]
      /\ SendCall(t, f, "hydrate", r, Empty)
      /\ UNCHANGED <<edits, lost, local, revision, timer, status, tag, cached>>
  BY DEF Open, SendGet
<1>3. \A g \in Flows : flow[t][g] = Idle
  BY <1>1, <1>2 DEF Before, ThisPage, PageOK, FlowOK
<1>4. f \in Flows /\ flow[t][f] = Idle
  <2>1. \E g \in Flows : flow[t][g] = Idle
    BY <1>3, FinitelyManyAssumption
  <2> QED
    BY <2>1 DEF Free
<1>5. IsRequest(r, Empty) /\ r.op = "load"
  BY GetIsRequest
<1> HIDE DEF f, r
<1>6. /\ edits[t] \in Nat /\ opens[t] \in Nat /\ timer[t] \in BOOLEAN
      /\ opens'[t] = opens[t] - 1 /\ edits'[t] = edits[t] /\ timer'[t] = timer[t]
  BY <1>1, <1>2 DEF PageTypes
<1>7. Left(t) >= 1
  <2>1. Left(t) >= Base(edits[t], opens[t], timer[t])
    BY <1>1, <1>4, LeftIs DEF Before
  <2>2. Base(edits[t], opens[t], timer[t]) >= 4
    BY <1>2, <1>6 DEF Base
  <2>3. Base(edits[t], opens[t], timer[t]) \in Nat /\ Left(t) \in Nat
    BY <1>1, <1>6 DEF Base, Before
  <2> QED
    BY ONLY <2>1, <2>2, <2>3
<1>8. IsSent(t, f, "hydrate", r, Empty)
  BY <1>2, <1>4, <1>5, <1>7, CallIsSent DEF Steps
<1>9. ServerMoves /\ k \in Waiting /\ k.step = "hydrate"
      /\ flow'[t] = [flow[t] EXCEPT ![f] = k] /\ calls'[t] = calls[t] + 1
  BY <1>8 DEF IsSent, Sending
<1>10. FlowOK(k, "hydrating", tag[t], local, args', body')
  BY <1>4, <1>5, <1>8, SendingIsOK DEF Steps
<1> HIDE DEF k
<1>11. tag[t] = NoTag /\ revision[t] = 0 /\ timer[t] = FALSE
  BY <1>1, <1>2 DEF Before, ThisPage, PageOK, EtagOK, PageTypes
<1>12. NextPage(t)
  <2>1. \A g \in Flows : flow'[t][g] = IF g = f THEN k ELSE Idle
    BY <1>1, <1>3, <1>9 DEF Before
  <2>2. FlowOK(Idle, "hydrating", tag[t], local, args', body')
    BY DEF FlowOK, Idle
  <2>3. EtagOK(tag[t], revision[t], cached[t], local, applied', args', body', Current')
    BY <1>11 DEF EtagOK
  <2>4. PageOK(flow'[t], "hydrating", timer[t], tag[t], revision[t], cached[t], local,
               applied', args', body', Current')
    BY <1>1, <1>10, <1>11, <2>1, <2>2, <2>3 DEF PageOK
  <2>5. phase'[t] = "hydrating" /\ state'[t] = local
    BY <1>1, <1>2 DEF PageTypes
  <2> QED
    BY <1>2, <2>4, <2>5 DEF NextPage
<1>13. calls'[t] + NextLeft(t) <= calls[t] + Left(t)
  <2>1. Weight(k.step) = 3 /\ Weight(flow[t][f].step) = 0
    BY <1>4, <1>9, Weights DEF Idle
  <2>2. /\ Base(edits'[t], opens'[t], timer'[t]) \in Nat
        /\ Base(edits'[t], opens'[t], timer'[t]) + 3 + 1
             <= Base(edits[t], opens[t], timer[t]) + 0
    BY <1>2, <1>6 DEF Base
  <2> QED
    BY <1>4, <1>9, <2>1, <2>2, SendIsPaid
<1>14. PageTypes'
  <2>1. opens' \in [Tabs -> Nat]
    BY <1>1, <1>2, <1>6 DEF PageTypes
  <2>2. flow' \in [Tabs -> [Flows -> Waiting]]
    BY <1>8 DEF IsSent
  <2> QED
    BY <1>1, <1>2, <2>1, <2>2 DEF PageTypes
<1>15. TabMoves(t)
  <2>1. \A u \in Tabs : u # t => /\ flow'[u] = flow[u] /\ calls'[u] = calls[u]
                                 /\ phase'[u] = phase[u] /\ state'[u] = state[u]
                                 /\ opens'[u] = opens[u]
    BY <1>1, <1>2, <1>8 DEF PageTypes, IsSent
  <2> QED
    BY <1>1, <1>2, <1>12, <1>13, <1>14, <2>1 DEF TabMoves
<1> QED
  BY <1>9, <1>15, TabSafe

\* What is left when flow f of a tab whose bounds do not change sends.
LEMMA NextStepIsPaid ==
    ASSUME LegacyInv, NEW t \in Tabs, NEW f \in Flows, NEW step \in Steps \ {"idle"},
           NEW request, NEW s, IsSent(t, f, step, request, s),
           edits' = edits, opens' = opens, timer' = timer,
           Weight(flow[t][f].step) = Weight(step) + 1, Weight(step) \in Nat
    PROVE  calls'[t] + NextLeft(t) <= calls[t] + Left(t)
<1>1. PageTypes
  BY BeforeHolds DEF Before
<1>2. Base(edits[t], opens[t], timer[t]) \in Nat
  BY <1>1 DEF PageTypes, Base
<1>3. /\ Sending(t, step) \in Waiting /\ Sending(t, step).step = step
      /\ flow'[t] = [flow[t] EXCEPT ![f] = Sending(t, step)]
      /\ calls'[t] = calls[t] + 1
  BY DEF IsSent, Sending
<1>4. Base(edits'[t], opens'[t], timer'[t]) = Base(edits[t], opens[t], timer[t])
  OBVIOUS
<1>5. Base(edits'[t], opens'[t], timer'[t]) + Weight(step) + 1
        <= Base(edits[t], opens[t], timer[t]) + Weight(flow[t][f].step)
  BY ONLY <1>2, <1>4, Weight(flow[t][f].step) = Weight(step) + 1, Weight(step) \in Nat
<1> QED
  BY <1>2, <1>3, <1>4, <1>5, SendIsPaid

\* 409: the page asks for the newer state.
LEMMA ConflictsSafe ==
    ASSUME LegacyInv, NEW t \in Tabs, NEW f \in Flows, Conflicts(t, f)
    PROVE  Safe
<1> DEFINE r == [Unsent EXCEPT !.op = "load"]
           k == Sending(t, "reload")
<1>1. Before(t) /\ ServerInv /\ PageTypes /\ IsEarned(local)
  BY BeforeHolds DEF Before
<1>2. /\ flow[t][f].step = "save" /\ SendCall(t, f, "reload", r, Empty)
      /\ UNCHANGED <<edits, opens, lost, local, phase, state, revision, timer, status,
                     tag, cached>>
  BY DEF Conflicts, Waits, SendGet, counted
<1>3. IsRequest(r, Empty) /\ r.op = "load"
  BY GetIsRequest
<1> HIDE DEF r
<1>4. Weight(flow[t][f].step) = 2 /\ Weight("reload") = 1
  BY <1>2, Weights
<1>5. Left(t) >= 1
  <2>1. flow[t][f] \in Waiting
    BY <1>1 DEF Before
  <2>2. Left(t) >= Weight(flow[t][f].step) /\ Left(t) \in Nat
    BY <1>1, <2>1, LeftIs
  <2> QED
    BY <1>4, <2>2
<1>6. IsSent(t, f, "reload", r, Empty)
  BY <1>2, <1>3, <1>5, CallIsSent DEF Steps
<1>7. /\ ServerMoves /\ k \in Waiting
      /\ flow'[t] = [flow[t] EXCEPT ![f] = k] /\ flow' \in [Tabs -> [Flows -> Waiting]]
  BY <1>6 DEF IsSent
<1>8. flow[t][f] # Idle /\ phase[t] # "closed"
  BY <1>1, <1>2 DEF Before, ThisPage, PageOK, FlowOK, Idle
<1>9. FlowOK(k, phase[t], tag[t], state[t], args', body')
  BY <1>3, <1>6, <1>8, SendingIsOK DEF Steps
<1> HIDE DEF k
<1>10. NextPage(t)
  <2>1. PageOK(flow[t], phase[t], timer[t], tag[t], revision[t], cached[t], state[t],
               applied', args', body', Current')
    BY <1>1, <1>7, PageStays DEF Before, ThisPage
  <2>2. PageOK([flow[t] EXCEPT ![f] = k], phase[t], timer[t], tag[t], revision[t],
               cached[t], state[t], applied', args', body', Current')
    BY <1>1, <1>8, <1>9, <2>1, FlowMoves DEF Before
  <2> QED
    BY <1>2, <1>7, <2>2 DEF NextPage
<1>11. calls'[t] + NextLeft(t) <= calls[t] + Left(t)
  BY <1>2, <1>4, <1>6, NextStepIsPaid DEF Steps
<1>12. PageTypes'
  BY <1>1, <1>2, <1>7 DEF PageTypes
<1>13. TabMoves(t)
  <2>1. \A u \in Tabs : u # t => flow'[u] = flow[u] /\ calls'[u] = calls[u]
    BY <1>6 DEF IsSent
  <2> QED
    BY <1>1, <1>2, <1>10, <1>11, <1>12, <2>1, BelowIsOrder DEF TabMoves, Before
<1> QED
  BY <1>7, <1>13, TabSafe

\* The timer: a save of what the page has, made from the revision it was left with.
LEMMA TimerFiresSafe ==
    ASSUME LegacyInv, NEW t \in Tabs, TimerFires(t)
    PROVE  Safe
<1> DEFINE f == Free(t)
           r == [Unsent EXCEPT !.op = "save", !.expected = revision[t],
                               !.valid = (tag[t] = revision[t])]
           k == Sending(t, "save")
<1>1. Before(t) /\ ServerInv /\ PageTypes /\ IsEarned(local)
  BY BeforeHolds DEF Before
<1>2. /\ timer[t] /\ HasFree(t) /\ timer' = [timer EXCEPT ![t] = FALSE]
      /\ Show(t, "saving") /\ SendCall(t, f, "save", r, state[t])
      /\ UNCHANGED <<edits, opens, lost, local, phase, state, revision, tag, cached>>
  BY DEF TimerFires, SendPut, counted
<1>3. f \in Flows /\ flow[t][f] = Idle
  BY <1>2 DEF HasFree, Free
<1>4. phase[t] = "open"
  BY <1>1, <1>2 DEF Before, ThisPage, PageOK
<1>5. IsRequest(r, state[t]) /\ r.op = "save"
  <2>1. tag[t] = revision[t] =>
           revision[t] <= Current /\ Below(Doc(applied, args, body, revision[t]), state[t])
    BY <1>1, NoneAssumption DEF Before, ThisPage, PageOK, EtagOK
  <2> QED
    BY <1>1, <2>1, PutIsRequest DEF Before
<1> HIDE DEF f, r
<1>6. /\ edits[t] \in Nat /\ opens[t] \in Nat /\ timer[t] = TRUE /\ timer'[t] = FALSE
      /\ edits'[t] = edits[t] /\ opens'[t] = opens[t]
  BY <1>1, <1>2 DEF PageTypes
<1>7. /\ Base(edits[t], opens[t], timer[t]) \in Nat
      /\ Base(edits'[t], opens'[t], timer'[t]) \in Nat
      /\ Base(edits'[t], opens'[t], timer'[t]) + 2 + 1
           <= Base(edits[t], opens[t], timer[t]) + 0
      /\ Base(edits[t], opens[t], timer[t]) >= 3
  BY <1>6 DEF Base
<1>8. Left(t) >= 1
  <2>1. Left(t) >= Base(edits[t], opens[t], timer[t]) /\ Left(t) \in Nat
    BY <1>1, <1>3, LeftIs DEF Before
  <2> QED
    BY ONLY <1>7, <2>1
<1>9. IsSent(t, f, "save", r, state[t])
  BY <1>2, <1>3, <1>5, <1>8, CallIsSent DEF Steps
<1>10. /\ ServerMoves /\ k \in Waiting /\ k.step = "save" /\ calls'[t] = calls[t] + 1
       /\ flow'[t] = [flow[t] EXCEPT ![f] = k] /\ flow' \in [Tabs -> [Flows -> Waiting]]
  BY <1>9 DEF IsSent, Sending
<1>11. FlowOK(k, "open", tag[t], state[t], args', body')
  <2>1. Below(state[t], state[t])
    BY <1>1, BelowIsOrder DEF Before
  <2> QED
    BY <1>3, <1>5, <1>9, <2>1, SendingIsOK DEF Steps
<1> HIDE DEF k
<1>12. NextPage(t)
  <2>1. PageOK(flow[t], "open", FALSE, tag[t], revision[t], cached[t], state[t],
               applied, args, body, Current)
    <3>1. /\ Below(state[t], state[t]) /\ IsEarned(state[t]) /\ state[t] \in States
          /\ Current \in Nat /\ revision[t] \in Nat /\ (\A c \in Calls : body[c] \in States)
          /\ \A j \in 0 .. Current : Doc(applied, args, body, j) \in States
      BY <1>1, BelowIsOrder DEF Before
    <3>2. PageOK(flow[t], "open", timer[t], tag[t], revision[t], cached[t], state[t],
                 applied, args, body, Current)
      BY <1>1, <1>4 DEF Before, ThisPage
    <3> QED
      BY <3>1, <3>2, PageGrows
  <2>2. PageOK(flow[t], "open", FALSE, tag[t], revision[t], cached[t], state[t],
               applied', args', body', Current')
    BY <1>1, <1>10, <2>1, PageStays DEF Before
  <2>3. PageOK([flow[t] EXCEPT ![f] = k], "open", FALSE, tag[t], revision[t],
               cached[t], state[t], applied', args', body', Current')
    BY <1>1, <1>3, <1>11, <2>2, FlowMoves DEF Before
  <2> QED
    BY <1>2, <1>4, <1>6, <1>10, <2>3 DEF NextPage
<1>13. calls'[t] + NextLeft(t) <= calls[t] + Left(t)
  <2>1. Weight(k.step) = 2 /\ Weight(flow[t][f].step) = 0
    BY <1>3, <1>10, Weights DEF Idle
  <2> QED
    BY <1>3, <1>7, <1>10, <2>1, SendIsPaid
<1>14. PageTypes'
  BY <1>1, <1>2, <1>10 DEF PageTypes, Show
<1>15. TabMoves(t)
  <2>1. \A u \in Tabs : u # t => /\ flow'[u] = flow[u] /\ calls'[u] = calls[u]
                                 /\ timer'[u] = timer[u]
    BY <1>1, <1>2, <1>9 DEF IsSent, PageTypes
  <2> QED
    BY <1>1, <1>2, <1>12, <1>13, <1>14, <2>1, BelowIsOrder DEF TabMoves, Before
<1> QED
  BY <1>10, <1>15, TabSafe

\* A server that has nothing yet: the page remembers that and creates the state.
LEMMA HydratedEmptySafe ==
    ASSUME LegacyInv, NEW t \in Tabs, NEW f \in Flows, HydratedEmpty(t, f)
    PROVE  Safe
<1> DEFINE e == tag'[t]
           r == [Unsent EXCEPT !.op = "save", !.expected = 0, !.valid = (e = 0)]
           k == Sending(t, "save")
           s == Doc(applied, args, body, 0)
           record == [revision |-> 0, state |-> s]
<1>1. Before(t) /\ ServerInv /\ PageTypes /\ IsEarned(local)
  BY BeforeHolds DEF Before
<1>2. flow[t][f].step = "hydrate" /\ flow[t][f] # Idle /\ phase[t] # "closed"
  BY <1>1 DEF Before, ThisPage, PageOK, FlowOK, Idle, HydratedEmpty, Waits
<1>3. LoadResult(t, f) = record
  <2>1. PICK j \in 0 .. Current :
           LoadResult(t, f) = [revision |-> j, state |-> Doc(applied, args, body, j)]
    BY <1>2, LoadIs DEF HydratedEmpty, Waits
  <2>2. LoadResult(t, f).revision = 0
    BY DEF HydratedEmpty
  <2>3. j = 0
    BY <2>1, <2>2
  <2> QED
    BY <2>1, <2>3
<1>4. /\ Show(t, "saving") /\ SendCall(t, f, "save", r, state[t])
      /\ cached' = [cached EXCEPT ![t] = record]
      /\ tag' = [tag EXCEPT ![t] = 0] /\ revision' = [revision EXCEPT ![t] = 0]
      /\ UNCHANGED <<edits, opens, lost, local, phase, state, timer>>
  BY <1>3 DEF HydratedEmpty, Remember, NewTag, SendPut, counted
<1>5. /\ 0 \in 0 .. Current /\ s \in States /\ s = Empty /\ Below(s, state[t])
      /\ Below(state[t], state[t]) /\ 0 \in Tags
  BY <1>1, EmptyIsEarned, BelowIsOrder DEF Before, Doc, Tags, IsEarned
<1> HIDE DEF e
<1>6. IsRequest(r, state[t]) /\ r.op = "save"
  <2>1. /\ 0 \in Nat /\ IsEarned(state[t]) /\ 0 <= Current
        /\ Below(Doc(applied, args, body, 0), state[t])
    BY <1>1, <1>5 DEF Before
  <2> QED
    BY <2>1, PutIsRequest
<1> HIDE DEF r
<1>7. Weight(flow[t][f].step) = 3 /\ Weight("save") = 2
  BY <1>2, Weights
<1>8. Left(t) >= 1
  <2>1. flow[t][f] \in Waiting
    BY <1>1 DEF Before
  <2>2. Left(t) >= Weight(flow[t][f].step) /\ Left(t) \in Nat
    BY <1>1, <2>1, LeftIs
  <2> QED
    BY <1>7, <2>2
<1>9. IsSent(t, f, "save", r, state[t])
  BY <1>4, <1>6, <1>8, CallIsSent DEF Steps
<1>10. /\ ServerMoves /\ k \in Waiting
       /\ flow'[t] = [flow[t] EXCEPT ![f] = k] /\ flow' \in [Tabs -> [Flows -> Waiting]]
  BY <1>9 DEF IsSent
<1>11. FlowOK(k, phase[t], 0, state[t], args', body')
  <2>1. 0 # NoTag
    BY NoneAssumption
  <2> QED
    BY <1>2, <1>5, <1>6, <1>9, <2>1, SendingIsOK DEF Steps
<1> HIDE DEF k
<1>12. NextPage(t)
  <2>1. PageOK(flow[t], phase[t], timer[t], 0, 0, record, state[t],
               applied, args, body, Current)
    BY <1>1, <1>2, <1>5, PageRemembers DEF Before, ThisPage
  <2> HIDE DEF record
  <2>2. PageOK(flow[t], phase[t], timer[t], 0, 0, record, state[t],
               applied', args', body', Current')
    BY <1>1, <1>10, <2>1, PageStays
  <2>3. PageOK([flow[t] EXCEPT ![f] = k], phase[t], timer[t], 0, 0, record, state[t],
               applied', args', body', Current')
    BY <1>1, <1>2, <1>11, <2>2, FlowMoves DEF Before
  <2>4. cached'[t] = record /\ tag'[t] = 0 /\ revision'[t] = 0
    BY <1>1, <1>4 DEF PageTypes
  <2> QED
    BY <1>4, <1>10, <2>3, <2>4 DEF NextPage
<1>13. calls'[t] + NextLeft(t) <= calls[t] + Left(t)
  BY <1>4, <1>7, <1>9, NextStepIsPaid DEF Steps
<1>14. record \in [revision : Nat, state : States]
  BY <1>5
<1> HIDE DEF s, record
<1>15. PageTypes'
  BY <1>1, <1>4, <1>5, <1>10, <1>14 DEF PageTypes, Show
<1>16. TabMoves(t)
  <2>1. \A u \in Tabs : u # t => /\ flow'[u] = flow[u] /\ calls'[u] = calls[u]
                                 /\ cached'[u] = cached[u] /\ tag'[u] = tag[u]
                                 /\ revision'[u] = revision[u]
    BY <1>1, <1>4, <1>9 DEF IsSent, PageTypes
  <2> QED
    BY <1>1, <1>4, <1>5, <1>12, <1>13, <1>15, <2>1 DEF TabMoves
<1> QED
  BY <1>10, <1>16, TabSafe

\* After a conflict: both states merged, and saved upon the newer one.
LEMMA ReloadedSafe ==
    ASSUME LegacyInv, NEW t \in Tabs, NEW f \in Flows, Reloaded(t, f)
    PROVE  Safe
<1>1. Before(t) /\ ServerInv /\ PageTypes /\ IsEarned(local)
  BY BeforeHolds DEF Before
<1>2. flow[t][f].step = "reload" /\ flow[t][f] # Idle /\ phase[t] # "closed"
  BY <1>1 DEF Before, ThisPage, PageOK, FlowOK, Idle, Reloaded, Waits
<1>3. PICK j \in 0 .. Current :
         /\ LoadResult(t, f) = [revision |-> j, state |-> Doc(applied, args, body, j)]
         /\ IsEarned(Doc(applied, args, body, j))
  BY <1>2, LoadIs DEF Reloaded, Waits
<1> DEFINE s == Doc(applied, args, body, j)
           both == Merge(s, state[t])
           record == [revision |-> j, state |-> s]
           e == tag'[t]
           r == [Unsent EXCEPT !.op = "save", !.expected = j, !.valid = (e = j)]
           k == Sending(t, "resave")
<1>4. /\ IsEarned(both) /\ Below(s, both) /\ Below(state[t], both) /\ Below(both, both)
      /\ both \in States /\ s \in States /\ j \in Nat /\ j \in Tags
  BY <1>1, <1>3, MergeIsEarned, BelowIsOrder DEF Before, IsEarned, Tags
<1>5. /\ cached' = [cached EXCEPT ![t] = record]
      /\ tag' = [tag EXCEPT ![t] = j] /\ revision' = [revision EXCEPT ![t] = j]
      /\ state' = [state EXCEPT ![t] = both]
      /\ SendPut(t, f, "resave", j, tag'[t], state'[t])
      /\ UNCHANGED <<edits, opens, lost, local, phase, timer, status>>
  BY <1>3 DEF Reloaded, Remember, NewTag, counted
<1>6. cached'[t] = record /\ tag'[t] = j /\ revision'[t] = j /\ state'[t] = both
  BY <1>1, <1>5 DEF PageTypes
<1>7. SendCall(t, f, "resave", r, both)
  BY <1>5, <1>6 DEF SendPut
<1> HIDE DEF e, both
<1>8. IsRequest(r, both) /\ r.op = "save"
  <2>1. j <= Current /\ Below(Doc(applied, args, body, j), both)
    BY <1>1, <1>4 DEF Before
  <2> QED
    BY <1>4, <2>1, PutIsRequest
<1> HIDE DEF r
<1>9. Weight(flow[t][f].step) = 1 /\ Weight("resave") = 0
  BY <1>2, Weights
<1>10. Left(t) >= 1
  <2>1. flow[t][f] \in Waiting
    BY <1>1 DEF Before
  <2>2. Left(t) >= Weight(flow[t][f].step) /\ Left(t) \in Nat
    BY <1>1, <2>1, LeftIs
  <2> QED
    BY <1>9, <2>2
<1>11. IsSent(t, f, "resave", r, both)
  BY <1>7, <1>8, <1>10, CallIsSent DEF Steps
<1>12. /\ ServerMoves /\ k \in Waiting
       /\ flow'[t] = [flow[t] EXCEPT ![f] = k] /\ flow' \in [Tabs -> [Flows -> Waiting]]
  BY <1>11 DEF IsSent
<1>13. FlowOK(k, phase[t], j, both, args', body')
  <2>1. j # NoTag
    BY <1>4, NoneAssumption
  <2> QED
    BY <1>2, <1>4, <1>8, <1>11, <2>1, SendingIsOK DEF Steps
<1> HIDE DEF k
<1>14. NextPage(t)
  <2>1. PageOK(flow[t], phase[t], timer[t], j, j, record, both,
               applied, args, body, Current)
    BY <1>1, <1>2, <1>4, PageRemembers DEF Before, ThisPage
  <2> HIDE DEF record
  <2>2. PageOK(flow[t], phase[t], timer[t], j, j, record, both,
               applied', args', body', Current')
    BY <1>1, <1>4, <1>12, <2>1, PageStays
  <2>3. PageOK([flow[t] EXCEPT ![f] = k], phase[t], timer[t], j, j, record, both,
               applied', args', body', Current')
    BY <1>1, <1>2, <1>13, <2>2, FlowMoves DEF Before
  <2> QED
    BY <1>5, <1>6, <1>12, <2>3 DEF NextPage
<1>15. calls'[t] + NextLeft(t) <= calls[t] + Left(t)
  BY <1>5, <1>9, <1>11, NextStepIsPaid DEF Steps
<1>16. record \in [revision : Nat, state : States]
  BY <1>4
<1> HIDE DEF s, record
<1>17. PageTypes'
  BY <1>1, <1>4, <1>5, <1>12, <1>16 DEF PageTypes
<1>18. TabMoves(t)
  <2>1. \A u \in Tabs : u # t => /\ flow'[u] = flow[u] /\ calls'[u] = calls[u]
                                 /\ cached'[u] = cached[u] /\ tag'[u] = tag[u]
                                 /\ revision'[u] = revision[u] /\ state'[u] = state[u]
    BY <1>1, <1>5, <1>11 DEF IsSent, PageTypes
  <2> QED
    BY <1>1, <1>4, <1>5, <1>6, <1>14, <1>15, <1>17, <2>1 DEF TabMoves
<1> QED
  BY <1>12, <1>18, TabSafe

-----------------------------------------------------------------------------
(* The theorems.                                                            *)

\* Every behaviour starts in order.
LEMMA InitIsSafe == Init => LegacyInv
<1> SUFFICES ASSUME Init PROVE LegacyInv
  OBVIOUS
<1>1. PICK b \in Bounds : edits = b.edits /\ opens = b.opens /\ lost = b.lost
  BY DEF Init
<1>2. b.edits \in [Tabs -> Nat] /\ b.opens \in [Tabs -> Nat] /\ b.lost \in Nat
  BY LegacyBoundsAssumption
<1>3. IsEarned(Empty) /\ Empty \in States
  BY EmptyIsEarned DEF IsEarned
<1>4. /\ rows = [p \in {Profile} |-> [revision |-> 0, state |-> NoCall]]
      /\ history = [p \in {Profile} |-> {}] /\ applied = {}
      /\ answer = [c \in Calls |-> [kind |-> "none", revision |-> 0]]
      /\ args = [c \in Calls |-> Unsent] /\ body = [c \in Calls |-> Empty]
      /\ calls = [t \in Tabs |-> 0]
  BY DEF Init, Store!StoreInit, Store!NoAnswer
<1>5. Current = 0
  BY <1>4 DEF Current
<1>6. ServerInv
  <2>1. ServerTypes
    BY <1>3, <1>4 DEF ServerTypes, Rows, Asked, Unsent
  <2>2. CallsAreFresh
    BY <1>4 DEF CallsAreFresh, Store!NoAnswer
  <2>3. SavesAreChained
    BY <1>4, <1>5 DEF SavesAreChained
  <2>4. AnswersAreTrue
    BY <1>4 DEF AnswersAreTrue
  <2>5. BodiesFollow
    BY <1>3, <1>4 DEF BodiesFollow, Unsent
  <2> QED
    BY <2>1, <2>2, <2>3, <2>4, <2>5 DEF ServerInv
<1>7. Idle \in Waiting
  BY DEF Idle, Waiting, Steps, Tags
<1>8. PageTypes
  BY <1>1, <1>2, <1>3, <1>7 DEF Init, PageTypes, Tags
<1>9. CallsSuffice
  <2>1. ASSUME NEW t \in Tabs PROVE calls[t] + Left(t) <= MaxCalls(b, t)
    <3>1. /\ calls[t] = 0 /\ edits[t] = b.edits[t] /\ opens[t] = b.opens[t]
          /\ timer[t] = FALSE /\ flow[t] = [f \in Flows |-> Idle]
          /\ edits[t] \in Nat /\ opens[t] \in Nat
      BY <1>1, <1>2, <1>4 DEF Init
    <3>2. Base(edits[t], opens[t], timer[t]) = 3 * edits[t] + 4 * opens[t]
      BY <3>1 DEF Base
    <3>3. 3 * edits[t] + 4 * opens[t] \in Nat
      BY <3>1
    <3>4. Left(t) = 3 * edits[t] + 4 * opens[t]
      BY <3>1, <3>2, <3>3, IdleIsFree DEF Left
    <3> QED
      BY <3>1, <3>3, <3>4 DEF MaxCalls
  <2> QED
    BY <2>1, InCosts
<1>10. ASSUME NEW t \in Tabs PROVE ThisPage(t)
  <2>1. /\ \A f \in Flows : flow[t][f] = Idle
        /\ phase[t] = "closed" /\ timer[t] = FALSE /\ tag[t] = NoTag /\ revision[t] = 0
        /\ state[t] = Empty
    BY DEF Init
  <2> QED
    BY <1>3, <2>1 DEF ThisPage, PageOK, FlowOK, EtagOK, Idle
<1>11. IsEarned(local)
  BY <1>3 DEF Init
<1> QED
  BY <1>6, <1>8, <1>9, <1>10, <1>11, InvariantParts

\* A stuttering step changes nothing.
LEMMA StutterSafe ==
    ASSUME LegacyInv, UNCHANGED vars
    PROVE  LegacyInv'
<1>1. UNCHANGED <<rows, history, args, applied, answer, body, calls, edits, opens, lost,
                  local, phase, state, revision, timer, status, tag, cached, flow>>
  BY DEF vars, serverVars, counted, pageVars
<1>2. /\ ServerInv /\ PageTypes /\ CallsSuffice /\ IsEarned(local)
      /\ \A t \in Tabs : ThisPage(t)
  BY InvariantParts
<1>3. NoSend
  BY <1>1 DEF NoSend, serverVars
<1>4. ServerInv'
  BY <1>2, <1>3, NoSendKeeps DEF ServerMoves
<1>5. PageTypes' /\ IsEarned(local')
  BY <1>1, <1>2 DEF PageTypes
<1>6. CallsSuffice'
  BY <1>1, <1>2, InCosts DEF Left, NextLeft
<1>7. \A t \in Tabs : NextPage(t)
  <2>1. Current' = Current
    BY <1>1 DEF Current
  <2> QED
    BY <1>1, <1>2, <2>1 DEF ThisPage, NextPage
<1> QED
  BY <1>4, <1>5, <1>6, <1>7, InvariantParts

\* Each step of a page, the user or the server keeps the invariant.
LEMMA NextIsSafe ==
    ASSUME LegacyInv, Next
    PROVE  Safe \/ UNCHANGED vars
<1>1. ASSUME NEW t \in Tabs, NEW f \in Flows,
             \/ Hydrated(t, f) \/ HydratedEmpty(t, f) \/ SaveDone(t, f)
             \/ Conflicts(t, f) \/ Reloaded(t, f) \/ CallFails(t, f)
      PROVE  Safe
  BY <1>1, HydratedSafe, HydratedEmptySafe, SaveDoneSafe, ConflictsSafe, ReloadedSafe,
     CallFailsSafe
<1>2. ASSUME NEW t \in Tabs, TimerFires(t) PROVE Safe
  BY <1>2, TimerFiresSafe
<1>3. ASSUME NEW t \in Tabs, UserStep(t) PROVE Safe
  BY <1>3, OpenSafe, CloseSafe, EarnSafe DEF UserStep
<1>4. ASSUME NEW c \in Calls, ServerStep(c) PROVE Safe
  BY <1>4, ServerSafe
<1>5. ASSUME NEW t \in Tabs, FlowStep(t) PROVE Safe
  BY <1>1, <1>5 DEF FlowStep
<1> QED
  BY <1>2, <1>3, <1>4, <1>5 DEF Next, Finished

\* The inductive invariant: what the pages and the server hold follows from what
\* was saved (persistence.js, source.fragment.html:8272-8378).
THEOREM LegacyInvariant == Spec => []LegacyInv
<1>1. ASSUME LegacyInv, [Next]_vars PROVE LegacyInv'
  BY <1>1, NextIsSafe, StutterSafe DEF Safe
<1> QED
  BY InitIsSafe, <1>1, PTL DEF Spec

\* Overlapping saves never leave the page with an ETag that is not its revision's:
\* no save of it is refused for its If-Match once it has one.
THEOREM EtagsFollow == Spec => []EtagFollowsRevision
<1>1. LegacyInv => EtagFollowsRevision
  BY DEF LegacyInv
<1> QED
  BY <1>1, LegacyInvariant, PTL

\* Merging pays nobody twice, in no order of saves, conflicts and reloads.
THEOREM NeverInflated == Spec => []XpNeverInflated
<1>1. LegacyInv => XpNeverInflated
  <2> SUFFICES ASSUME LegacyInv PROVE XpNeverInflated
    OBVIOUS
  <2>1. /\ ServerInv /\ PageTypes /\ IsEarned(local) /\ \A t \in Tabs : ThisPage(t)
    BY InvariantParts
  <2>2. IsEarned(ServerState)
    <3>1. /\ ServerTypes /\ SavesAreChained /\ BodiesFollow /\ Current \in 0 .. Current
      BY <2>1 DEF ServerInv, ServerTypes, Current, Rows
    <3> QED
      BY <3>1, DocumentIsEarned, InDocuments
  <2>3. \A t \in Tabs : IsEarned(state[t])
    BY <2>1 DEF ThisPage, PageOK
  <2> QED
    BY <2>1, <2>2, <2>3 DEF XpNeverInflated, IsEarned
<1> QED
  BY <1>1, LegacyInvariant, PTL

\* No save takes an award off the server, however stale its page was and whatever
\* was lost, aborted or answered late.
THEOREM ServerKeeps == Spec => ServerKeepsAwards
<1> DEFINE Keeps == [/\ ServerState.awards \subseteq ServerState'.awards
                     /\ ServerState.xp <= ServerState'.xp]_serverVars
<1>1. ASSUME LegacyInv, [Next]_vars PROVE Keeps
  <2>1. CASE Safe
    <3>1. Below(ServerState, ServerState')
      BY <2>1, InDocuments DEF Safe, ServerMoves
    <3> QED
      BY <3>1 DEF Below
  <2>2. CASE UNCHANGED vars
    BY <2>2 DEF vars
  <2> QED
    BY <1>1, <2>1, <2>2, NextIsSafe
<1> QED
  BY <1>1, LegacyInvariant, PTL DEF Spec, ServerKeepsAwards

\* While a page is open nothing it has shown as earned disappears.
THEOREM PageKeeps == Spec => PageKeepsAwards
<1>1. ASSUME LegacyInv, [Next]_vars
      PROVE  [\A t \in Tabs :
                 (phase[t] = "open" /\ phase'[t] = "open") =>
                     /\ state[t].awards \subseteq state'[t].awards
                     /\ state[t].xp <= state'[t].xp]_pageVars
  <2>1. CASE Safe
    BY <2>1 DEF Safe, PagesKeep, Below
  <2>2. CASE UNCHANGED vars
    BY <2>2 DEF vars
  <2> QED
    BY <1>1, <2>1, <2>2, NextIsSafe
<1> QED
  BY <1>1, LegacyInvariant, PTL DEF Spec, PageKeepsAwards
=============================================================================
