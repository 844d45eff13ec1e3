-------------------------- MODULE ProjectListProofs --------------------------
(***************************************************************************)
(* What a walk through the pages of ProjectList promises, for every number *)
(* of clients and keys and every choice of page sizes, and that it is what *)
(* Walk says.                                                              *)
(***************************************************************************)
EXTENDS ProjectList, FiniteSetTheorems, WellFoundedInduction, TLAPS

-----------------------------------------------------------------------------
(* Lemmas about the page: limit + 1 rows are read, limit are kept.         *)

\* Sets of keys are finite.
LEMMA KeysFinite ==
  ASSUME NEW S \in SUBSET Key
  PROVE  IsFiniteSet(S) /\ Cardinality(S) \in Nat
<1>1. IsFiniteSet(Key)
  BY ProjectListAssumption, FS_Interval DEF Key
<1>q. QED
  BY <1>1, FS_Subset, FS_CardinalityType

\* A set of keys that is not empty has a greatest member, so that Greatest is
\* what its name says.
LEMMA GreatestKey ==
  ASSUME NEW S \in SUBSET Key, S # {}
  PROVE  Greatest(S) \in S /\ \A j \in S : j <= Greatest(S)
<1> DEFINE T == {MaxKey - k : k \in S}
           R == {ss \in Nat \X Nat : ss[1] < ss[2]}
<1>1. IsWellFoundedOn(R, Nat)
  BY NatLessThanWellFounded DEF OpToRel
<1>2. T \subseteq Nat /\ T # {}
  <2>1. \A k \in S : k \in Nat /\ k <= MaxKey /\ MaxKey \in Nat
    BY ProjectListAssumption DEF Key
  <2>2. \A k \in S : MaxKey - k \in Nat
    BY <2>1
  <2>q. QED
    BY <2>2
<1>3. PICK m \in T : \A y \in T : ~(<<y, m>> \in R)
  <2> HIDE DEF R, T
  <2>q. QED
    BY <1>1, <1>2, WFMin
<1>4. ASSUME NEW y \in T
      PROVE  m <= y
  <2>1. m \in Nat /\ y \in Nat
    BY <1>2, <1>3, <1>4
  <2>2. ~(<<y, m>> \in R)
    BY <1>3, <1>4
  <2>q. QED
    BY <2>1, <2>2
<1>5. PICK k \in S : m = MaxKey - k
  BY <1>3
<1>6. ASSUME NEW j \in S
      PROVE  j <= k
  <2>1. MaxKey - j \in T
    OBVIOUS
  <2>2. MaxKey - k <= MaxKey - j
    BY <1>4, <1>5, <2>1
  <2>3. j \in Int /\ k \in Int /\ MaxKey \in Int
    BY ProjectListAssumption DEF Key
  <2>q. QED
    BY <2>2, <2>3
<1>q. QED
  BY <1>6 DEF Greatest

\* A page of n keys out of the set S that the query ran over: it holds the
\* first keys of S up to the token it gives, or all of S when it gives none.
IsPage(S, n, kept, nxt) ==
  /\ kept \in SUBSET S
  /\ nxt \in 0..MaxKey
  /\ Cardinality(kept) <= n
  /\ nxt = 0 => kept = S
  /\ nxt # 0 =>
       /\ Cardinality(kept) = n
       /\ nxt \in kept
       /\ \A k \in kept : k <= nxt
       /\ \A k \in S : k <= nxt => k \in kept
       /\ \E k \in S : nxt < k

LEMMA PageIsPage ==
  ASSUME NEW S \in SUBSET Key, NEW n \in Nat \ {0}, NEW rows \in SUBSET S,
         IsFirst(rows, n + 1, S)
  PROVE  IsPage(S, n, Kept(rows, n), NextToken(rows, n))
<1> USE ProjectListAssumption
<1>1. rows \in SUBSET Key /\ IsFiniteSet(rows) /\ Cardinality(rows) \in Nat
  BY KeysFinite
<1>2. CASE Cardinality(rows) <= n
  <2>1. rows = S
    BY <1>1, <1>2 DEF IsFirst
  <2>2. Kept(rows, n) = rows /\ NextToken(rows, n) = 0
    BY <1>1, <1>2 DEF Kept, NextToken
  <2>q. QED
    BY <1>2, <2>1, <2>2 DEF IsPage
<1>3. CASE Cardinality(rows) > n
  <2> DEFINE g == Greatest(rows)
             kept == rows \ {g}
             m == Greatest(kept)
  <2>1. Cardinality(rows) = n + 1
    BY <1>1, <1>3 DEF IsFirst
  <2>2. rows # {}
    BY <2>1, FS_EmptySet
  <2>3. g \in rows /\ \A j \in rows : j <= g
    BY <1>1, <2>2, GreatestKey
  <2>4. IsFiniteSet(kept) /\ Cardinality(kept) = n
    <3> HIDE DEF g
    <3>1. IsFiniteSet(kept) /\ Cardinality(kept) = Cardinality(rows) - 1
      BY <1>1, <2>3, FS_RemoveElement
    <3>q. QED
      BY <2>1, <3>1
  <2>5. kept # {}
    BY <2>4, FS_EmptySet
  <2>6. m \in kept /\ \A j \in kept : j <= m
    BY <1>1, <2>5, GreatestKey
  <2>7. Kept(rows, n) = kept /\ NextToken(rows, n) = m
    BY <1>3 DEF Kept, NextToken
  <2> HIDE DEF g, kept, m
  <2>8. g \in Key /\ m \in Key /\ m < g
    <3>1. g \in Key /\ m \in Key /\ m # g /\ m \in rows
      BY <1>1, <2>3, <2>6 DEF kept
    <3>q. QED
      BY <2>3, <3>1 DEF Key
  <2>9. ASSUME NEW k \in S, k <= m
        PROVE  k \in kept
    <3>1. k \in Key
      OBVIOUS
    <3>2. CASE k \notin rows
      <4>1. m < k
        BY <2>6, <3>2 DEF IsFirst, kept
      <4>q. QED
        BY <2>8, <2>9, <3>1, <4>1 DEF Key
    <3>3. k # g
      BY <2>8, <2>9, <3>1 DEF Key
    <3>q. QED
      BY <3>2, <3>3 DEF kept
  <2>10. m \in 0..MaxKey /\ m # 0
    BY <2>8 DEF Key
  <2>11. kept \in SUBSET S /\ g \in S
    BY <2>3 DEF kept
  <2>12. \E k \in S : m < k
    BY <2>8, <2>11
  <2>13. Cardinality(kept) <= n
    BY <2>4
  <2>14. IsPage(S, n, kept, m)
    BY <2>4, <2>6, <2>9, <2>10, <2>11, <2>12, <2>13 DEF IsPage
  <2>q. QED
    BY <2>7, <2>14
<1>q. QED
  BY <1>1, <1>2, <1>3

-----------------------------------------------------------------------------
(* The inductive invariant.                                                *)

Walking(c) == cpc[c] \in {"ready", "sent", "answered"}

\* What the histories say of the table and of each other.
History(c) ==
  /\ steady[c] \subseteq Live
  /\ seen[c] \subseteq ever[c]
  /\ Walking(c) => Live \subseteq ever[c]

\* Up to its token a client has seen all it must see, and beyond it nothing.
Token(c) ==
  Walking(c) =>
    /\ \A k \in seen[c] : k <= token[c]
    /\ \A k \in steady[c] : k <= token[c] => k \in seen[c]

\* What an answer under way holds, however much has changed since the query.
Answer(c) ==
  cpc[c] = "answered" =>
    /\ page[c] \subseteq ever[c]
    /\ \A k \in page[c] : token[c] < k
    /\ Cardinality(page[c]) <= limit[c]
    /\ next[c] = 0 => \A k \in steady[c] : token[c] < k => k \in page[c]
    /\ next[c] # 0 =>
         /\ token[c] < next[c]
         /\ \A k \in page[c] : k <= next[c]
         /\ \A k \in steady[c] : token[c] < k /\ k <= next[c] => k \in page[c]
         /\ Cardinality(page[c]) = limit[c]
         /\ \E k \in ever[c] : next[c] < k

Complete(c) == cpc[c] = "ended" => steady[c] \subseteq seen[c]

ClientInv(c) == History(c) /\ Token(c) /\ Answer(c) /\ Complete(c)

IInv == TypeOK /\ \A c \in Client : ClientInv(c)

\* A query reads a page of the live rows beyond the token.
LEMMA QueryReadsPage ==
  ASSUME TypeOK, NEW c \in Client, Query(c)
  PROVE  /\ IsPage(LiveAfter(token[c]), limit[c], page'[c], next'[c])
         /\ page' = [page EXCEPT ![c] = page'[c]]
         /\ next' = [next EXCEPT ![c] = next'[c]]
<1>1. PICK rows \in SUBSET LiveAfter(token[c]) :
        /\ IsFirst(rows, limit[c] + 1, LiveAfter(token[c]))
        /\ page' = [page EXCEPT ![c] = Kept(rows, limit[c])]
        /\ next' = [next EXCEPT ![c] = NextToken(rows, limit[c])]
  BY DEF Query
<1>2. LiveAfter(token[c]) \in SUBSET Key
  BY DEF LiveAfter, Live
<1>3. limit[c] \in Nat \ {0}
  BY ProjectListAssumption DEF TypeOK
<1>4. page'[c] = Kept(rows, limit[c]) /\ next'[c] = NextToken(rows, limit[c])
  BY <1>1 DEF TypeOK
<1>q. QED
  BY <1>1, <1>2, <1>3, <1>4, PageIsPage

\* The variables keep their types.
LEMMA TypeStep ==
  ASSUME TypeOK, [Next]_vars
  PROVE  TypeOK'
<1> USE ProjectListAssumption DEF TypeOK, Key
<1>1. CASE UNCHANGED vars
  BY <1>1 DEF vars
<1>2. ASSUME NEW c \in Client, Begin(c)
      PROVE  TypeOK'
  BY <1>2 DEF Begin, Live
<1>3. ASSUME NEW c \in Client, Request(c)
      PROVE  TypeOK'
  <2>1. PICK size : limit' = [limit EXCEPT ![c] = Limit(size)]
    BY <1>3 DEF Request
  <2>2. Limit(size) \in 1..MaxPageSize
    BY DEF Limit
  <2>q. QED
    BY <1>3, <2>1, <2>2 DEF Request, Goto
<1>4. ASSUME NEW c \in Client, Reject(c)
      PROVE  TypeOK'
  BY <1>4 DEF Reject, Goto
<1>5. ASSUME NEW c \in Client, Query(c)
      PROVE  TypeOK'
  <2>1. page'[c] \in SUBSET Key /\ next'[c] \in 0..MaxKey
    BY <1>5, QueryReadsPage DEF IsPage, LiveAfter, Live
  <2>2. page' \in [Client -> SUBSET Key] /\ next' \in [Client -> 0..MaxKey]
    BY <1>5, <2>1, QueryReadsPage
  <2>q. QED
    BY <1>5, <2>2 DEF Query, Goto
<1>6. ASSUME NEW c \in Client, QueryFails(c)
      PROVE  TypeOK'
  BY <1>6 DEF QueryFails, Goto, Fault
<1>7. ASSUME NEW c \in Client, Deliver(c)
      PROVE  TypeOK'
  BY <1>7 DEF Deliver, Goto
<1>8. ASSUME NEW c \in Client, LoseAnswer(c)
      PROVE  TypeOK'
  BY <1>8 DEF LoseAnswer, Goto, Fault
<1>9. ASSUME NEW k \in Key, Create(k) \/ Restore(k)
      PROVE  TypeOK'
  <2>1. projects' \in [Key -> {"absent", "live", "deleted"}]
    BY <1>9 DEF Create, Restore, Appear
  <2>2. ever' \in [Client -> SUBSET Key]
    BY <1>9 DEF Create, Restore, Appear
  <2>q. QED
    BY <1>9, <2>1, <2>2 DEF Create, Restore, Appear
<1>10. ASSUME NEW k \in Key, SoftDelete(k)
       PROVE  TypeOK'
  <2>1. projects' \in [Key -> {"absent", "live", "deleted"}]
    BY <1>10 DEF SoftDelete
  <2>2. steady' \in [Client -> SUBSET Key]
    BY <1>10 DEF SoftDelete
  <2>q. QED
    BY <1>10, <2>1, <2>2 DEF SoftDelete
<1> HIDE DEF TypeOK, Key
<1>q. QED
  BY <1>1, <1>2, <1>3, <1>4, <1>5, <1>6, <1>7, <1>8, <1>9, <1>10 DEF Next

\* A client whose variables stay as they are keeps its part of the invariant.
LEMMA ClientUnchanged ==
  ASSUME NEW d \in Client, ClientInv(d), UNCHANGED projects,
         UNCHANGED <<cpc[d], token[d], limit[d], page[d], next[d], seen[d],
                     steady[d], ever[d]>>
  PROVE  ClientInv(d)'
BY DEF ClientInv, History, Token, Answer, Complete, Walking, Live

\* A walk begins with everything ahead of it.
LEMMA BeginInv ==
  ASSUME IInv, NEW c \in Client, Begin(c), NEW d \in Client
  PROVE  ClientInv(d)'
<1>1. CASE d # c
  BY <1>1, ClientUnchanged DEF Begin, IInv, TypeOK
<1>2. CASE d = c
  <2>1. /\ cpc'[c] = "ready" /\ token'[c] = 0 /\ seen'[c] = {}
        /\ steady'[c] = Live /\ ever'[c] = Live /\ UNCHANGED projects
    BY DEF Begin, IInv, TypeOK
  <2>2. \A k \in Live : ~(k <= 0)
    BY DEF Live, Key
  <2>q. QED
    BY <1>2, <2>1, <2>2
    DEF ClientInv, History, Token, Answer, Complete, Walking, Live
<1>q. QED
  BY <1>1, <1>2

\* Sending a request, having it refused, failing, losing an answer: the walk
\* stays where it is.
LEMMA RequestInv ==
  ASSUME IInv, NEW c \in Client,
         Request(c) \/ Reject(c) \/ QueryFails(c) \/ LoseAnswer(c),
         NEW d \in Client
  PROVE  ClientInv(d)'
<1>1. CASE d # c
  BY <1>1, ClientUnchanged
  DEF Request, Reject, QueryFails, LoseAnswer, Goto, IInv, TypeOK
<1>2. CASE d = c
  <2>1. /\ UNCHANGED <<projects, token, page, next, seen, steady, ever>>
        /\ Walking(c) /\ cpc'[c] \in {"idle", "ready", "sent"}
    BY DEF Request, Reject, QueryFails, LoseAnswer, Goto, IInv, TypeOK, Walking
  <2>q. QED
    BY <1>2, <2>1
    DEF IInv, ClientInv, History, Token, Answer, Complete, Walking, Live
<1>q. QED
  BY <1>1, <1>2

\* The page of a query answers for all live rows up to its token.
LEMMA QueryInv ==
  ASSUME IInv, NEW c \in Client, Query(c), NEW d \in Client
  PROVE  ClientInv(d)'
<1>t. TypeOK /\ ClientInv(c)
  BY DEF IInv
<1>p. /\ IsPage(LiveAfter(token[c]), limit[c], page'[c], next'[c])
      /\ page' = [page EXCEPT ![c] = page'[c]]
      /\ next' = [next EXCEPT ![c] = next'[c]]
  BY <1>t, QueryReadsPage
<1>1. CASE d # c
  BY <1>1, <1>p, ClientUnchanged DEF Query, Goto, IInv, TypeOK
<1>2. CASE d = c
  <2>1. /\ UNCHANGED <<projects, token, limit, seen, steady, ever>>
        /\ cpc[c] = "sent" /\ cpc'[c] = "answered"
    BY <1>t DEF Query, Goto, TypeOK
  <2>2. steady[c] \subseteq Live /\ Live \subseteq ever[c]
    BY <1>t, <2>1 DEF ClientInv, History, Walking
  <2>3. \A k \in steady[c] : token[c] < k => k \in LiveAfter(token[c])
    BY <2>2 DEF LiveAfter
  <2>4. \A k \in LiveAfter(token[c]) : token[c] < k /\ k \in ever[c]
    BY <2>2 DEF LiveAfter
  <2>5. Answer(c)'
    BY <1>p, <2>1, <2>3, <2>4 DEF Answer, IsPage
  <2>6. History(c)' /\ Token(c)' /\ Complete(c)'
    BY <1>t, <2>1 DEF ClientInv, History, Token, Complete, Walking, Live
  <2>q. QED
    BY <1>2, <2>5, <2>6 DEF ClientInv
<1>q. QED
  BY <1>1, <1>2

\* The client moves on to the token of the answer, or has reached the end.
LEMMA DeliverInv ==
  ASSUME IInv, NEW c \in Client, Deliver(c), NEW d \in Client
  PROVE  ClientInv(d)'
<1>t. TypeOK /\ ClientInv(c)
  BY DEF IInv
<1>1. CASE d # c
  BY <1>1, ClientUnchanged DEF Deliver, Goto, IInv, TypeOK
<1>2. CASE d = c
  <2>1. /\ UNCHANGED <<projects, steady, ever>>
        /\ seen'[c] = seen[c] \cup page[c]
        /\ cpc[c] = "answered"
        /\ next[c] = 0 => cpc'[c] = "ended"
        /\ next[c] # 0 => cpc'[c] = "ready" /\ token'[c] = next[c]
    BY <1>t DEF Deliver, Goto, TypeOK
  <2>2. /\ \A k \in steady[c] \cup seen[c] \cup page[c] : k \in Int /\ 0 < k
        /\ token[c] \in Int /\ next[c] \in Int
    BY <1>t, ProjectListAssumption DEF TypeOK, Key
  <2>3. Token(c) /\ Answer(c) /\ Walking(c)
    BY <1>t, <2>1 DEF ClientInv, Walking
  <2>4. History(c)' /\ Answer(c)'
    BY <1>t, <2>1 DEF ClientInv, History, Answer, Walking, Live
  <2>5. CASE next[c] = 0
    <3>1. ASSUME NEW k \in steady[c]
          PROVE  k \in seen[c] \cup page[c]
      <4>1. k <= token[c] => k \in seen[c]
        BY <2>3 DEF Token
      <4>2. token[c] < k => k \in page[c]
        BY <2>1, <2>3, <2>5 DEF Answer
      <4>q. QED
        BY <2>2, <4>1, <4>2
    <3>2. Token(c)' /\ Complete(c)'
      BY <2>1, <2>5, <3>1 DEF Token, Complete, Walking
    <3>q. QED
      BY <1>2, <2>4, <3>2 DEF ClientInv
  <2>6. CASE next[c] # 0
    <3>1. ASSUME NEW k \in seen[c] \cup page[c]
          PROVE  k <= next[c]
      <4>1. k \in seen[c] => k <= token[c]
        BY <2>3 DEF Token
      <4>2. token[c] < next[c] /\ (k \in page[c] => k <= next[c])
        BY <2>1, <2>3, <2>6 DEF Answer
      <4>q. QED
        BY <2>2, <4>1, <4>2
    <3>2. ASSUME NEW k \in steady[c], k <= next[c]
          PROVE  k \in seen[c] \cup page[c]
      <4>1. k <= token[c] => k \in seen[c]
        BY <2>3 DEF Token
      <4>2. token[c] < k => k \in page[c]
        BY <2>1, <2>3, <2>6, <3>2 DEF Answer
      <4>q. QED
        BY <2>2, <4>1, <4>2
    <3>3. Token(c)' /\ Complete(c)'
      BY <2>1, <2>6, <3>1, <3>2 DEF Token, Complete, Walking
    <3>q. QED
      BY <1>2, <2>4, <3>3 DEF ClientInv
  <2>q. QED
    BY <2>5, <2>6
<1>q. QED
  BY <1>1, <1>2

\* A row that appears is not owed to a walk under way, and one that
\* disappears is no longer owed.
LEMMA TableInv ==
  ASSUME IInv, NEW k \in Key, Create(k) \/ Restore(k) \/ SoftDelete(k),
         NEW d \in Client
  PROVE  ClientInv(d)'
<1>t. TypeOK /\ ClientInv(d)
  BY DEF IInv
<1>1. CASE Create(k) \/ Restore(k)
  <2>1. /\ UNCHANGED <<cpc, token, limit, page, next, seen, steady>>
        /\ ever'[d] = ever[d] \cup {k}
        /\ projects' = [projects EXCEPT ![k] = "live"]
    BY <1>1 DEF Create, Restore, Appear
  <2>2. Live' = Live \cup {k}
    BY <1>t, <2>1 DEF Live, TypeOK
  <2>q. QED
    BY <1>t, <2>1, <2>2
    DEF ClientInv, History, Token, Answer, Complete, Walking
<1>2. CASE SoftDelete(k)
  <2>1. /\ UNCHANGED <<cpc, token, limit, page, next, seen, ever>>
        /\ steady'[d] = steady[d] \ {k}
        /\ projects' = [projects EXCEPT ![k] = "deleted"]
    BY <1>2 DEF SoftDelete
  <2>2. Live' = Live \ {k}
    BY <1>t, <2>1 DEF Live, TypeOK
  <2>q. QED
    BY <1>t, <2>1, <2>2
    DEF ClientInv, History, Token, Answer, Complete, Walking
<1>q. QED
  BY <1>1, <1>2

\* The inductive invariant is preserved by every step.
LEMMA StepInv ==
  ASSUME IInv, [Next]_vars
  PROVE  IInv'
<1>1. TypeOK'
  BY TypeStep DEF IInv
<1>2. ASSUME NEW d \in Client
      PROVE  ClientInv(d)'
  <2>1. CASE UNCHANGED vars
    BY <2>1, ClientUnchanged DEF vars, IInv
  <2>2. CASE Next
    BY <2>2, BeginInv, RequestInv, QueryInv, DeliverInv, TableInv DEF Next
  <2>q. QED
    BY <2>1, <2>2
<1>q. QED
  BY <1>1, <1>2 DEF IInv

\* ProjectList keeps its inductive invariant.
THEOREM Inductive == Spec => []IInv
<1>1. Init => IInv
  BY ProjectListAssumption
  DEF Init, IInv, TypeOK, ClientInv, History, Token, Answer, Complete, Walking,
    Live, Key
<1>2. IInv /\ [Next]_vars => IInv'
  BY StepInv
<1>q. QED
  BY <1>1, <1>2, PTL DEF Spec

\* The variables keep their types.
THEOREM TypeCorrect == Spec => []TypeOK
BY Inductive, PTL DEF IInv

\* A walk that ended has returned every project that was there throughout.
THEOREM WalksAreComplete == Spec => []WalkIsComplete
<1>1. IInv => WalkIsComplete
  BY DEF IInv, ClientInv, Complete, WalkIsComplete
<1>q. QED
  BY Inductive, <1>1, PTL

\* No answer repeats a project of an earlier page.
THEOREM PagesDoNotRepeat == Spec => []NoRepeats
<1>1. IInv => NoRepeats
  <2> SUFFICES ASSUME IInv, NEW c \in Client, cpc[c] = "answered",
                      NEW k \in page[c], k \in seen[c]
               PROVE  FALSE
    BY DEF NoRepeats
  <2>1. k <= token[c] /\ token[c] < k
    BY DEF IInv, ClientInv, Token, Answer, Walking
  <2>2. k \in Int /\ token[c] \in Int
    BY ProjectListAssumption DEF IInv, TypeOK, Key
  <2>q. QED
    BY <2>1, <2>2
<1>q. QED
  BY Inductive, <1>1, PTL

\* A client is given only projects that were there during its walk.
THEOREM NothingStale == Spec => []OnlyExisting
<1>1. IInv => OnlyExisting
  BY DEF IInv, ClientInv, History, OnlyExisting
<1>q. QED
  BY Inductive, <1>1, PTL

\* A next_page_token comes with a full page, and more was there to read.
THEOREM TokensLead == Spec => []TokenMeansMore
<1>1. IInv => TokenMeansMore
  BY DEF IInv, ClientInv, Answer, TokenMeansMore
<1>q. QED
  BY Inductive, <1>1, PTL

\* The keys a client is given only go up.
THEOREM WalksGoUp == Spec => KeysGoUp
<1> DEFINE Up(c) == \A k \in seen'[c] \ seen[c], j \in seen[c] \cap seen'[c] :
                      j < k
<1>1. ASSUME IInv, [Next]_vars, NEW c \in Client
      PROVE  Up(c)
  <2>1. CASE UNCHANGED seen[c]
    BY <2>1
  <2>2. CASE seen'[c] = {}
    BY <2>2
  <2>3. CASE Deliver(c)
    <3>1. seen'[c] = seen[c] \cup page[c] /\ cpc[c] = "answered"
      BY <1>1, <2>3 DEF Deliver, Goto, IInv, TypeOK
    <3> SUFFICES ASSUME NEW k \in page[c], NEW j \in seen[c]
                 PROVE  j < k
      BY <3>1
    <3>2. j <= token[c] /\ token[c] < k
      BY <1>1, <3>1 DEF IInv, ClientInv, Token, Answer, Walking
    <3>3. k \in Int /\ j \in Int /\ token[c] \in Int
      BY <1>1, ProjectListAssumption DEF IInv, TypeOK, Key
    <3>q. QED
      BY <3>2, <3>3
  <2>4. UNCHANGED seen[c] \/ seen'[c] = {} \/ Deliver(c)
    <3>1. CASE UNCHANGED vars
      BY <3>1 DEF vars
    <3>2. ASSUME NEW d \in Client,
                 \/ Begin(d) \/ Request(d) \/ Reject(d) \/ Query(d)
                 \/ QueryFails(d) \/ Deliver(d) \/ LoseAnswer(d)
          PROVE  UNCHANGED seen[c] \/ seen'[c] = {} \/ Deliver(c)
      BY <1>1, <3>2
      DEF IInv, TypeOK, Begin, Request, Reject, Query, QueryFails, Deliver,
        LoseAnswer
    <3>3. ASSUME NEW k \in Key, Create(k) \/ Restore(k) \/ SoftDelete(k)
          PROVE  UNCHANGED seen[c]
      BY <3>3 DEF Create, Restore, Appear, SoftDelete
    <3>q. QED
      BY <1>1, <3>1, <3>2, <3>3 DEF Next
  <2>q. QED
    BY <2>1, <2>2, <2>3, <2>4
<1>2. IInv /\ [Next]_vars => [\A c \in Client : Up(c)]_vars
  BY <1>1
<1>q. QED
  BY Inductive, <1>2, PTL DEF Spec, KeysGoUp

-----------------------------------------------------------------------------
(* ProjectList implements Walk.                                            *)

WalkOf(d) == IF cpc[d] \in {"idle", "ended"} THEN cpc[d] ELSE "walking"

\* An action of client c that takes it from one place to another changes the
\* abstract state of no other client.
LEMMA GotoWalk ==
  ASSUME TypeOK, NEW c \in Client,
         NEW to \in {"idle", "ready", "sent", "answered", "ended"},
         cpc' = [cpc EXCEPT ![c] = to]
  PROVE  [d \in Client |-> WalkOf(d)]' =
           [[d \in Client |-> WalkOf(d)] EXCEPT ![c] =
              IF to \in {"idle", "ended"} THEN to ELSE "walking"]
BY DEF TypeOK, WalkOf

\* Delivering the last page finishes the walk, delivering another one advances
\* it: the page holds what the walk must be given up to the new cursor.
LEMMA DeliverWalks ==
  ASSUME IInv, NEW c \in Client, Deliver(c)
  PROVE  W!Advance(c) \/ W!Finish(c)
<1>t. TypeOK /\ ClientInv(c)
  BY DEF IInv
<1>1. /\ UNCHANGED <<projects, steady, ever>>
      /\ seen' = [seen EXCEPT ![c] = @ \cup page[c]]
      /\ cpc[c] = "answered"
      /\ Answer(c)
  BY <1>t DEF Deliver, Goto, ClientInv
<1>2. /\ \A k \in Key : k \in Int /\ 0 < k
      /\ token[c] \in Int /\ next[c] \in 0..MaxKey /\ page[c] \in SUBSET Key
      /\ steady[c] \in SUBSET Key
  BY <1>t, ProjectListAssumption DEF TypeOK, Key
<1>3. W!Key = Key
  BY DEF W!Key, Key
<1>4. WalkOf(c) = "walking"
  BY <1>1 DEF WalkOf
<1>5. CASE next[c] = 0
  <2>1. W!Covers(c, page[c], W!Above(token[c]))
    BY <1>1, <1>2, <1>3, <1>5 DEF Answer, W!Covers, W!Above
  <2>2. /\ cpc' = [cpc EXCEPT ![c] = "ended"]
        /\ UNCHANGED token
    BY <1>t, <1>5 DEF Deliver, Goto, TypeOK
  <2>3. [d \in Client |-> WalkOf(d)]' =
          [[d \in Client |-> WalkOf(d)] EXCEPT ![c] = "ended"]
    BY <1>t, <2>2, GotoWalk
  <2>4. W!Finish(c)
    BY <1>1, <1>2, <1>3, <1>4, <2>1, <2>2, <2>3 DEF W!Finish, WalkOf
  <2>q. QED
    BY <2>4
<1>6. CASE next[c] # 0
  <2>1. W!Covers(c, page[c], W!Above(token[c]) \ W!Above(next[c]))
    BY <1>1, <1>2, <1>3, <1>6 DEF Answer, W!Covers, W!Above
  <2>2. next[c] \in W!Above(token[c])
    BY <1>1, <1>2, <1>3, <1>6 DEF Answer, W!Above, Key
  <2>3. /\ cpc' = [cpc EXCEPT ![c] = "ready"]
        /\ token' = [token EXCEPT ![c] = next[c]]
    BY <1>t, <1>6 DEF Deliver, Goto, TypeOK
  <2>4. UNCHANGED [d \in Client |-> WalkOf(d)]
    BY <1>t, <1>1, <2>3 DEF WalkOf, TypeOK
  <2>5. W!Advance(c)
    BY <1>1, <1>2, <1>3, <1>4, <2>1, <2>2, <2>3, <2>4 DEF W!Advance, WalkOf
  <2>q. QED
    BY <2>5
<1>q. QED
  BY <1>5, <1>6

\* Every step of ProjectList is a step of Walk or changes nothing of it.
LEMMA StepWalks ==
  ASSUME IInv, [Next]_vars
  PROVE  [W!Next]_(W!vars)
<1>t. TypeOK
  BY DEF IInv
<1>k. W!Key = Key /\ W!Live = Live
  BY DEF W!Key, Key, W!Live, Live
<1>1. CASE UNCHANGED vars
  BY <1>1 DEF vars, W!vars, WalkOf
<1>2. ASSUME NEW c \in Client, Begin(c)
      PROVE  W!Begin(c)
  <2>1. [d \in Client |-> WalkOf(d)]' =
          [[d \in Client |-> WalkOf(d)] EXCEPT ![c] = "walking"]
    BY <1>t, <1>2, GotoWalk DEF Begin
  <2>q. QED
    BY <1>2, <1>k, <2>1 DEF Begin, W!Begin, WalkOf
<1>3. ASSUME NEW c \in Client,
             Request(c) \/ Query(c) \/ QueryFails(c) \/ LoseAnswer(c)
      PROVE  UNCHANGED W!vars
  <2>1. UNCHANGED <<projects, token, seen, steady, ever>>
    BY <1>3 DEF Request, Query, QueryFails, LoseAnswer
  <2>2. \A d \in Client : UNCHANGED WalkOf(d)
    BY <1>t, <1>3 DEF Request, Query, QueryFails, LoseAnswer, Goto, TypeOK, WalkOf
  <2>q. QED
    BY <2>1, <2>2 DEF W!vars, WalkOf
<1>4. ASSUME NEW c \in Client, Reject(c)
      PROVE  W!GiveUp(c)
  <2>1. [d \in Client |-> WalkOf(d)]' =
          [[d \in Client |-> WalkOf(d)] EXCEPT ![c] = "idle"]
    BY <1>t, <1>4, GotoWalk DEF Reject, Goto
  <2>q. QED
    BY <1>4, <2>1 DEF Reject, Goto, W!GiveUp, WalkOf
<1>5. ASSUME NEW k \in Key, Create(k) \/ Restore(k)
      PROVE  W!Appear(k)
  BY <1>5 DEF Create, Restore, Appear, W!Appear, WalkOf
<1>6. ASSUME NEW k \in Key, SoftDelete(k)
      PROVE  W!Disappear(k)
  BY <1>6 DEF SoftDelete, W!Disappear, WalkOf
<1>7. CASE Next
  BY <1>7, <1>2, <1>3, <1>4, <1>5, <1>6, <1>k, DeliverWalks DEF Next, W!Next
<1>q. QED
  BY <1>1, <1>7

\* Whatever happens to requests and rows, listing does what Walk says.
THEOREM Implements == Spec => ImplementsWalk
<1>1. Init => W!Init
  BY DEF Init, W!Init, Key, W!Key
<1>2. IInv /\ [Next]_vars => [W!Next]_(W!vars)
  BY StepWalks
<1>q. QED
  BY Inductive, <1>1, <1>2, PTL DEF Spec, ImplementsWalk, W!Spec
=============================================================================
