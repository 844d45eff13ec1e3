----------------------------- MODULE RouterProofs ------------------------------
(***************************************************************************)
(* The router is sound: whatever the method and the path, an operation it  *)
(* dispatches to has that method and a route that is the path, with the    *)
(* arguments of the operation in its placeholders.  And it is complete: an *)
(* operation's route, with segments of a path in its placeholders, leads   *)
(* to the operation.  Module Web's runs try some paths of every operation; *)
(* here the path is any.                                                   *)
(***************************************************************************)
EXTENDS Api, FiniteSetTheorems, WellFoundedInduction, TLAPS

-----------------------------------------------------------------------------
(* Sequences, cut and put together.  The concatenations of whole paths are *)
(* written with an operator that stays closed, for the provers take \o apart.*)

s ++ t == s \o t

\* The words of the trie.
TrieWords ==
  {"/", ":", "healthz", "readyz", "v1", "auth", "csrf", "login", "logout",
   "passwordReset", "confirm", "request", "refresh", "auditLogs", "export", "search",
   "environments", "policy", "groups", "members", "iam", "getIamPolicy",
   "setIamPolicy", "testIamPermissions", "identityProviders", "test", "projects",
   "undelete", "exportTasks", "download", "instances", "sync", "testConnection",
   "dataSources", "databases", "query", "syncSchema", "worksheets", "favorite",
   "unfavorite", "queryHistories", "settings", "users", "me", "favorites",
   "notifications", "markRead", "markAllRead", "unreadCount", "mfa", "regenerate",
   "password"}

\* The tokens of a path are strings: the provers do not know that the literals are.
Token == STRING \cup TrieWords

IsSequence(s) == \E T : s \in Seq(T)

LEMMA Equal ==
  ASSUME NEW S, NEW s \in Seq(S), NEW t \in Seq(S), Len(s) = Len(t),
         \A i \in 1..Len(s) : s[i] = t[i]
  PROVE  s = t
OBVIOUS

LEMMA Joined ==
  ASSUME NEW S, NEW s \in Seq(S), NEW t \in Seq(S)
  PROVE  /\ s \o t \in Seq(S) /\ Len(s \o t) = Len(s) + Len(t)
         /\ \A i \in 1..Len(s) : (s \o t)[i] = s[i]
         /\ \A i \in 1..Len(t) : (s \o t)[Len(s) + i] = t[i]
OBVIOUS

LEMMA JoinedEmpty ==
  ASSUME NEW S, NEW s \in Seq(S)
  PROVE  s \o <<>> = s /\ <<>> \o s = s
OBVIOUS

LEMMA JoinedTwice ==
  ASSUME NEW S, NEW s \in Seq(S), NEW t \in Seq(S), NEW u \in Seq(S)
  PROVE  (s \o t) \o u = s \o (t \o u)
OBVIOUS

LEMMA Wider ==
  ASSUME NEW S, NEW T, NEW s \in Seq(S), S \subseteq T
  PROVE  s \in Seq(T)
OBVIOUS

\* What makes s the concatenation of two others.
LEMMA Splits ==
  ASSUME NEW S, NEW s \in Seq(S), NEW a \in Seq(S), NEW b \in Seq(S),
         Len(a) + Len(b) = Len(s),
         \A i \in 1..Len(a) : a[i] = s[i],
         \A i \in 1..Len(b) : b[i] = s[Len(a) + i]
  PROVE  s = a \o b
<1>1. a \o b \in Seq(S) /\ Len(a \o b) = Len(s)
  BY Joined
<1>2. ASSUME NEW i \in 1..Len(s)
      PROVE  (a \o b)[i] = s[i]
  <2>1. CASE i <= Len(a)
    BY <2>1, Joined
  <2>2. CASE i > Len(a)
    <3>1. i - Len(a) \in 1..Len(b) /\ Len(a) + (i - Len(a)) = i
      BY <2>2
    <3>q. QED
      BY <3>1, Joined
  <2>q. QED
    BY <2>1, <2>2
<1>q. QED
  BY <1>1, <1>2, Equal

-----------------------------------------------------------------------------
(* The operators of the trie.                                              *)

\* A path is cut in two anywhere.
LEMMA CutAt ==
  ASSUME NEW S, NEW s \in Seq(S), NEW k \in 0..Len(s)
  PROVE  /\ SubSeq(s, 1, k) \in Seq(S) /\ After(s, k) \in Seq(S)
         /\ Len(SubSeq(s, 1, k)) = k /\ Len(After(s, k)) = Len(s) - k
         /\ s = SubSeq(s, 1, k) ++ After(s, k)
<1>1. /\ SubSeq(s, 1, k) \in Seq(S) /\ Len(SubSeq(s, 1, k)) = k
      /\ \A i \in 1..k : SubSeq(s, 1, k)[i] = s[i]
  OBVIOUS
<1>2. /\ After(s, k) \in Seq(S) /\ Len(After(s, k)) = Len(s) - k
      /\ \A i \in 1..(Len(s) - k) : After(s, k)[i] = s[k + i]
  BY DEF After
<1>3. PICK a, b : a = SubSeq(s, 1, k) /\ b = After(s, k)
  OBVIOUS
<1>4. /\ a \in Seq(S) /\ b \in Seq(S) /\ Len(a) + Len(b) = Len(s)
      /\ \A i \in 1..Len(a) : a[i] = s[i]
      /\ \A i \in 1..Len(b) : b[i] = s[Len(a) + i]
  BY <1>1, <1>2, <1>3
<1>5. s = a ++ b
  BY <1>4, Splits DEF ++
<1>q. QED
  BY <1>1, <1>2, <1>3, <1>5

\* A literal is cut off.
LEMMA LiteralCut ==
  ASSUME NEW s \in Seq(Token), NEW literal, IsSequence(literal), StartsWith(s, literal),
         NEW k, k = Len(literal)
  PROVE  /\ After(s, k) \in Seq(Token)
         /\ literal \in Seq(Token)
         /\ s = literal ++ After(s, k)
<1>1. k \in 0..Len(s) /\ SubSeq(s, 1, k) = SubSeq(literal, 1, k)
  BY DEF StartsWith, IsPrefix
<1>2. SubSeq(literal, 1, k) = literal
  BY DEF IsSequence
<1>3. /\ SubSeq(s, 1, k) \in Seq(Token) /\ After(s, k) \in Seq(Token)
      /\ s = SubSeq(s, 1, k) ++ After(s, k)
  BY <1>1, CutAt
<1>4. PICK a, b : a = SubSeq(s, 1, k) /\ b = After(s, k)
  OBVIOUS
<1>5. a = literal
  BY <1>1, <1>2, <1>4, Zenon
<1>q. QED
  BY <1>3, <1>4, <1>5, Zenon

\* A set of numbers that is not empty has a least member.
LEMMA LeastMember ==
  ASSUME NEW I, I \subseteq Nat, I # {}
  PROVE  Min(I) \in I
<1> DEFINE R == {ss \in Nat \X Nat : ss[1] < ss[2]}
<1>1. IsWellFoundedOn(R, Nat)
  BY NatLessThanWellFounded DEF OpToRel
<1>2. PICK m \in I : \A y \in I : ~(<<y, m>> \in R)
  <2> HIDE DEF R
  <2>q. QED
    BY <1>1, WFMin
<1>3. \A y \in I : m <= y
  <2> SUFFICES ASSUME NEW y \in I PROVE m <= y
    OBVIOUS
  <2>1. m \in Nat /\ y \in Nat /\ ~(<<y, m>> \in R)
    BY <1>2
  <2>q. QED
    BY <2>1
<1>q. QED
  BY <1>3 DEF Min

\* A parameter is cut off.
LEMMA ParameterCut ==
  ASSUME NEW elem \in Seq(Token), NEW stops
  PROVE  /\ Cut(elem, stops).value \in Seq(Token) /\ Cut(elem, stops).rest \in Seq(Token)
         /\ elem = Cut(elem, stops).value ++ Cut(elem, stops).rest
<1> DEFINE I == {i \in 1..Len(elem) : elem[i] \in stops}
           k == SelectInSeq(elem, LAMBDA t : t \in stops)
<1>1. k = IF I # {} THEN Min(I) ELSE 0
  BY DEF SelectInSeq
<1>2. CASE k = 0
  BY <1>2, JoinedEmpty DEF Cut, ++
<1>3. CASE k # 0
  <2>1. k \in I
    <3>1. k = Min(I) /\ I # {}
      BY <1>1, <1>3
    <3>2. I \subseteq Nat
      OBVIOUS
    <3> HIDE DEF k, I
    <3>q. QED
      BY <3>1, <3>2, LeastMember
  <2>2. k - 1 \in 0..Len(elem) /\ (k - 1) + 1 = k
    BY <2>1
  <2>4. Cut(elem, stops) = [value |-> SubSeq(elem, 1, k - 1), rest |-> SubSeq(elem, k, Len(elem))]
    BY <1>3 DEF Cut
  <2>3. /\ Cut(elem, stops).value = SubSeq(elem, 1, k - 1)
        /\ Cut(elem, stops).rest = After(elem, k - 1)
    <3> HIDE DEF k
    <3>q. QED
      BY <2>2, <2>4 DEF After
  <2> HIDE DEF k, I
  <2>q. QED
    BY <2>2, <2>3, CutAt
<1>q. QED
  BY <1>2, <1>3

-----------------------------------------------------------------------------
(* Reading a route off a path, piece by piece.  The trie has read a route  *)
(* when what it has cut off so far is that route with its values.          *)

Lit(word)  == <<"/", word>>
Verb(word) == <<":", word>>

s ## a == Append(s, a)

Spells(n, route, values, path) ==
  /\ n \in 0..8
  /\ IsSequence(route) /\ Len(route) = n
  /\ values \in Seq(Seq(Token))
  /\ Len(values) = Cardinality(Holes(route, n))
  /\ \A i \in 1..n : Filling(route, values, i) \in Seq(Token)
  /\ path \in Seq(Token) /\ path = Filled(route, values)

Chain(f) == f[1] ++ f[2] ++ f[3] ++ f[4] ++ f[5] ++ f[6] ++ f[7] ++ f[8]

\* What comes behind the n-th piece is appended to what is there.
LEMMA Chained ==
  ASSUME NEW f \in [1..8 -> Seq(Token)], NEW g \in [1..8 -> Seq(Token)], NEW n \in 0..7,
         \A i \in 1..n : g[i] = f[i],
         \A i \in (n + 1)..8 : f[i] = <<>>,
         \A i \in (n + 2)..8 : g[i] = <<>>
  PROVE  Chain(g) = Chain(f) ++ g[n + 1]
<1>1. \A s \in Seq(Token), t \in Seq(Token) : s ++ t \in Seq(Token)
  BY Joined DEF ++
<1>2. \A s \in Seq(Token) : s ++ <<>> = s /\ <<>> ++ s = s
  BY JoinedEmpty DEF ++
<1>3. <<>> \in Seq(Token)
  OBVIOUS
<1>4. \A i \in 1..8 : f[i] \in Seq(Token) /\ g[i] \in Seq(Token)
  OBVIOUS
<1>5. CASE n = 0
  BY <1>1, <1>2, <1>3, <1>4, <1>5 DEF Chain
<1>6. CASE n = 1
  BY <1>1, <1>2, <1>4, <1>6 DEF Chain
<1>7. CASE n = 2
  BY <1>1, <1>2, <1>4, <1>7 DEF Chain
<1>8. CASE n = 3
  BY <1>1, <1>2, <1>4, <1>8 DEF Chain
<1>9. CASE n = 4
  BY <1>1, <1>2, <1>4, <1>9 DEF Chain
<1>10. CASE n = 5
  BY <1>1, <1>2, <1>4, <1>10 DEF Chain
<1>11. CASE n = 6
  BY <1>1, <1>2, <1>4, <1>11 DEF Chain
<1>12. CASE n = 7
  <2>1. /\ g[1] = f[1] /\ g[2] = f[2] /\ g[3] = f[3] /\ g[4] = f[4] /\ g[5] = f[5]
        /\ g[6] = f[6] /\ g[7] = f[7] /\ f[8] = <<>> /\ n + 1 = 8
    BY <1>12
  <2>2. PICK q : q = f[1] ++ f[2] ++ f[3] ++ f[4] ++ f[5] ++ f[6] ++ f[7]
    OBVIOUS
  <2>3. q \in Seq(Token)
    <3>1. /\ f[1] \in Seq(Token) /\ f[2] \in Seq(Token) /\ f[3] \in Seq(Token)
          /\ f[4] \in Seq(Token) /\ f[5] \in Seq(Token) /\ f[6] \in Seq(Token)
          /\ f[7] \in Seq(Token)
      BY <1>4
    <3>q. QED
      BY <1>1, <2>2, <3>1, Zenon
  <2>4. Chain(g) = q ++ g[n + 1]
    BY <2>1, <2>2 DEF Chain
  <2>5. Chain(f) = q
    BY <1>2, <2>1, <2>2, <2>3 DEF Chain
  <2>q. QED
    BY <2>4, <2>5
<1>q. QED
  BY <1>5, <1>6, <1>7, <1>8, <1>9, <1>10, <1>11, <1>12

LEMMA FilledIs ==
  ASSUME NEW route, NEW values, NEW f, f = [i \in 1..8 |-> Filling(route, values, i)]
  PROVE  Filled(route, values) = Chain(f)
<1>1. /\ f[1] = Filling(route, values, 1) /\ f[2] = Filling(route, values, 2)
      /\ f[3] = Filling(route, values, 3) /\ f[4] = Filling(route, values, 4)
      /\ f[5] = Filling(route, values, 5) /\ f[6] = Filling(route, values, 6)
      /\ f[7] = Filling(route, values, 7) /\ f[8] = Filling(route, values, 8)
  OBVIOUS
<1>q. QED
  BY <1>1 DEF Filled, Chain, ++

LEMMA FillingBeyond ==
  ASSUME NEW route, NEW values, NEW i, i \notin DOMAIN route
  PROVE  Filling(route, values, i) = <<>>
BY DEF Filling

\* A route has n pieces, and a k-th one is put behind them.
Extends(T, n, k, route, piece, values, more) ==
  /\ n \in 0..7 /\ k = n + 1
  /\ route \in Seq(T) /\ Len(route) = n /\ piece \in T
  /\ \A i \in 1..n : Filling(route, values, i) \in Seq(Token)
  /\ \A i \in 1..n : Filling(route ## piece, more, i) = Filling(route, values, i)
  /\ Filling(route ## piece, more, k) \in Seq(Token)

LEMMA FilledMore ==
  ASSUME NEW T, NEW n, NEW k, NEW route, NEW piece, NEW values, NEW more,
         Extends(T, n, k, route, piece, values, more)
  PROVE  Filled(route ## piece, more) =
           Filled(route, values) ++ Filling(route ## piece, more, k)
<1>0. /\ n \in 0..7 /\ k = n + 1
      /\ route \in Seq(T) /\ Len(route) = n /\ piece \in T
      /\ \A i \in 1..n : Filling(route, values, i) \in Seq(Token)
      /\ \A i \in 1..n : Filling(route ## piece, more, i) = Filling(route, values, i)
      /\ Filling(route ## piece, more, k) \in Seq(Token)
  BY DEF Extends
<1>1. DOMAIN route = 1..n /\ DOMAIN (route ## piece) = 1..(n + 1)
  BY <1>0 DEF ##
<1>2. PICK f : f = [i \in 1..8 |-> Filling(route, values, i)]
  OBVIOUS
<1>3. PICK g : g = [i \in 1..8 |-> Filling(route ## piece, more, i)]
  OBVIOUS
<1>4. ASSUME NEW i \in (n + 1)..8
      PROVE  f[i] = <<>>
  <2>1. i \in 1..8 /\ i \notin DOMAIN route
    BY <1>0, <1>1
  <2>q. QED
    BY <1>2, <2>1, FillingBeyond
<1>5. ASSUME NEW i \in (n + 2)..8
      PROVE  g[i] = <<>>
  <2>1. i \in 1..8 /\ i \notin DOMAIN (route ## piece)
    BY <1>0, <1>1
  <2>q. QED
    BY <1>3, <2>1, FillingBeyond
<1>6. \A i \in 1..n : f[i] = Filling(route, values, i) /\ g[i] = Filling(route ## piece, more, i)
  BY <1>0, <1>2, <1>3
<1>7. n + 1 \in 1..8 /\ g[n + 1] = Filling(route ## piece, more, n + 1)
  BY <1>0, <1>3
<1>8. <<>> \in Seq(Token)
  OBVIOUS
<1>9. ASSUME NEW i \in 1..8
      PROVE  f[i] \in Seq(Token) /\ g[i] \in Seq(Token)
  <2>1. CASE i <= n
    <3>1. i \in 1..n
      BY <1>0, <2>1
    <3>q. QED
      BY <1>0, <1>6, <3>1
  <2>2. CASE i = n + 1
    <3>1. i \in (n + 1)..8
      BY <1>0, <2>2
    <3>2. f[i] = <<>> /\ g[i] = Filling(route ## piece, more, n + 1)
      BY <1>4, <1>7, <2>2, <3>1
    <3>q. QED
      BY <1>0, <1>8, <3>2
  <2>3. CASE i > n + 1
    <3>1. i \in (n + 1)..8 /\ i \in (n + 2)..8
      BY <1>0, <2>3
    <3>q. QED
      BY <1>4, <1>5, <1>8, <3>1
  <2>q. QED
    BY <1>0, <2>1, <2>2, <2>3
<1>10. f \in [1..8 -> Seq(Token)] /\ g \in [1..8 -> Seq(Token)]
  <2>1. DOMAIN f = 1..8 /\ DOMAIN g = 1..8 /\ f = [i \in 1..8 |-> f[i]] /\ g = [i \in 1..8 |-> g[i]]
    BY <1>2, <1>3
  <2>q. QED
    BY <1>9, <2>1
<1>11. \A i \in 1..n : g[i] = f[i]
  BY <1>0, <1>6
<1>12. Filled(route, values) = Chain(f) /\ Filled(route ## piece, more) = Chain(g)
  BY <1>2, <1>3, FilledIs
<1>13. Chain(g) = Chain(f) ++ g[n + 1]
  BY <1>0, <1>4, <1>5, <1>10, <1>11, Chained
<1>q. QED
  BY <1>0, <1>7, <1>12, <1>13

LEMMA HolesAre ==
  ASSUME NEW n \in Nat, NEW route, NEW i \in 1..n
  PROVE  /\ IsFiniteSet(Holes(route, n)) /\ IsFiniteSet(Holes(route, i))
         /\ Cardinality(Holes(route, n)) \in Nat
         /\ IsPlaceholder(route[i]) =>
              Cardinality(Holes(route, i)) \in 1..Cardinality(Holes(route, n))
<1>1. IsFiniteSet(1..n)
  BY FS_Interval
<1>2. Holes(route, i) \subseteq Holes(route, n) /\ Holes(route, n) \subseteq 1..n
  BY DEF Holes
<1>3. /\ IsFiniteSet(Holes(route, n)) /\ IsFiniteSet(Holes(route, i))
      /\ Cardinality(Holes(route, i)) <= Cardinality(Holes(route, n))
  BY <1>1, <1>2, FS_Subset
<1>4. Cardinality(Holes(route, n)) \in Nat /\ Cardinality(Holes(route, i)) \in Nat
  BY <1>3, FS_CardinalityType
<1>5. ASSUME IsPlaceholder(route[i])
      PROVE  Cardinality(Holes(route, i)) # 0
  <2>1. i \in Holes(route, i)
    BY <1>5 DEF Holes
  <2>q. QED
    BY <1>3, <2>1, FS_EmptySet
<1>q. QED
  BY <1>3, <1>4, <1>5

\* What stands for the pieces of a route stays when there is more behind it.
LEMMA FillingStays ==
  ASSUME NEW T, NEW n \in Nat, NEW route \in Seq(T), Len(route) = n, NEW piece \in T,
         NEW values, NEW more,
         \A k \in 1..Cardinality(Holes(route, n)) : more[k] = values[k],
         NEW i \in 1..n
  PROVE  Filling(route ## piece, more, i) = Filling(route, values, i)
<1>1. /\ i \in DOMAIN route /\ i \in DOMAIN (route ## piece)
      /\ \A j \in 1..i : (route ## piece)[j] = route[j]
  BY DEF ##
<1>2. (route ## piece)[i] = route[i]
  BY <1>1
<1>3. Holes(route ## piece, i) = Holes(route, i)
  BY <1>1 DEF Holes
<1>4. CASE ~IsPlaceholder(route[i])
  BY <1>1, <1>2, <1>4 DEF Filling
<1>5. CASE IsPlaceholder(route[i])
  <2>1. PICK k : k = Cardinality(Holes(route, i))
    OBVIOUS
  <2>2. more[k] = values[k]
    BY <1>5, <2>1, HolesAre
  <2>3. Filling(route, values, i) = <<route[i][1]>> \o values[k]
    BY <1>1, <1>5, <2>1 DEF Filling, Holes
  <2>4. Filling(route ## piece, more, i) = <<route[i][1]>> \o more[k]
    BY <1>1, <1>2, <1>3, <1>5, <2>1 DEF Filling, Holes
  <2>q. QED
    BY <2>2, <2>3, <2>4
<1>q. QED
  BY <1>4, <1>5

\* What a piece adds to a route: a place to fill, or none.
LEMMA OneMore ==
  ASSUME NEW T, NEW n \in Nat, NEW route \in Seq(T), Len(route) = n, NEW piece \in T
  PROVE  /\ Len(route ## piece) = n + 1 /\ route ## piece \in Seq(T)
         /\ n + 1 \in DOMAIN (route ## piece) /\ (route ## piece)[n + 1] = piece
         /\ Cardinality(Holes(route ## piece, n + 1)) =
              Cardinality(Holes(route, n)) + (IF IsPlaceholder(piece) THEN 1 ELSE 0)
<1>1. /\ Len(route ## piece) = n + 1 /\ route ## piece \in Seq(T)
      /\ n + 1 \in DOMAIN (route ## piece) /\ (route ## piece)[n + 1] = piece
      /\ \A j \in 1..n : (route ## piece)[j] = route[j]
  BY DEF ##
<1>2. IsFiniteSet(Holes(route, n)) /\ n + 1 \notin Holes(route, n)
  <2>1. IsFiniteSet(1..n) /\ Holes(route, n) \subseteq 1..n
    BY FS_Interval DEF Holes
  <2>q. QED
    BY <2>1, FS_Subset
<1>3. Cardinality(Holes(route, n)) \in Nat
  BY <1>2, FS_CardinalityType
<1>4. CASE IsPlaceholder(piece)
  <2>1. Holes(route ## piece, n + 1) = Holes(route, n) \cup {n + 1}
    BY <1>1, <1>4 DEF Holes
  <2>q. QED
    BY <1>1, <1>2, <1>4, <2>1, FS_AddElement
<1>5. CASE ~IsPlaceholder(piece)
  <2>1. Holes(route ## piece, n + 1) = Holes(route, n)
    BY <1>1, <1>5 DEF Holes
  <2>q. QED
    BY <1>1, <1>3, <1>5, <2>1
<1>q. QED
  BY <1>4, <1>5

LEMMA SpellsNothing == Spells(0, <<>>, <<>>, <<>>)
<1>1. <<>> \in Seq({}) /\ <<>> \in Seq(Token) /\ <<>> \in Seq(Seq(Token)) /\ Len(<<>>) = 0
  OBVIOUS
<1>2. Cardinality(Holes(<<>>, 0)) = 0
  <2>1. Holes(<<>>, 0) = {}
    BY DEF Holes
  <2>q. QED
    BY <2>1, FS_EmptySet
<1>3. Filled(<<>>, <<>>) = <<>>
  <2>1. PICK f : f = [i \in 1..8 |-> Filling(<<>>, <<>>, i)]
    OBVIOUS
  <2>2. \A i \in 1..8 : f[i] = <<>>
    BY <2>1 DEF Filling
  <2>3. <<>> ++ <<>> = <<>>
    BY <1>1, JoinedEmpty DEF ++
  <2>4. Chain(f) = <<>>
    BY <2>2, <2>3 DEF Chain
  <2>q. QED
    BY <2>1, <2>4, FilledIs
<1>q. QED
  BY <1>1, <1>2, <1>3 DEF Spells, IsSequence

\* A literal piece is spelt as it is.
LEMMA SpellsLiteral ==
  ASSUME NEW n \in 0..7, NEW route, NEW values, NEW p, Spells(n, route, values, p),
         NEW piece \in Seq(Token), ~IsPlaceholder(piece)
  PROVE  Spells(n + 1, route ## piece, values, p ++ piece)
<1>1. PICK T : route \in Seq(T) /\ piece \in T
  <2>1. PICK T0 : route \in Seq(T0)
    BY DEF Spells, IsSequence
  <2>q. QED
    BY <2>1, Wider, T0 \subseteq T0 \cup {piece}
<1>2. /\ Len(route) = n /\ values \in Seq(Seq(Token))
      /\ Len(values) = Cardinality(Holes(route, n))
      /\ \A i \in 1..n : Filling(route, values, i) \in Seq(Token)
      /\ p \in Seq(Token) /\ p = Filled(route, values)
  BY DEF Spells
<1>3. /\ Len(route ## piece) = n + 1 /\ route ## piece \in Seq(T)
      /\ n + 1 \in DOMAIN (route ## piece) /\ (route ## piece)[n + 1] = piece
      /\ Cardinality(Holes(route ## piece, n + 1)) = Cardinality(Holes(route, n)) + 0
  BY <1>1, <1>2, OneMore
<1>4. Filling(route ## piece, values, n + 1) = piece
  BY <1>3 DEF Filling
<1>5. \A i \in 1..n : Filling(route ## piece, values, i) = Filling(route, values, i)
  BY <1>1, <1>2, FillingStays
<1>6. Filled(route ## piece, values) = Filled(route, values) ++ piece
  <2>1. PICK j : j = n + 1
    OBVIOUS
  <2>2. Filling(route ## piece, values, j) \in Seq(Token)
    BY <1>4, <2>1
  <2>3. Filled(route ## piece, values) =
          Filled(route, values) ++ Filling(route ## piece, values, j)
    <3>1. Extends(T, n, j, route, piece, values, values)
      BY <1>1, <1>2, <1>5, <2>1, <2>2 DEF Extends
    <3>q. QED
      BY <3>1, FilledMore
  <2>q. QED
    BY <1>4, <2>1, <2>3
<1>7. \A i \in 1..(n + 1) : Filling(route ## piece, values, i) \in Seq(Token)
  BY <1>2, <1>4, <1>5
<1>8. p ++ piece \in Seq(Token)
  BY <1>2, Joined DEF ++
<1>9. Len(values) = Cardinality(Holes(route ## piece, n + 1))
  BY <1>2, <1>3
<1>q. QED
  BY <1>2, <1>3, <1>6, <1>7, <1>8, <1>9 DEF Spells, IsSequence

\* A placeholder is spelt as its separator and the next value.
LEMMA SpellsValue ==
  ASSUME NEW n \in 0..7, NEW route, NEW values, NEW p, Spells(n, route, values, p),
         NEW x \in Placeholder, NEW v \in Seq(Token), <<"/">> \in Seq(Token)
  PROVE  Spells(n + 1, route ## Lit(x), Append(values, v), p ++ (<<"/">> ++ v))
<1>1. PICK T : route \in Seq(T) /\ Lit(x) \in T
  <2>1. PICK T0 : route \in Seq(T0)
    BY DEF Spells, IsSequence
  <2>q. QED
    BY <2>1, Wider, T0 \subseteq T0 \cup {Lit(x)}
<1>2. /\ Len(route) = n /\ values \in Seq(Seq(Token))
      /\ Len(values) = Cardinality(Holes(route, n))
      /\ \A i \in 1..n : Filling(route, values, i) \in Seq(Token)
      /\ p \in Seq(Token) /\ p = Filled(route, values)
  BY DEF Spells
<1>3. PICK more : more = Append(values, v)
  OBVIOUS
<1>4. PICK k : k = Len(values) + 1 /\ k \in Nat
  BY <1>2
<1>5. /\ more \in Seq(Seq(Token)) /\ Len(more) = k /\ more[k] = v
      /\ \A i \in 1..Cardinality(Holes(route, n)) : more[i] = values[i]
  BY <1>2, <1>3, <1>4
<1>6. IsPlaceholder(Lit(x)) /\ Lit(x)[1] = "/"
  BY DEF IsPlaceholder, Lit
<1>7. /\ Len(route ## Lit(x)) = n + 1 /\ route ## Lit(x) \in Seq(T)
      /\ n + 1 \in DOMAIN (route ## Lit(x)) /\ (route ## Lit(x))[n + 1] = Lit(x)
      /\ Cardinality(Holes(route ## Lit(x), n + 1)) = Cardinality(Holes(route, n)) + 1
  BY <1>1, <1>2, <1>6, OneMore
<1>8. Filling(route ## Lit(x), more, n + 1) = <<"/">> ++ v
  <2>1. Cardinality(Holes(route ## Lit(x), n + 1)) = k
    BY <1>2, <1>4, <1>7
  <2>2. Filling(route ## Lit(x), more, n + 1) =
          <<Lit(x)[1]>> \o more[Cardinality(Holes(route ## Lit(x), n + 1))]
    BY <1>6, <1>7 DEF Filling, Holes
  <2>q. QED
    BY <1>5, <1>6, <2>1, <2>2 DEF ++
<1>9. ASSUME NEW i \in 1..n
      PROVE  Filling(route ## Lit(x), more, i) = Filling(route, values, i)
  <2>1. n \in Nat /\ \A j \in 1..Cardinality(Holes(route, n)) : more[j] = values[j]
    BY <1>5
  <2>2. PICK piece : piece = Lit(x)
    OBVIOUS
  <2>3. route \in Seq(T) /\ Len(route) = n /\ piece \in T
    BY <1>1, <1>2, <2>2
  <2>4. Filling(route ## piece, more, i) = Filling(route, values, i)
    <3>1. n \in Nat /\ i \in 1..n
      BY <2>1
    <3>q. QED
      BY <2>1, <2>3, <3>1, FillingStays
  <2>q. QED
    BY <2>2, <2>4
<1>10. <<"/">> ++ v \in Seq(Token)
  BY Joined DEF ++
<1>11. Filled(route ## Lit(x), more) = Filled(route, values) ++ (<<"/">> ++ v)
  <2>1. PICK j : j = n + 1
    OBVIOUS
  <2>2. Filling(route ## Lit(x), more, j) \in Seq(Token)
    BY <1>8, <1>10, <2>1
  <2>3. Filled(route ## Lit(x), more) =
          Filled(route, values) ++ Filling(route ## Lit(x), more, j)
    <3>1. Extends(T, n, j, route, Lit(x), values, more)
      BY <1>1, <1>2, <1>9, <2>1, <2>2 DEF Extends
    <3>q. QED
      BY <3>1, FilledMore
  <2>q. QED
    BY <1>8, <2>1, <2>3
<1>12. \A i \in 1..(n + 1) : Filling(route ## Lit(x), more, i) \in Seq(Token)
  BY <1>2, <1>8, <1>9, <1>10
<1>13. p ++ (<<"/">> ++ v) \in Seq(Token)
  BY <1>2, <1>10, Joined DEF ++
<1>14. Len(more) = Cardinality(Holes(route ## Lit(x), n + 1))
  BY <1>2, <1>4, <1>5, <1>7
<1>q. QED
  BY <1>2, <1>3, <1>5, <1>7, <1>11, <1>12, <1>13, <1>14 DEF Spells, IsSequence

-----------------------------------------------------------------------------
(* Where the trie stands: it has read a route with its values off the path, *)
(* and elem is what is left.                                               *)

At(n, route, values, path, elem) ==
  \E p : Spells(n, route, values, p) /\ path = p ++ elem /\ elem \in Seq(Token)

LEMMA Associates ==
  \A s, t, u \in Seq(Token) : s ++ t \in Seq(Token) /\ (s ++ t) ++ u = s ++ (t ++ u)
BY Joined, JoinedTwice DEF ++

\* At the root.
LEMMA AtRoot ==
  ASSUME NEW path \in Seq(Token)
  PROVE  At(0, <<>>, <<>>, path, path)
<1>1. <<>> ++ path = path
  BY JoinedEmpty DEF ++
<1>q. QED
  BY <1>1, SpellsNothing DEF At

\* Behind a literal.
LEMMA AtLiteral ==
  ASSUME NEW n \in 0..7, NEW k, k = n + 1, NEW route, NEW values, NEW path, NEW elem,
         At(n, route, values, path, elem), NEW sep, NEW word, word \notin Placeholder,
         StartsWith(elem, <<sep, word>>)
  PROVE  At(k, route ## <<sep, word>>, values, path, After(elem, 2))
<1>1. PICK p : Spells(n, route, values, p) /\ path = p ++ elem /\ elem \in Seq(Token)
  BY DEF At
<1>2. PICK piece : piece = <<sep, word>>
  OBVIOUS
<1>3. IsSequence(piece)
  <2>1. piece \in Seq({sep, word})
    BY <1>2
  <2>q. QED
    BY <2>1 DEF IsSequence
<1>8. Len(piece) = 2 /\ ~IsPlaceholder(piece)
  BY <1>2 DEF IsPlaceholder
<1>4. /\ piece \in Seq(Token) /\ After(elem, 2) \in Seq(Token)
      /\ elem = piece ++ After(elem, 2)
  <2>1. PICK j : j = Len(piece)
    OBVIOUS
  <2>2. StartsWith(elem, piece) /\ j = 2
    BY <1>2, <1>8, <2>1
  <2>3. /\ piece \in Seq(Token) /\ After(elem, j) \in Seq(Token)
        /\ elem = piece ++ After(elem, j)
    BY <1>1, <1>3, <2>1, <2>2, LiteralCut
  <2>q. QED
    BY <2>2, <2>3
<1>5. Spells(n + 1, route ## piece, values, p ++ piece)
  BY <1>1, <1>4, <1>8, SpellsLiteral
<1>6. p \in Seq(Token)
  BY <1>1 DEF Spells
<1>7. path = (p ++ piece) ++ After(elem, 2)
  BY <1>1, <1>4, <1>6, Associates
<1>q. QED
  BY <1>2, <1>4, <1>5, <1>7 DEF At

\* The path ends with a literal.
LEMMA AtLastLiteral ==
  ASSUME NEW n \in 0..7, NEW k, k = n + 1, NEW route, NEW values, NEW path,
         NEW sep, NEW word, word \notin Placeholder,
         At(n, route, values, path, <<sep, word>>)
  PROVE  At(k, route ## <<sep, word>>, values, path, <<>>)
<1>1. StartsWith(<<sep, word>>, <<sep, word>>) /\ After(<<sep, word>>, 2) = <<>>
  BY DEF StartsWith, IsPrefix, After
<1>q. QED
  BY <1>1, AtLiteral

LEMMA AtLastLiterals ==
  ASSUME NEW n \in 0..6, NEW k, k = n + 2, NEW route, NEW values, NEW path,
         NEW sep, NEW word, word \notin Placeholder,
         NEW sep2, NEW word2, word2 \notin Placeholder,
         At(n, route, values, path, <<sep, word, sep2, word2>>)
  PROVE  At(k, route ## <<sep, word>> ## <<sep2, word2>>, values, path, <<>>)
<1>1. StartsWith(<<sep, word, sep2, word2>>, <<sep, word>>)
  BY DEF StartsWith, IsPrefix
<1>2. After(<<sep, word, sep2, word2>>, 2) = <<sep2, word2>>
  <2>1. PICK S : <<sep, word, sep2, word2>> \in Seq(S) /\ <<sep2, word2>> \in Seq(S)
    <3>1. /\ <<sep, word, sep2, word2>> \in Seq({sep, word, sep2, word2})
          /\ <<sep2, word2>> \in Seq({sep, word, sep2, word2})
      OBVIOUS
    <3>q. QED
      BY <3>1
  <2>2. PICK s : s = <<sep, word, sep2, word2>>
    OBVIOUS
  <2>3. s \in Seq(S) /\ Len(s) = 4 /\ s[3] = sep2 /\ s[4] = word2
    BY <2>1, <2>2
  <2>4. After(s, 2) = SubSeq(s, 3, 4)
    BY <2>3 DEF After
  <2>5. SubSeq(s, 3, 4) \in Seq(S) /\ Len(SubSeq(s, 3, 4)) = 2
    BY <2>3
  <2>6. SubSeq(s, 3, 4)[1] = sep2
    BY <2>3
  <2>7. SubSeq(s, 3, 4)[2] = word2
    BY <2>3
  <2>q. QED
    BY <2>1, <2>2, <2>4, <2>5, <2>6, <2>7
<1>3. PICK j : j = n + 1 /\ j \in 0..7 /\ k = j + 1
  OBVIOUS
<1>4. At(j, route ## <<sep, word>>, values, path, <<sep2, word2>>)
  BY <1>1, <1>2, <1>3, AtLiteral
<1>q. QED
  BY <1>3, <1>4, AtLastLiteral

\* "/" and what is behind it.
LEMMA SlashCut ==
  ASSUME NEW elem \in Seq(Token), StartsWith(elem, <<"/">>)
  PROVE  /\ <<"/">> \in Seq(Token) /\ Tail(elem) \in Seq(Token)
         /\ elem = <<"/">> ++ Tail(elem)
<1>1. PICK piece : piece = <<"/">>
  OBVIOUS
<1>2. IsSequence(piece)
  <2>1. piece \in Seq({"/"})
    BY <1>1
  <2>q. QED
    BY <2>1 DEF IsSequence
<1>3. /\ piece \in Seq(Token) /\ After(elem, 1) \in Seq(Token)
      /\ elem = piece ++ After(elem, 1)
  <2>1. PICK j : j = Len(piece)
    OBVIOUS
  <2>2. StartsWith(elem, piece) /\ j = 1
    BY <1>1, <2>1
  <2>3. /\ piece \in Seq(Token) /\ After(elem, j) \in Seq(Token)
        /\ elem = piece ++ After(elem, j)
    BY <1>2, <2>1, <2>2, LiteralCut
  <2>q. QED
    BY <2>2, <2>3
<1>4. After(elem, 1) = Tail(elem)
  <2>1. elem # <<>>
    BY DEF StartsWith, IsPrefix
  <2>q. QED
    BY <2>1 DEF After
<1>q. QED
  BY <1>1, <1>3, <1>4

\* Behind a parameter, which ends where it is cut off.
LEMMA AtParameter ==
  ASSUME NEW n \in 0..7, NEW k, k = n + 1, NEW route, NEW values, NEW path, NEW elem,
         At(n, route, values, path, elem), StartsWith(elem, <<"/">>),
         NEW x \in Placeholder, NEW v, NEW rest, v \in Seq(Token), rest \in Seq(Token),
         Tail(elem) = v ++ rest
  PROVE  At(k, route ## Lit(x), Append(values, v), path, rest)
<1>1. PICK p : Spells(n, route, values, p) /\ path = p ++ elem /\ elem \in Seq(Token)
  BY DEF At
<1>2. PICK piece : piece = <<"/">>
  OBVIOUS
<1>3. piece \in Seq(Token) /\ elem = piece ++ (v ++ rest)
  BY <1>1, <1>2, SlashCut
<1>4. Spells(n + 1, route ## Lit(x), Append(values, v), p ++ (piece ++ v))
  BY <1>1, <1>2, <1>3, SpellsValue
<1>5. p \in Seq(Token)
  BY <1>1 DEF Spells
<1>6. path = (p ++ (piece ++ v)) ++ rest
  BY <1>1, <1>3, <1>5, Associates
<1>q. QED
  BY <1>4, <1>6 DEF At

LEMMA AtCut ==
  ASSUME NEW n \in 0..7, NEW k, k = n + 1, NEW route, NEW values, NEW path, NEW elem,
         At(n, route, values, path, elem), StartsWith(elem, <<"/">>),
         NEW x \in Placeholder, NEW stops
  PROVE  At(k, route ## Lit(x), Append(values, Cut(Tail(elem), stops).value), path,
            Cut(Tail(elem), stops).rest)
<1>1. Tail(elem) \in Seq(Token)
  BY SlashCut DEF At
<1>2. PICK v, rest : v = Cut(Tail(elem), stops).value /\ rest = Cut(Tail(elem), stops).rest
  OBVIOUS
<1>3. v \in Seq(Token) /\ rest \in Seq(Token) /\ Tail(elem) = v ++ rest
  BY <1>1, <1>2, ParameterCut
<1>q. QED
  BY <1>2, <1>3, AtParameter

\* A parameter that takes the rest of the path.
LEMMA AtLastParameter ==
  ASSUME NEW n \in 0..7, NEW k, k = n + 1, NEW route, NEW values, NEW path, NEW elem,
         At(n, route, values, path, elem), StartsWith(elem, <<"/">>), NEW x \in Placeholder
  PROVE  At(k, route ## Lit(x), Append(values, Tail(elem)), path, <<>>)
<1>1. Tail(elem) \in Seq(Token) /\ <<>> \in Seq(Token)
  BY SlashCut DEF At
<1>2. Tail(elem) = Tail(elem) ++ <<>>
  BY <1>1, JoinedEmpty DEF ++
<1>q. QED
  BY <1>1, <1>2, AtParameter

\* Nothing is left.
LEMMA AtEnd ==
  ASSUME NEW n, NEW route, NEW values, NEW path, At(n, route, values, path, <<>>)
  PROVE  Spells(n, route, values, path)
<1>1. PICK p : Spells(n, route, values, p) /\ path = p ++ <<>>
  BY DEF At
<1>2. p \in Seq(Token)
  BY <1>1 DEF Spells
<1>3. path = p
  BY <1>1, <1>2, JoinedEmpty DEF ++
<1>q. QED
  BY <1>1, <1>3

-----------------------------------------------------------------------------
(* The routes of the operations, written piece by piece.                   *)

LEMMA AppendedIs ==
  ASSUME NEW s, IsSequence(s), NEW a
  PROVE  IsSequence(s ## a)
<1>1. PICK S : s \in Seq(S)
  BY DEF IsSequence
<1>2. PICK T : S \subseteq T /\ a \in T
  <2>1. S \subseteq S \cup {a} /\ a \in S \cup {a}
    OBVIOUS
  <2>q. QED
    BY <2>1
<1>3. s \in Seq(T)
  BY <1>1, <1>2, Wider
<1>4. Append(s, a) \in Seq(T)
  BY <1>2, <1>3
<1>q. QED
  BY <1>4 DEF IsSequence, ##

LEMMA AppendedAfter ==
  ASSUME NEW s, IsSequence(s), NEW t, IsSequence(t), NEW a
  PROVE  s ++ (t ## a) = (s ++ t) ## a
<1>1. PICK T : s \in Seq(T) /\ t \in Seq(T) /\ a \in T
  <2>1. PICK T1, T2 : s \in Seq(T1) /\ t \in Seq(T2)
    BY DEF IsSequence
  <2>2. PICK T : T = T1 \cup T2 \cup {a}
    OBVIOUS
  <2>3. T1 \subseteq T /\ T2 \subseteq T /\ a \in T
    BY <2>2
  <2>4. s \in Seq(T)
    BY <2>1, <2>3, Wider
  <2>5. t \in Seq(T)
    BY <2>1, <2>3, Wider
  <2>q. QED
    BY <2>3, <2>4, <2>5
<1>2. s \o Append(t, a) = Append(s \o t, a)
  BY <1>1
<1>q. QED
  BY <1>2 DEF ##, ++

LEMMA AppendedLast ==
  ASSUME NEW s, IsSequence(s), NEW a
  PROVE  s ++ <<a>> = s ## a
<1>1. PICK S : s \in Seq(S)
  BY DEF IsSequence
<1>2. PICK T : S \subseteq T /\ a \in T
  <2>1. S \subseteq S \cup {a} /\ a \in S \cup {a}
    OBVIOUS
  <2>q. QED
    BY <2>1
<1>3. s \in Seq(T)
  BY <1>1, <1>2, Wider
<1>4. s \o <<a>> = Append(s, a)
  BY <1>2, <1>3
<1>q. QED
  BY <1>4 DEF ##, ++

LEMMA Listed ==
  ASSUME NEW S, NEW n \in Nat, NEW s \in [1..n -> S]
  PROVE  s \in Seq(S) /\ Len(s) = n
OBVIOUS

\* RouteOf joins words with their separators.
Separated(sep, words) == [i \in DOMAIN words |-> <<sep, words[i]>>]

LEMMA SeparatedNothing ==
  ASSUME NEW sep
  PROVE  Separated(sep, <<>>) = <<>> /\ IsSequence(<<>>)
<1>1. <<>> \in Seq({})
  OBVIOUS
<1>q. QED
  BY <1>1 DEF Separated, IsSequence

LEMMA SeparatedMore ==
  ASSUME NEW sep, NEW words, IsSequence(words), NEW a
  PROVE  /\ IsSequence(Separated(sep, words))
         /\ Separated(sep, words ## a) = Separated(sep, words) ## <<sep, a>>
<1>1. PICK n : n = Len(words)
  OBVIOUS
<1>2. DOMAIN words = 1..n /\ n \in Nat
  BY <1>1 DEF IsSequence
<1>3. PICK T : T = {<<sep, words[i]>> : i \in 1..n}
  OBVIOUS
<1>4. PICK pieces : pieces = Separated(sep, words)
  OBVIOUS
<1>5. pieces \in [1..n -> T] /\ \A i \in 1..n : pieces[i] = <<sep, words[i]>>
  BY <1>2, <1>3, <1>4 DEF Separated
<1>6. pieces \in Seq(T) /\ Len(pieces) = n
  BY <1>2, <1>5
<1>7. PICK more : more = Append(words, a)
  OBVIOUS
<1>8. /\ DOMAIN more = 1..(n + 1) /\ more[n + 1] = a
      /\ \A i \in 1..n : more[i] = words[i]
  BY <1>1, <1>7 DEF IsSequence
<1>9. PICK U : T \subseteq U /\ <<sep, a>> \in U
  <2>1. T \subseteq T \cup {<<sep, a>>} /\ <<sep, a>> \in T \cup {<<sep, a>>}
    OBVIOUS
  <2>q. QED
    BY <2>1
<1>10. PICK result : result = Separated(sep, more)
  OBVIOUS
<1>11. /\ DOMAIN result = 1..(n + 1) /\ result[n + 1] = <<sep, a>>
       /\ \A i \in 1..n : result[i] = pieces[i]
       /\ result = [i \in 1..(n + 1) |-> result[i]]
  <2>1. result = [i \in 1..(n + 1) |-> <<sep, more[i]>>]
    BY <1>8, <1>10 DEF Separated
  <2>2. DOMAIN result = 1..(n + 1) /\ result = [i \in 1..(n + 1) |-> result[i]]
    BY <2>1
  <2>3. result[n + 1] = <<sep, a>>
    BY <1>2, <1>8, <2>1
  <2>4. \A i \in 1..n : result[i] = pieces[i]
    <3>1. ASSUME NEW i \in 1..n
          PROVE  result[i] = pieces[i]
      <4>1. i \in 1..(n + 1)
        BY <1>2
      <4>2. result[i] = <<sep, more[i]>>
        BY <2>1, <4>1
      <4>q. QED
        BY <1>5, <1>8, <4>2
    <3>q. QED
      BY <3>1
  <2>q. QED
    BY <2>2, <2>3, <2>4
<1>12. PICK piece : piece = <<sep, a>>
  OBVIOUS
<1>13. result = Append(pieces, piece)
  <2>1. pieces \in Seq(U) /\ piece \in U
    BY <1>6, <1>9, <1>12, Wider
  <2>2. /\ Append(pieces, piece) \in Seq(U) /\ Len(Append(pieces, piece)) = n + 1
        /\ Append(pieces, piece)[n + 1] = piece
        /\ \A i \in 1..n : Append(pieces, piece)[i] = pieces[i]
    BY <1>2, <1>6, <2>1
  <2>3. PICK both : both = Append(pieces, piece)
    OBVIOUS
  <2>4. PICK m : m = n + 1 /\ m \in Nat
    BY <1>2
  <2>a. both \in Seq(U) /\ Len(both) = m
    BY <2>2, <2>3, <2>4
  <2>b. ASSUME NEW i \in 1..m
        PROVE  result[i] = both[i]
    <3>1. CASE i = m
      BY <1>11, <1>12, <2>2, <2>3, <2>4, <3>1
    <3>2. CASE i # m
      <4>1. i \in 1..n
        BY <1>2, <2>4, <3>2
      <4>q. QED
        BY <1>11, <2>2, <2>3, <4>1
    <3>q. QED
      BY <3>1, <3>2
  <2>5. \A i \in 1..m : result[i] = both[i] /\ both[i] \in U
    BY <2>a, <2>b
  <2>6. result \in [1..m -> U]
    BY <1>11, <2>4, <2>5
  <2>7. result \in Seq(U) /\ Len(result) = m
    BY <2>4, <2>6, Listed
  <2>q. QED
    BY <2>2, <2>3, <2>4, <2>5, <2>7, Equal
<1>q. QED
  BY <1>4, <1>6, <1>7, <1>10, <1>12, <1>13 DEF IsSequence, ##

LEMMA RouteOfNothing == RouteOf(<<>>, <<>>) = <<>>
<1>1. RouteOf(<<>>, <<>>) = Separated("/", <<>>) \o Separated(":", <<>>)
  BY DEF RouteOf, Separated
<1>2. <<>> \in Seq({})
  OBVIOUS
<1>q. QED
  BY <1>1, <1>2, SeparatedNothing, JoinedEmpty

LEMMA RouteOfSegment ==
  ASSUME NEW s, IsSequence(s), NEW a
  PROVE  IsSequence(s ## a) /\ RouteOf(s ## a, <<>>) = RouteOf(s, <<>>) ## Lit(a)
<1>1. \A t : RouteOf(t, <<>>) = Separated("/", t) \o <<>>
  <2>1. \A t : RouteOf(t, <<>>) = Separated("/", t) \o Separated(":", <<>>)
    BY DEF RouteOf, Separated
  <2>q. QED
    BY <2>1, SeparatedNothing
<1>2. IsSequence(s ## a)
  BY AppendedIs
<1>3. PICK u, v : u = Separated("/", s) /\ v = Separated("/", s ## a)
  OBVIOUS
<1>4. IsSequence(u) /\ IsSequence(v) /\ v = u ## Lit(a)
  BY <1>2, <1>3, SeparatedMore DEF Lit
<1>5. u \o <<>> = u /\ v \o <<>> = v
  BY <1>4, JoinedEmpty DEF IsSequence
<1>q. QED
  BY <1>1, <1>2, <1>3, <1>4, <1>5

LEMMA RouteOfVerb ==
  ASSUME NEW s, IsSequence(s), NEW verbs, IsSequence(verbs), NEW w
  PROVE  RouteOf(s, verbs ## w) = RouteOf(s, verbs) ## Verb(w)
<1>1. \A t : RouteOf(s, t) = Separated("/", s) ++ Separated(":", t)
  BY DEF RouteOf, Separated, ++
<1>2. PICK u, v, x : /\ u = Separated("/", s) /\ v = Separated(":", verbs)
                     /\ x = Separated(":", verbs ## w)
  OBVIOUS
<1>3. IsSequence(u) /\ IsSequence(v) /\ x = v ## Verb(w)
  BY <1>2, SeparatedMore DEF Verb
<1>4. PICK y : y = Verb(w)
  OBVIOUS
<1>5. u ++ (v ## y) = (u ++ v) ## y
  BY <1>3, AppendedAfter
<1>q. QED
  BY <1>1, <1>2, <1>3, <1>4, <1>5

\* Tuples, element by element.
LEMMA Tuples ==
  /\ IsSequence(<<>>)
  /\ \A a : <<a>> = <<>> ## a /\ IsSequence(<<a>>)
  /\ \A a, b : <<a, b>> = <<a>> ## b /\ IsSequence(<<a, b>>)
  /\ \A a, b, c : <<a, b, c>> = <<a, b>> ## c /\ IsSequence(<<a, b, c>>)
  /\ \A a, b, c, d : <<a, b, c, d>> = <<a, b, c>> ## d /\ IsSequence(<<a, b, c, d>>)
  /\ \A a, b, c, d, e : <<a, b, c, d, e>> = <<a, b, c, d>> ## e /\ IsSequence(<<a, b, c, d, e>>)
<1>1. IsSequence(<<>>)
  BY SeparatedNothing
<1>2. ASSUME NEW a
      PROVE  <<a>> = <<>> ## a /\ IsSequence(<<a>>)
  <2>1. <<a>> = Append(<<>>, a)
    OBVIOUS
  <2>2. <<a>> \in Seq({a})
    OBVIOUS
  <2>q. QED
    BY <2>1, <2>2 DEF ##, IsSequence
<1>3. ASSUME NEW a, NEW b
      PROVE  <<a, b>> = <<a>> ## b /\ IsSequence(<<a, b>>)
  <2>1. <<a, b>> = Append(<<a>>, b)
    OBVIOUS
  <2>2. <<a, b>> \in Seq({a, b})
    OBVIOUS
  <2>q. QED
    BY <2>1, <2>2 DEF ##, IsSequence
<1>4. ASSUME NEW a, NEW b, NEW c
      PROVE  <<a, b, c>> = <<a, b>> ## c /\ IsSequence(<<a, b, c>>)
  <2>1. <<a, b, c>> = Append(<<a, b>>, c)
    OBVIOUS
  <2>2. <<a, b, c>> \in Seq({a, b, c})
    OBVIOUS
  <2>q. QED
    BY <2>1, <2>2 DEF ##, IsSequence
<1>5. ASSUME NEW a, NEW b, NEW c, NEW d
      PROVE  <<a, b, c, d>> = <<a, b, c>> ## d /\ IsSequence(<<a, b, c, d>>)
  <2>1. <<a, b, c, d>> = Append(<<a, b, c>>, d)
    OBVIOUS
  <2>2. <<a, b, c, d>> \in Seq({a, b, c, d})
    OBVIOUS
  <2>q. QED
    BY <2>1, <2>2 DEF ##, IsSequence
<1>6. ASSUME NEW a, NEW b, NEW c, NEW d, NEW e
      PROVE  <<a, b, c, d, e>> = <<a, b, c, d>> ## e /\ IsSequence(<<a, b, c, d, e>>)
  <2>1. <<a, b, c, d, e>> = Append(<<a, b, c, d>>, e)
    OBVIOUS
  <2>2. <<a, b, c, d, e>> \in Seq({a, b, c, d, e})
    OBVIOUS
  <2>q. QED
    BY <2>1, <2>2 DEF ##, IsSequence
<1>q. QED
  BY <1>1, <1>2, <1>3, <1>4, <1>5, <1>6

\* The routes that have no verb.
LEMMA PlainRoutes ==
  /\ \A a : RouteOf(<<a>>, <<>>) =
       <<>> ## Lit(a)
  /\ \A a, b : RouteOf(<<a, b>>, <<>>) =
       <<>> ## Lit(a) ## Lit(b)
  /\ \A a, b, c : RouteOf(<<a, b, c>>, <<>>) =
       <<>> ## Lit(a) ## Lit(b) ## Lit(c)
  /\ \A a, b, c, d : RouteOf(<<a, b, c, d>>, <<>>) =
       <<>> ## Lit(a) ## Lit(b) ## Lit(c) ## Lit(d)
  /\ \A a, b, c, d, e : RouteOf(<<a, b, c, d, e>>, <<>>) =
       <<>> ## Lit(a) ## Lit(b) ## Lit(c) ## Lit(d) ## Lit(e)
<1>1. ASSUME NEW a
      PROVE  RouteOf(<<a>>, <<>>) = <<>> ## Lit(a)
  <2>1. PICK s : s = <<>>
    OBVIOUS
  <2>2. <<a>> = s ## a /\ IsSequence(s)
    BY <2>1, Tuples
  <2>3. RouteOf(s ## a, <<>>) = RouteOf(s, <<>>) ## Lit(a)
    BY <2>2, RouteOfSegment
  <2>q. QED
    BY RouteOfNothing, <2>1, <2>2, <2>3
<1>2. ASSUME NEW a, NEW b
      PROVE  RouteOf(<<a, b>>, <<>>) = <<>> ## Lit(a) ## Lit(b)
  <2>1. PICK s : s = <<a>>
    OBVIOUS
  <2>2. <<a, b>> = s ## b /\ IsSequence(s)
    BY <2>1, Tuples
  <2>3. RouteOf(s ## b, <<>>) = RouteOf(s, <<>>) ## Lit(b)
    BY <2>2, RouteOfSegment
  <2>q. QED
    BY <1>1, <2>1, <2>2, <2>3
<1>3. ASSUME NEW a, NEW b, NEW c
      PROVE  RouteOf(<<a, b, c>>, <<>>) = <<>> ## Lit(a) ## Lit(b) ## Lit(c)
  <2>1. PICK s : s = <<a, b>>
    OBVIOUS
  <2>2. <<a, b, c>> = s ## c /\ IsSequence(s)
    BY <2>1, Tuples
  <2>3. RouteOf(s ## c, <<>>) = RouteOf(s, <<>>) ## Lit(c)
    BY <2>2, RouteOfSegment
  <2>q. QED
    BY <1>2, <2>1, <2>2, <2>3
<1>4. ASSUME NEW a, NEW b, NEW c, NEW d
      PROVE  RouteOf(<<a, b, c, d>>, <<>>) = <<>> ## Lit(a) ## Lit(b) ## Lit(c) ## Lit(d)
  <2>1. PICK s : s = <<a, b, c>>
    OBVIOUS
  <2>2. <<a, b, c, d>> = s ## d /\ IsSequence(s)
    BY <2>1, Tuples
  <2>3. RouteOf(s ## d, <<>>) = RouteOf(s, <<>>) ## Lit(d)
    BY <2>2, RouteOfSegment
  <2>q. QED
    BY <1>3, <2>1, <2>2, <2>3
<1>5. ASSUME NEW a, NEW b, NEW c, NEW d, NEW e
      PROVE  RouteOf(<<a, b, c, d, e>>, <<>>) = <<>> ## Lit(a) ## Lit(b) ## Lit(c) ## Lit(d) ## Lit(e)
  <2>1. PICK s : s = <<a, b, c, d>>
    OBVIOUS
  <2>2. <<a, b, c, d, e>> = s ## e /\ IsSequence(s)
    BY <2>1, Tuples
  <2>3. RouteOf(s ## e, <<>>) = RouteOf(s, <<>>) ## Lit(e)
    BY <2>2, RouteOfSegment
  <2>q. QED
    BY <1>4, <2>1, <2>2, <2>3
<1>q. QED
  BY <1>1, <1>2, <1>3, <1>4, <1>5

LEMMA VerbRoutes ==
  ASSUME NEW s, IsSequence(s), NEW v, NEW w
  PROVE  /\ RouteOf(s, <<v>>) = RouteOf(s, <<>>) ## Verb(v)
         /\ RouteOf(s, <<v, w>>) = RouteOf(s, <<>>) ## Verb(v) ## Verb(w)
<1>1. /\ <<v>> = <<>> ## v /\ <<v, w>> = <<v>> ## w
      /\ IsSequence(<<>>) /\ IsSequence(<<v>>)
  BY Tuples
<1>2. RouteOf(s, <<>> ## v) = RouteOf(s, <<>>) ## Verb(v)
  BY <1>1, RouteOfVerb
<1>3. RouteOf(s, <<v>> ## w) = RouteOf(s, <<v>>) ## Verb(w)
  BY <1>1, RouteOfVerb
<1>q. QED
  BY <1>1, <1>2, <1>3

\* The shapes that the routes have.
LEMMA Routes ==
  /\ \A a : RouteOf(<<a>>, <<>>) =
       <<>> ## Lit(a)
  /\ \A a, b : RouteOf(<<a, b>>, <<>>) =
       <<>> ## Lit(a) ## Lit(b)
  /\ \A a, b, v : RouteOf(<<a, b>>, <<v>>) =
       <<>> ## Lit(a) ## Lit(b) ## Verb(v)
  /\ \A a, b, v, w : RouteOf(<<a, b>>, <<v, w>>) =
       <<>> ## Lit(a) ## Lit(b) ## Verb(v) ## Verb(w)
  /\ \A a, b, c : RouteOf(<<a, b, c>>, <<>>) =
       <<>> ## Lit(a) ## Lit(b) ## Lit(c)
  /\ \A a, b, c, v : RouteOf(<<a, b, c>>, <<v>>) =
       <<>> ## Lit(a) ## Lit(b) ## Lit(c) ## Verb(v)
  /\ \A a, b, c, v, w : RouteOf(<<a, b, c>>, <<v, w>>) =
       <<>> ## Lit(a) ## Lit(b) ## Lit(c) ## Verb(v) ## Verb(w)
  /\ \A a, b, c, d : RouteOf(<<a, b, c, d>>, <<>>) =
       <<>> ## Lit(a) ## Lit(b) ## Lit(c) ## Lit(d)
  /\ \A a, b, c, d, v : RouteOf(<<a, b, c, d>>, <<v>>) =
       <<>> ## Lit(a) ## Lit(b) ## Lit(c) ## Lit(d) ## Verb(v)
  /\ \A a, b, c, d, e : RouteOf(<<a, b, c, d, e>>, <<>>) =
       <<>> ## Lit(a) ## Lit(b) ## Lit(c) ## Lit(d) ## Lit(e)
  /\ \A a, b, c, d, e, v : RouteOf(<<a, b, c, d, e>>, <<v>>) =
       <<>> ## Lit(a) ## Lit(b) ## Lit(c) ## Lit(d) ## Lit(e) ## Verb(v)
<1>1. ASSUME NEW a, NEW b, NEW v
      PROVE  RouteOf(<<a, b>>, <<v>>) =
               <<>> ## Lit(a) ## Lit(b) ## Verb(v)
  <2>1. PICK s : s = <<a, b>>
    OBVIOUS
  <2>2. IsSequence(s) /\ RouteOf(s, <<>>) = <<>> ## Lit(a) ## Lit(b)
    BY <2>1, Tuples, PlainRoutes
  <2>3. RouteOf(s, <<v>>) = RouteOf(s, <<>>) ## Verb(v)
    BY <2>2, VerbRoutes
  <2>q. QED
    BY <2>1, <2>2, <2>3
<1>2. ASSUME NEW a, NEW b, NEW v, NEW w
      PROVE  RouteOf(<<a, b>>, <<v, w>>) =
               <<>> ## Lit(a) ## Lit(b) ## Verb(v) ## Verb(w)
  <2>1. PICK s : s = <<a, b>>
    OBVIOUS
  <2>2. IsSequence(s) /\ RouteOf(s, <<>>) = <<>> ## Lit(a) ## Lit(b)
    BY <2>1, Tuples, PlainRoutes
  <2>3. RouteOf(s, <<v, w>>) = RouteOf(s, <<>>) ## Verb(v) ## Verb(w)
    BY <2>2, VerbRoutes
  <2>q. QED
    BY <2>1, <2>2, <2>3
<1>3. ASSUME NEW a, NEW b, NEW c, NEW v
      PROVE  RouteOf(<<a, b, c>>, <<v>>) =
               <<>> ## Lit(a) ## Lit(b) ## Lit(c) ## Verb(v)
  <2>1. PICK s : s = <<a, b, c>>
    OBVIOUS
  <2>2. IsSequence(s) /\ RouteOf(s, <<>>) = <<>> ## Lit(a) ## Lit(b) ## Lit(c)
    BY <2>1, Tuples, PlainRoutes
  <2>3. RouteOf(s, <<v>>) = RouteOf(s, <<>>) ## Verb(v)
    BY <2>2, VerbRoutes
  <2>q. QED
    BY <2>1, <2>2, <2>3
<1>4. ASSUME NEW a, NEW b, NEW c, NEW v, NEW w
      PROVE  RouteOf(<<a, b, c>>, <<v, w>>) =
               <<>> ## Lit(a) ## Lit(b) ## Lit(c) ## Verb(v) ## Verb(w)
  <2>1. PICK s : s = <<a, b, c>>
    OBVIOUS
  <2>2. IsSequence(s) /\ RouteOf(s, <<>>) = <<>> ## Lit(a) ## Lit(b) ## Lit(c)
    BY <2>1, Tuples, PlainRoutes
  <2>3. RouteOf(s, <<v, w>>) = RouteOf(s, <<>>) ## Verb(v) ## Verb(w)
    BY <2>2, VerbRoutes
  <2>q. QED
    BY <2>1, <2>2, <2>3
<1>5. ASSUME NEW a, NEW b, NEW c, NEW d, NEW v
      PROVE  RouteOf(<<a, b, c, d>>, <<v>>) =
               <<>> ## Lit(a) ## Lit(b) ## Lit(c) ## Lit(d) ## Verb(v)
  <2>1. PICK s : s = <<a, b, c, d>>
    OBVIOUS
  <2>2. IsSequence(s) /\ RouteOf(s, <<>>) = <<>> ## Lit(a) ## Lit(b) ## Lit(c) ## Lit(d)
    BY <2>1, Tuples, PlainRoutes
  <2>3. RouteOf(s, <<v>>) = RouteOf(s, <<>>) ## Verb(v)
    BY <2>2, VerbRoutes
  <2>q. QED
    BY <2>1, <2>2, <2>3
<1>6. ASSUME NEW a, NEW b, NEW c, NEW d, NEW e, NEW v
      PROVE  RouteOf(<<a, b, c, d, e>>, <<v>>) =
               <<>> ## Lit(a) ## Lit(b) ## Lit(c) ## Lit(d) ## Lit(e) ## Verb(v)
  <2>1. PICK s : s = <<a, b, c, d, e>>
    OBVIOUS
  <2>2. IsSequence(s) /\ RouteOf(s, <<>>) = <<>> ## Lit(a) ## Lit(b) ## Lit(c) ## Lit(d) ## Lit(e)
    BY <2>1, Tuples, PlainRoutes
  <2>3. RouteOf(s, <<v>>) = RouteOf(s, <<>>) ## Verb(v)
    BY <2>2, VerbRoutes
  <2>q. QED
    BY <2>1, <2>2, <2>3
<1>q. QED
  BY PlainRoutes, <1>1, <1>2, <1>3, <1>4, <1>5, <1>6

\* What is appended to a sequence of segments.
LEMMA LengthenedOnce ==
  ASSUME NEW s, IsSequence(s), NEW a
  PROVE  s ++ <<a>> = s ## a /\ IsSequence(s ## a)
BY AppendedLast, AppendedIs

LEMMA LengthenedTwice ==
  ASSUME NEW s, IsSequence(s), NEW a, NEW b
  PROVE  s ++ <<a, b>> = s ## a ## b /\ IsSequence(s ## a ## b)
<1>1. PICK t, u : t = <<a>> /\ u = <<a, b>>
  OBVIOUS
<1>2. IsSequence(t) /\ u = t ## b
  BY <1>1, Tuples
<1>3. s ++ (t ## b) = (s ++ t) ## b
  BY <1>2, AppendedAfter
<1>4. s ++ t = s ## a
  BY <1>1, AppendedLast
<1>5. PICK x : x = s ## a
  OBVIOUS
<1>6. IsSequence(x ## b)
  BY <1>5, AppendedIs
<1>q. QED
  BY <1>1, <1>2, <1>3, <1>4, <1>5, <1>6

LEMMA BelowOnce ==
  ASSUME NEW s, IsSequence(s), NEW a
  PROVE  RouteOf(s ++ <<a>>, <<>>) = RouteOf(s, <<>>) ## Lit(a)
<1>1. RouteOf(s ## a, <<>>) = RouteOf(s, <<>>) ## Lit(a)
  BY RouteOfSegment
<1>q. QED
  BY <1>1, LengthenedOnce

LEMMA BelowTwice ==
  ASSUME NEW s, IsSequence(s), NEW a, NEW b
  PROVE  RouteOf(s ++ <<a, b>>, <<>>) = RouteOf(s, <<>>) ## Lit(a) ## Lit(b)
<1>1. PICK t : t = s ## a
  OBVIOUS
<1>2. IsSequence(t) /\ RouteOf(t, <<>>) = RouteOf(s, <<>>) ## Lit(a)
  BY <1>1, AppendedIs, RouteOfSegment
<1>3. RouteOf(t ## b, <<>>) = RouteOf(t, <<>>) ## Lit(b)
  BY <1>2, RouteOfSegment
<1>4. s ++ <<a, b>> = t ## b
  BY <1>1, LengthenedTwice
<1>q. QED
  BY <1>2, <1>3, <1>4

\* Below a project, and below one of its instances.
InProject  == <<>> ## Lit("v1") ## Lit("projects") ## Lit("{project}")
InInstance == InProject ## Lit("instances") ## Lit("{instance}")

LEMMA AProject == IsSequence(Project) /\ RouteOf(Project, <<>>) = InProject
<1>1. PICK a, b, c : a = "v1" /\ b = "projects" /\ c = "{project}"
  OBVIOUS
<1>2. Project = <<a, b, c>>
  BY <1>1 DEF Project
<1>3. IsSequence(<<a, b, c>>) /\ RouteOf(<<a, b, c>>, <<>>) = <<>> ## Lit(a) ## Lit(b) ## Lit(c)
  BY Tuples, PlainRoutes
<1>q. QED
  BY <1>1, <1>2, <1>3 DEF InProject

LEMMA AnInstance == IsSequence(Instance) /\ RouteOf(Instance, <<>>) = InInstance
<1>1. Instance = Project ++ <<"instances", "{instance}">>
  BY DEF Instance, ++
<1>2. PICK a, b : a = "instances" /\ b = "{instance}"
  OBVIOUS
<1>3. Project ++ <<a, b>> = Project ## a ## b /\ IsSequence(Project ## a ## b)
  BY AProject, LengthenedTwice
<1>4. RouteOf(Project ++ <<a, b>>, <<>>) = RouteOf(Project, <<>>) ## Lit(a) ## Lit(b)
  BY AProject, BelowTwice
<1>q. QED
  BY <1>1, <1>2, <1>3, <1>4, AProject DEF InInstance

LEMMA RoutesInProject ==
  /\ RouteOf(Project \o <<"exportTasks">>, <<>>) =
       InProject ## Lit("exportTasks")
  /\ RouteOf(Project \o <<"exportTasks", "{task}">>, <<>>) =
       InProject ## Lit("exportTasks") ## Lit("{task}")
  /\ RouteOf(Project \o <<"exportTasks", "{task}">>, <<"download">>) =
       InProject ## Lit("exportTasks") ## Lit("{task}") ## Verb("download")
  /\ RouteOf(Project \o <<"instances">>, <<>>) =
       InProject ## Lit("instances")
  /\ RouteOf(Project \o <<"instances", "{instance}">>, <<>>) =
       InProject ## Lit("instances") ## Lit("{instance}")
  /\ RouteOf(Project \o <<"instances", "{instance}">>, <<"sync">>) =
       InProject ## Lit("instances") ## Lit("{instance}") ## Verb("sync")
  /\ RouteOf(Project \o <<"instances", "{instance}">>, <<"testConnection">>) =
       InProject ## Lit("instances") ## Lit("{instance}") ## Verb("testConnection")
  /\ RouteOf(Project \o <<"worksheets">>, <<>>) =
       InProject ## Lit("worksheets")
  /\ RouteOf(Project \o <<"worksheets">>, <<"search">>) =
       InProject ## Lit("worksheets") ## Verb("search")
  /\ RouteOf(Project \o <<"worksheets", "{worksheet}">>, <<>>) =
       InProject ## Lit("worksheets") ## Lit("{worksheet}")
  /\ RouteOf(Project \o <<"worksheets", "{worksheet}">>, <<"favorite">>) =
       InProject ## Lit("worksheets") ## Lit("{worksheet}") ## Verb("favorite")
  /\ RouteOf(Project \o <<"worksheets", "{worksheet}">>, <<"unfavorite">>) =
       InProject ## Lit("worksheets") ## Lit("{worksheet}") ## Verb("unfavorite")
<1>1. PICK s : s = Project ++ <<"exportTasks">>
  OBVIOUS
<1>2. IsSequence(s) /\ RouteOf(s, <<>>) = InProject ## Lit("exportTasks")
  <2>1. PICK a : a = "exportTasks"
    OBVIOUS
  <2>2. IsSequence(Project ++ <<a>>)
    BY AProject, LengthenedOnce
  <2>3. RouteOf(Project ++ <<a>>, <<>>) = RouteOf(Project, <<>>) ## Lit(a)
    BY AProject, BelowOnce
  <2>q. QED
    BY <1>1, <2>1, <2>2, <2>3, AProject
<1>3. RouteOf(Project \o <<"exportTasks">>, <<>>) =
        InProject ## Lit("exportTasks")
  <2>1. s = Project \o <<"exportTasks">>
    BY <1>1 DEF ++
  <2>q. QED
    BY <1>2, <2>1
<1>4. PICK t : t = Project ++ <<"exportTasks", "{task}">>
  OBVIOUS
<1>5. IsSequence(t) /\ RouteOf(t, <<>>) = InProject ## Lit("exportTasks") ## Lit("{task}")
  <2>1. PICK a, b : a = "exportTasks" /\ b = "{task}"
    OBVIOUS
  <2>2. IsSequence(Project ++ <<a, b>>)
    BY AProject, LengthenedTwice
  <2>3. RouteOf(Project ++ <<a, b>>, <<>>) = RouteOf(Project, <<>>) ## Lit(a) ## Lit(b)
    BY AProject, BelowTwice
  <2>q. QED
    BY <1>4, <2>1, <2>2, <2>3, AProject
<1>6. /\ RouteOf(Project \o <<"exportTasks", "{task}">>, <<>>) =
           InProject ## Lit("exportTasks") ## Lit("{task}")
      /\ RouteOf(Project \o <<"exportTasks", "{task}">>, <<"download">>) =
           InProject ## Lit("exportTasks") ## Lit("{task}") ## Verb("download")
  <2>1. t = Project \o <<"exportTasks", "{task}">>
    BY <1>4 DEF ++
  <2>2. \A v : RouteOf(t, <<v>>) = RouteOf(t, <<>>) ## Verb(v)
    BY <1>5, VerbRoutes
  <2>q. QED
    BY <1>5, <2>1, <2>2
<1>7. PICK u : u = Project ++ <<"instances">>
  OBVIOUS
<1>8. IsSequence(u) /\ RouteOf(u, <<>>) = InProject ## Lit("instances")
  <2>1. PICK a : a = "instances"
    OBVIOUS
  <2>2. IsSequence(Project ++ <<a>>)
    BY AProject, LengthenedOnce
  <2>3. RouteOf(Project ++ <<a>>, <<>>) = RouteOf(Project, <<>>) ## Lit(a)
    BY AProject, BelowOnce
  <2>q. QED
    BY <1>7, <2>1, <2>2, <2>3, AProject
<1>9. RouteOf(Project \o <<"instances">>, <<>>) =
        InProject ## Lit("instances")
  <2>1. u = Project \o <<"instances">>
    BY <1>7 DEF ++
  <2>q. QED
    BY <1>8, <2>1
<1>10. PICK w : w = Project ++ <<"instances", "{instance}">>
  OBVIOUS
<1>11. IsSequence(w) /\ RouteOf(w, <<>>) = InProject ## Lit("instances") ## Lit("{instance}")
  <2>1. PICK a, b : a = "instances" /\ b = "{instance}"
    OBVIOUS
  <2>2. IsSequence(Project ++ <<a, b>>)
    BY AProject, LengthenedTwice
  <2>3. RouteOf(Project ++ <<a, b>>, <<>>) = RouteOf(Project, <<>>) ## Lit(a) ## Lit(b)
    BY AProject, BelowTwice
  <2>q. QED
    BY <1>10, <2>1, <2>2, <2>3, AProject
<1>12. /\ RouteOf(Project \o <<"instances", "{instance}">>, <<>>) =
           InProject ## Lit("instances") ## Lit("{instance}")
      /\ RouteOf(Project \o <<"instances", "{instance}">>, <<"sync">>) =
           InProject ## Lit("instances") ## Lit("{instance}") ## Verb("sync")
      /\ RouteOf(Project \o <<"instances", "{instance}">>, <<"testConnection">>) =
           InProject ## Lit("instances") ## Lit("{instance}") ## Verb("testConnection")
  <2>1. w = Project \o <<"instances", "{instance}">>
    BY <1>10 DEF ++
  <2>2. \A v : RouteOf(w, <<v>>) = RouteOf(w, <<>>) ## Verb(v)
    BY <1>11, VerbRoutes
  <2>q. QED
    BY <1>11, <2>1, <2>2
<1>13. PICK x : x = Project ++ <<"worksheets">>
  OBVIOUS
<1>14. IsSequence(x) /\ RouteOf(x, <<>>) = InProject ## Lit("worksheets")
  <2>1. PICK a : a = "worksheets"
    OBVIOUS
  <2>2. IsSequence(Project ++ <<a>>)
    BY AProject, LengthenedOnce
  <2>3. RouteOf(Project ++ <<a>>, <<>>) = RouteOf(Project, <<>>) ## Lit(a)
    BY AProject, BelowOnce
  <2>q. QED
    BY <1>13, <2>1, <2>2, <2>3, AProject
<1>15. /\ RouteOf(Project \o <<"worksheets">>, <<>>) =
           InProject ## Lit("worksheets")
      /\ RouteOf(Project \o <<"worksheets">>, <<"search">>) =
           InProject ## Lit("worksheets") ## Verb("search")
  <2>1. x = Project \o <<"worksheets">>
    BY <1>13 DEF ++
  <2>2. \A v : RouteOf(x, <<v>>) = RouteOf(x, <<>>) ## Verb(v)
    BY <1>14, VerbRoutes
  <2>q. QED
    BY <1>14, <2>1, <2>2
<1>16. PICK y : y = Project ++ <<"worksheets", "{worksheet}">>
  OBVIOUS
<1>17. IsSequence(y) /\ RouteOf(y, <<>>) = InProject ## Lit("worksheets") ## Lit("{worksheet}")
  <2>1. PICK a, b : a = "worksheets" /\ b = "{worksheet}"
    OBVIOUS
  <2>2. IsSequence(Project ++ <<a, b>>)
    BY AProject, LengthenedTwice
  <2>3. RouteOf(Project ++ <<a, b>>, <<>>) = RouteOf(Project, <<>>) ## Lit(a) ## Lit(b)
    BY AProject, BelowTwice
  <2>q. QED
    BY <1>16, <2>1, <2>2, <2>3, AProject
<1>18. /\ RouteOf(Project \o <<"worksheets", "{worksheet}">>, <<>>) =
           InProject ## Lit("worksheets") ## Lit("{worksheet}")
      /\ RouteOf(Project \o <<"worksheets", "{worksheet}">>, <<"favorite">>) =
           InProject ## Lit("worksheets") ## Lit("{worksheet}") ## Verb("favorite")
      /\ RouteOf(Project \o <<"worksheets", "{worksheet}">>, <<"unfavorite">>) =
           InProject ## Lit("worksheets") ## Lit("{worksheet}") ## Verb("unfavorite")
  <2>1. y = Project \o <<"worksheets", "{worksheet}">>
    BY <1>16 DEF ++
  <2>2. \A v : RouteOf(y, <<v>>) = RouteOf(y, <<>>) ## Verb(v)
    BY <1>17, VerbRoutes
  <2>q. QED
    BY <1>17, <2>1, <2>2
<1>q. QED
  BY <1>3, <1>6, <1>9, <1>12, <1>15, <1>18

LEMMA RoutesInInstance ==
  /\ RouteOf(Instance \o <<"dataSources", "{dataSource}">>, <<>>) =
       InInstance ## Lit("dataSources") ## Lit("{dataSource}")
  /\ RouteOf(Instance \o <<"databases">>, <<>>) =
       InInstance ## Lit("databases")
  /\ RouteOf(Instance \o <<"databases", "{database}">>, <<>>) =
       InInstance ## Lit("databases") ## Lit("{database}")
  /\ RouteOf(Instance \o <<"databases", "{database}">>, <<"export">>) =
       InInstance ## Lit("databases") ## Lit("{database}") ## Verb("export")
  /\ RouteOf(Instance \o <<"databases", "{database}">>, <<"query">>) =
       InInstance ## Lit("databases") ## Lit("{database}") ## Verb("query")
  /\ RouteOf(Instance \o <<"databases", "{database}">>, <<"syncSchema">>) =
       InInstance ## Lit("databases") ## Lit("{database}") ## Verb("syncSchema")
<1>1. PICK s : s = Instance ++ <<"dataSources", "{dataSource}">>
  OBVIOUS
<1>2. IsSequence(s) /\ RouteOf(s, <<>>) = InInstance ## Lit("dataSources") ## Lit("{dataSource}")
  <2>1. PICK a, b : a = "dataSources" /\ b = "{dataSource}"
    OBVIOUS
  <2>2. IsSequence(Instance ++ <<a, b>>)
    BY AnInstance, LengthenedTwice
  <2>3. RouteOf(Instance ++ <<a, b>>, <<>>) = RouteOf(Instance, <<>>) ## Lit(a) ## Lit(b)
    BY AnInstance, BelowTwice
  <2>q. QED
    BY <1>1, <2>1, <2>2, <2>3, AnInstance
<1>3. RouteOf(Instance \o <<"dataSources", "{dataSource}">>, <<>>) =
        InInstance ## Lit("dataSources") ## Lit("{dataSource}")
  <2>1. s = Instance \o <<"dataSources", "{dataSource}">>
    BY <1>1 DEF ++
  <2>q. QED
    BY <1>2, <2>1
<1>4. PICK t : t = Instance ++ <<"databases">>
  OBVIOUS
<1>5. IsSequence(t) /\ RouteOf(t, <<>>) = InInstance ## Lit("databases")
  <2>1. PICK a : a = "databases"
    OBVIOUS
  <2>2. IsSequence(Instance ++ <<a>>)
    BY AnInstance, LengthenedOnce
  <2>3. RouteOf(Instance ++ <<a>>, <<>>) = RouteOf(Instance, <<>>) ## Lit(a)
    BY AnInstance, BelowOnce
  <2>q. QED
    BY <1>4, <2>1, <2>2, <2>3, AnInstance
<1>6. RouteOf(Instance \o <<"databases">>, <<>>) =
        InInstance ## Lit("databases")
  <2>1. t = Instance \o <<"databases">>
    BY <1>4 DEF ++
  <2>q. QED
    BY <1>5, <2>1
<1>7. PICK u : u = Instance ++ <<"databases", "{database}">>
  OBVIOUS
<1>8. IsSequence(u) /\ RouteOf(u, <<>>) = InInstance ## Lit("databases") ## Lit("{database}")
  <2>1. PICK a, b : a = "databases" /\ b = "{database}"
    OBVIOUS
  <2>2. IsSequence(Instance ++ <<a, b>>)
    BY AnInstance, LengthenedTwice
  <2>3. RouteOf(Instance ++ <<a, b>>, <<>>) = RouteOf(Instance, <<>>) ## Lit(a) ## Lit(b)
    BY AnInstance, BelowTwice
  <2>q. QED
    BY <1>7, <2>1, <2>2, <2>3, AnInstance
<1>9. /\ RouteOf(Instance \o <<"databases", "{database}">>, <<>>) =
           InInstance ## Lit("databases") ## Lit("{database}")
      /\ RouteOf(Instance \o <<"databases", "{database}">>, <<"export">>) =
           InInstance ## Lit("databases") ## Lit("{database}") ## Verb("export")
      /\ RouteOf(Instance \o <<"databases", "{database}">>, <<"query">>) =
           InInstance ## Lit("databases") ## Lit("{database}") ## Verb("query")
      /\ RouteOf(Instance \o <<"databases", "{database}">>, <<"syncSchema">>) =
           InInstance ## Lit("databases") ## Lit("{database}") ## Verb("syncSchema")
  <2>1. u = Instance \o <<"databases", "{database}">>
    BY <1>7 DEF ++
  <2>2. \A v : RouteOf(u, <<v>>) = RouteOf(u, <<>>) ## Verb(v)
    BY <1>8, VerbRoutes
  <2>q. QED
    BY <1>8, <2>1, <2>2
<1>q. QED
  BY <1>3, <1>6, <1>9

-----------------------------------------------------------------------------
(* The operations.                                                         *)

\* The parameters that a decoder takes from the path: they come first.
PathOf(params) == {i \in DOMAIN params : params[i].in = "path"}

\* What an encoder can write: 501 is for what is not implemented.
Sendable == [status : (200..504) \ {501}, body : {"json", "text", "bytes", "empty"}]

\* o serves method m on the route, of which k values are parameters.
Serves(o, m, route, k) ==
  /\ o \in DOMAIN Operation
  /\ Operation[o].method = m
  /\ Operation[o].route = route
  /\ PathOf(Operation[o].params) = 1..k
  /\ Operation[o].response \subseteq Sendable
  /\ o \in RolesKnown => Operation[o].security = Secured

Offers(ops, route, k) == \A m \in DOMAIN ops : Serves(ops[m], m, route, k)

LEMMA Encoded ==
  /\ \A S : S \subseteq (200..504) \ {501} =>
       /\ JsonOf(S) \subseteq Sendable /\ Text(S) \subseteq Sendable
       /\ Bytes(S) \subseteq Sendable /\ Empty(S) \subseteq Sendable
  /\ Default \subseteq Sendable
<1>1. \A S : S \subseteq (200..504) \ {501} =>
        /\ JsonOf(S) \subseteq Sendable /\ Text(S) \subseteq Sendable
        /\ Bytes(S) \subseteq Sendable /\ Empty(S) \subseteq Sendable
  BY DEF JsonOf, Text, Bytes, Empty, Sendable
<1>2. {DefaultCode(c) : c \in {0, 400, 500}} \subseteq (200..504) \ {501}
  BY DEF DefaultCode
<1>q. QED
  BY <1>1, <1>2 DEF Default

\* The first segments of a route.
V1(word) == <<>> ## Lit("v1") ## Lit(word)

\* The placeholders.
DataSourceHole   == "{dataSource}"
DatabaseHole     == "{database}"
EnvironmentHole  == "{environment}"
GroupHole        == "{group}"
ProviderHole     == "{idp}"
NotificationHole == "{id}"
InstanceHole     == "{instance}"
SettingHole      == "{key}"
MemberHole       == "{member}"
ProjectHole      == "{project}"
TaskHole         == "{task}"
UserHole         == "{user}"
WorksheetHole    == "{worksheet}"

LEMMA ProbeOperations ==
  /\ Offers([GET |-> "Healthz"], <<>> ## Lit("healthz"), 0)
  /\ Offers([GET |-> "Readyz"], <<>> ## Lit("readyz"), 0)
<1>1. PICK a, b :
        a = "healthz" /\ b = "readyz"
  OBVIOUS
<1>2. /\ RouteOf(<<a>>, <<>>) = <<>> ## Lit(a)
      /\ RouteOf(<<b>>, <<>>) = <<>> ## Lit(b)
  BY Routes
<1>3. /\ RouteOf(<<"healthz">>, <<>>)
           = <<>> ## Lit("healthz")
      /\ RouteOf(<<"readyz">>, <<>>)
           = <<>> ## Lit("readyz")
  BY <1>1, <1>2 DEF V1, InProject
<1>4. /\ Healthz.method = "GET" /\ Healthz.security = Open
      /\ Healthz.params = NoParams
      /\ Healthz.response = HealthzResponse
      /\ Healthz.route = <<>> ## Lit("healthz")
      /\ Readyz.method = "GET" /\ Readyz.security = Open
      /\ Readyz.params = NoParams
      /\ Readyz.response = ReadyzResponse
      /\ Readyz.route = <<>> ## Lit("readyz")
  BY <1>3 DEF Handler, Healthz, Readyz
<1>5. /\ "Healthz" \in DOMAIN Operation /\ Operation["Healthz"] = Healthz
      /\ "Readyz" \in DOMAIN Operation /\ Operation["Readyz"] = Readyz
  BY DEF Operation
<1>6. /\ PathOf(NoParams) = 1..0
  BY DEF PathOf, Name, Key, Role, Query, Header,
    NoParams
<1>7. /\ HealthzResponse \subseteq Sendable
      /\ ReadyzResponse \subseteq Sendable
  BY Encoded DEF
    HealthzResponse, ReadyzResponse
<1>8. {"Healthz", "Readyz"} \cap RolesKnown = {}
  BY DEF RolesKnown
<1>9. /\ Serves("Healthz", "GET", <<>> ## Lit("healthz"), 0)
      /\ Serves("Readyz", "GET", <<>> ## Lit("readyz"), 0)
  BY <1>4, <1>5, <1>6, <1>7, <1>8 DEF Serves
<1>10. Offers([GET |-> "Healthz"], <<>> ## Lit("healthz"), 0)
  BY <1>9 DEF Offers
<1>11. Offers([GET |-> "Readyz"], <<>> ## Lit("readyz"), 0)
  BY <1>9 DEF Offers
<1>q. QED
  BY <1>10, <1>11

LEMMA AuthOperations ==
  /\ Offers([GET |-> "AuthCsrf"], V1("auth") ## Lit("csrf"), 0)
  /\ Offers([POST |-> "AuthLogin"], V1("auth") ## Verb("login"), 0)
  /\ Offers([POST |-> "AuthLogout"], V1("auth") ## Verb("logout"), 0)
  /\ Offers([POST |-> "AuthPasswordResetConfirm"],
            V1("auth") ## Verb("passwordReset") ## Verb("confirm"), 0)
  /\ Offers([POST |-> "AuthPasswordResetRequest"],
            V1("auth") ## Verb("passwordReset") ## Verb("request"), 0)
  /\ Offers([POST |-> "AuthRefresh"], V1("auth") ## Verb("refresh"), 0)
<1>1. PICK a, b, c, d, e, f, g, h, i :
        a = "v1" /\ b = "auth" /\ c = "csrf" /\ d = "login" /\ e = "logout" /\
        f = "passwordReset" /\ g = "confirm" /\ h = "request" /\ i = "refresh"
  OBVIOUS
<1>2. /\ RouteOf(<<a, b, c>>, <<>>) = <<>> ## Lit(a) ## Lit(b) ## Lit(c)
      /\ RouteOf(<<a, b>>, <<d>>) = <<>> ## Lit(a) ## Lit(b) ## Verb(d)
      /\ RouteOf(<<a, b>>, <<e>>) = <<>> ## Lit(a) ## Lit(b) ## Verb(e)
      /\ RouteOf(<<a, b>>, <<f, g>>) = <<>> ## Lit(a) ## Lit(b) ## Verb(f) ## Verb(g)
      /\ RouteOf(<<a, b>>, <<f, h>>) = <<>> ## Lit(a) ## Lit(b) ## Verb(f) ## Verb(h)
      /\ RouteOf(<<a, b>>, <<i>>) = <<>> ## Lit(a) ## Lit(b) ## Verb(i)
  BY Routes
<1>3. /\ RouteOf(<<"v1", "auth", "csrf">>, <<>>)
           = V1("auth") ## Lit("csrf")
      /\ RouteOf(<<"v1", "auth">>, <<"login">>)
           = V1("auth") ## Verb("login")
      /\ RouteOf(<<"v1", "auth">>, <<"logout">>)
           = V1("auth") ## Verb("logout")
      /\ RouteOf(<<"v1", "auth">>, <<"passwordReset", "confirm">>)
           = V1("auth") ## Verb("passwordReset") ## Verb("confirm")
      /\ RouteOf(<<"v1", "auth">>, <<"passwordReset", "request">>)
           = V1("auth") ## Verb("passwordReset") ## Verb("request")
      /\ RouteOf(<<"v1", "auth">>, <<"refresh">>)
           = V1("auth") ## Verb("refresh")
  BY <1>1, <1>2 DEF V1, InProject
<1>4. /\ AuthCsrf.method = "GET" /\ AuthCsrf.security = Open
      /\ AuthCsrf.params = NoParams
      /\ AuthCsrf.response = AuthCsrfResponse
      /\ AuthCsrf.route = V1("auth") ## Lit("csrf")
      /\ AuthLogin.method = "POST" /\ AuthLogin.security = Open
      /\ AuthLogin.params = AuthLoginParams
      /\ AuthLogin.response = AuthLoginResponse
      /\ AuthLogin.route = V1("auth") ## Verb("login")
      /\ AuthLogout.method = "POST" /\ AuthLogout.security = Secured
      /\ AuthLogout.params = NoParams
      /\ AuthLogout.response = AuthLogoutResponse
      /\ AuthLogout.route = V1("auth") ## Verb("logout")
      /\ AuthPasswordResetConfirm.method = "POST" /\ AuthPasswordResetConfirm.security = Open
      /\ AuthPasswordResetConfirm.params = NoParams
      /\ AuthPasswordResetConfirm.response = AuthPasswordResetConfirmResponse
      /\ AuthPasswordResetConfirm.route = V1("auth") ## Verb("passwordReset") ## Verb("confirm")
      /\ AuthPasswordResetRequest.method = "POST" /\ AuthPasswordResetRequest.security = Open
      /\ AuthPasswordResetRequest.params = NoParams
      /\ AuthPasswordResetRequest.response = AuthPasswordResetRequestResponse
      /\ AuthPasswordResetRequest.route = V1("auth") ## Verb("passwordReset") ## Verb("request")
      /\ AuthRefresh.method = "POST" /\ AuthRefresh.security = Open
      /\ AuthRefresh.params = NoParams
      /\ AuthRefresh.response = AuthRefreshResponse
      /\ AuthRefresh.route = V1("auth") ## Verb("refresh")
  BY <1>3 DEF Handler, AuthCsrf, AuthLogin, AuthLogout, AuthPasswordResetConfirm,
    AuthPasswordResetRequest, AuthRefresh
<1>5. /\ "AuthCsrf" \in DOMAIN Operation /\ Operation["AuthCsrf"] = AuthCsrf
      /\ "AuthLogin" \in DOMAIN Operation /\ Operation["AuthLogin"] = AuthLogin
      /\ "AuthLogout" \in DOMAIN Operation /\ Operation["AuthLogout"] = AuthLogout
      /\ "AuthPasswordResetConfirm" \in DOMAIN Operation /\ Operation["AuthPasswordResetConfirm"] = AuthPasswordResetConfirm
      /\ "AuthPasswordResetRequest" \in DOMAIN Operation /\ Operation["AuthPasswordResetRequest"] = AuthPasswordResetRequest
      /\ "AuthRefresh" \in DOMAIN Operation /\ Operation["AuthRefresh"] = AuthRefresh
  BY DEF Operation
<1>6. /\ PathOf(NoParams) = 1..0
      /\ PathOf(AuthLoginParams) = 1..0
  BY DEF PathOf, Name, Key, Role, Query, Header,
    NoParams, AuthLoginParams
<1>7. /\ AuthCsrfResponse \subseteq Sendable
      /\ AuthLoginResponse \subseteq Sendable
      /\ AuthLogoutResponse \subseteq Sendable
      /\ AuthPasswordResetConfirmResponse \subseteq Sendable
      /\ AuthPasswordResetRequestResponse \subseteq Sendable
      /\ AuthRefreshResponse \subseteq Sendable
  BY Encoded DEF
    AuthCsrfResponse, AuthLoginResponse, AuthLogoutResponse,
    AuthPasswordResetConfirmResponse, AuthPasswordResetRequestResponse,
    AuthRefreshResponse
<1>8. {"AuthCsrf", "AuthLogin", "AuthPasswordResetConfirm",
        "AuthPasswordResetRequest", "AuthRefresh"} \cap RolesKnown = {}
  BY DEF RolesKnown
<1>9. /\ Serves("AuthCsrf", "GET", V1("auth") ## Lit("csrf"), 0)
      /\ Serves("AuthLogin", "POST", V1("auth") ## Verb("login"), 0)
      /\ Serves("AuthLogout", "POST", V1("auth") ## Verb("logout"), 0)
      /\ Serves("AuthPasswordResetConfirm", "POST", V1("auth") ## Verb("passwordReset") ## Verb("confirm"), 0)
      /\ Serves("AuthPasswordResetRequest", "POST", V1("auth") ## Verb("passwordReset") ## Verb("request"), 0)
      /\ Serves("AuthRefresh", "POST", V1("auth") ## Verb("refresh"), 0)
  BY <1>4, <1>5, <1>6, <1>7, <1>8 DEF Serves
<1>10. Offers([GET |-> "AuthCsrf"], V1("auth") ## Lit("csrf"), 0)
  BY <1>9 DEF Offers
<1>11. Offers([POST |-> "AuthLogin"], V1("auth") ## Verb("login"), 0)
  BY <1>9 DEF Offers
<1>12. Offers([POST |-> "AuthLogout"], V1("auth") ## Verb("logout"), 0)
  BY <1>9 DEF Offers
<1>13. Offers([POST |-> "AuthPasswordResetConfirm"],
             V1("auth") ## Verb("passwordReset") ## Verb("confirm"), 0)
  BY <1>9 DEF Offers
<1>14. Offers([POST |-> "AuthPasswordResetRequest"],
             V1("auth") ## Verb("passwordReset") ## Verb("request"), 0)
  BY <1>9 DEF Offers
<1>15. Offers([POST |-> "AuthRefresh"], V1("auth") ## Verb("refresh"), 0)
  BY <1>9 DEF Offers
<1>q. QED
  BY <1>10, <1>11, <1>12, <1>13, <1>14, <1>15

LEMMA AuditOperations ==
  /\ Offers([POST |-> "ExportAuditLogs"], V1("auditLogs") ## Verb("export"), 0)
  /\ Offers([POST |-> "SearchAuditLogs"], V1("auditLogs") ## Verb("search"), 0)
<1>1. PICK a, b, c, d :
        a = "v1" /\ b = "auditLogs" /\ c = "export" /\ d = "search"
  OBVIOUS
<1>2. /\ RouteOf(<<a, b>>, <<c>>) = <<>> ## Lit(a) ## Lit(b) ## Verb(c)
      /\ RouteOf(<<a, b>>, <<d>>) = <<>> ## Lit(a) ## Lit(b) ## Verb(d)
  BY Routes
<1>3. /\ RouteOf(<<"v1", "auditLogs">>, <<"export">>)
           = V1("auditLogs") ## Verb("export")
      /\ RouteOf(<<"v1", "auditLogs">>, <<"search">>)
           = V1("auditLogs") ## Verb("search")
  BY <1>1, <1>2 DEF V1, InProject
<1>4. /\ ExportAuditLogs.method = "POST" /\ ExportAuditLogs.security = Secured
      /\ ExportAuditLogs.params = ExportAuditLogsParams
      /\ ExportAuditLogs.response = ExportAuditLogsResponse
      /\ ExportAuditLogs.route = V1("auditLogs") ## Verb("export")
      /\ SearchAuditLogs.method = "POST" /\ SearchAuditLogs.security = Secured
      /\ SearchAuditLogs.params = NoParams
      /\ SearchAuditLogs.response = SearchAuditLogsResponse
      /\ SearchAuditLogs.route = V1("auditLogs") ## Verb("search")
  BY <1>3 DEF Handler, ExportAuditLogs, SearchAuditLogs
<1>5. /\ "ExportAuditLogs" \in DOMAIN Operation /\ Operation["ExportAuditLogs"] = ExportAuditLogs
      /\ "SearchAuditLogs" \in DOMAIN Operation /\ Operation["SearchAuditLogs"] = SearchAuditLogs
  BY DEF Operation
<1>6. /\ PathOf(ExportAuditLogsParams) = 1..0
      /\ PathOf(NoParams) = 1..0
  BY DEF PathOf, Name, Key, Role, Query, Header,
    ExportAuditLogsParams, NoParams
<1>7. /\ ExportAuditLogsResponse \subseteq Sendable
      /\ SearchAuditLogsResponse \subseteq Sendable
  BY Encoded DEF
    ExportAuditLogsResponse, SearchAuditLogsResponse
<1>8. /\ Serves("ExportAuditLogs", "POST", V1("auditLogs") ## Verb("export"), 0)
      /\ Serves("SearchAuditLogs", "POST", V1("auditLogs") ## Verb("search"), 0)
  BY <1>4, <1>5, <1>6, <1>7 DEF Serves
<1>9. Offers([POST |-> "ExportAuditLogs"], V1("auditLogs") ## Verb("export"), 0)
  BY <1>8 DEF Offers
<1>10. Offers([POST |-> "SearchAuditLogs"], V1("auditLogs") ## Verb("search"), 0)
  BY <1>8 DEF Offers
<1>q. QED
  BY <1>9, <1>10

LEMMA EnvironmentOperations ==
  /\ Offers([GET |-> "ListEnvironments"], V1("environments"), 0)
  /\ Offers([DELETE |-> "DeleteEnvironment", PATCH |-> "UpdateEnvironment", POST |-> "CreateEnvironment"],
            V1("environments") ## Lit(EnvironmentHole), 1)
  /\ Offers([GET |-> "GetEnvironmentPolicy", PATCH |-> "UpdateEnvironmentPolicy"],
            V1("environments") ## Lit(EnvironmentHole) ## Lit("policy"), 1)
<1>1. PICK a, b, c, d :
        a = "v1" /\ b = "environments" /\ c = "{environment}" /\ d = "policy"
  OBVIOUS
<1>2. /\ RouteOf(<<a, b, c>>, <<>>) = <<>> ## Lit(a) ## Lit(b) ## Lit(c)
      /\ RouteOf(<<a, b, c, d>>, <<>>) = <<>> ## Lit(a) ## Lit(b) ## Lit(c) ## Lit(d)
      /\ RouteOf(<<a, b>>, <<>>) = <<>> ## Lit(a) ## Lit(b)
  BY Routes
<1>3. /\ RouteOf(<<"v1", "environments", "{environment}">>, <<>>)
           = V1("environments") ## Lit(EnvironmentHole)
      /\ RouteOf(<<"v1", "environments", "{environment}", "policy">>, <<>>)
           = V1("environments") ## Lit(EnvironmentHole) ## Lit("policy")
      /\ RouteOf(<<"v1", "environments">>, <<>>)
           = V1("environments")
  BY <1>1, <1>2 DEF V1, InProject, EnvironmentHole
<1>4. /\ CreateEnvironment.method = "POST" /\ CreateEnvironment.security = Secured
      /\ CreateEnvironment.params = CreateEnvironmentParams
      /\ CreateEnvironment.response = CreateEnvironmentResponse
      /\ CreateEnvironment.route = V1("environments") ## Lit(EnvironmentHole)
      /\ DeleteEnvironment.method = "DELETE" /\ DeleteEnvironment.security = Secured
      /\ DeleteEnvironment.params = DeleteEnvironmentParams
      /\ DeleteEnvironment.response = DeleteEnvironmentResponse
      /\ DeleteEnvironment.route = V1("environments") ## Lit(EnvironmentHole)
      /\ GetEnvironmentPolicy.method = "GET" /\ GetEnvironmentPolicy.security = Secured
      /\ GetEnvironmentPolicy.params = GetEnvironmentPolicyParams
      /\ GetEnvironmentPolicy.response = GetEnvironmentPolicyResponse
      /\ GetEnvironmentPolicy.route = V1("environments") ## Lit(EnvironmentHole) ## Lit("policy")
      /\ ListEnvironments.method = "GET" /\ ListEnvironments.security = Open
      /\ ListEnvironments.params = NoParams
      /\ ListEnvironments.response = ListEnvironmentsResponse
      /\ ListEnvironments.route = V1("environments")
      /\ UpdateEnvironment.method = "PATCH" /\ UpdateEnvironment.security = Secured
      /\ UpdateEnvironment.params = UpdateEnvironmentParams
      /\ UpdateEnvironment.response = UpdateEnvironmentResponse
      /\ UpdateEnvironment.route = V1("environments") ## Lit(EnvironmentHole)
      /\ UpdateEnvironmentPolicy.method = "PATCH" /\ UpdateEnvironmentPolicy.security = Secured
      /\ UpdateEnvironmentPolicy.params = UpdateEnvironmentPolicyParams
      /\ UpdateEnvironmentPolicy.response = UpdateEnvironmentPolicyResponse
      /\ UpdateEnvironmentPolicy.route = V1("environments") ## Lit(EnvironmentHole) ## Lit("policy")
  BY <1>3 DEF Handler, CreateEnvironment, DeleteEnvironment, GetEnvironmentPolicy,
    ListEnvironments, UpdateEnvironment, UpdateEnvironmentPolicy
<1>5. /\ "CreateEnvironment" \in DOMAIN Operation /\ Operation["CreateEnvironment"] = CreateEnvironment
      /\ "DeleteEnvironment" \in DOMAIN Operation /\ Operation["DeleteEnvironment"] = DeleteEnvironment
      /\ "GetEnvironmentPolicy" \in DOMAIN Operation /\ Operation["GetEnvironmentPolicy"] = GetEnvironmentPolicy
      /\ "ListEnvironments" \in DOMAIN Operation /\ Operation["ListEnvironments"] = ListEnvironments
      /\ "UpdateEnvironment" \in DOMAIN Operation /\ Operation["UpdateEnvironment"] = UpdateEnvironment
      /\ "UpdateEnvironmentPolicy" \in DOMAIN Operation /\ Operation["UpdateEnvironmentPolicy"] = UpdateEnvironmentPolicy
  BY DEF Operation
<1>6. /\ PathOf(CreateEnvironmentParams) = 1..1
      /\ PathOf(DeleteEnvironmentParams) = 1..1
      /\ PathOf(GetEnvironmentPolicyParams) = 1..1
      /\ PathOf(NoParams) = 1..0
      /\ PathOf(UpdateEnvironmentParams) = 1..1
      /\ PathOf(UpdateEnvironmentPolicyParams) = 1..1
  BY DEF PathOf, Name, Key, Role, Query, Header,
    CreateEnvironmentParams, DeleteEnvironmentParams, GetEnvironmentPolicyParams,
    NoParams, UpdateEnvironmentParams, UpdateEnvironmentPolicyParams
<1>7. /\ CreateEnvironmentResponse \subseteq Sendable
      /\ DeleteEnvironmentResponse \subseteq Sendable
      /\ GetEnvironmentPolicyResponse \subseteq Sendable
      /\ ListEnvironmentsResponse \subseteq Sendable
      /\ UpdateEnvironmentResponse \subseteq Sendable
      /\ UpdateEnvironmentPolicyResponse \subseteq Sendable
  BY Encoded DEF
    CreateEnvironmentResponse, DeleteEnvironmentResponse,
    GetEnvironmentPolicyResponse, ListEnvironmentsResponse, UpdateEnvironmentResponse,
    UpdateEnvironmentPolicyResponse
<1>8. {"ListEnvironments"} \cap RolesKnown = {}
  BY DEF RolesKnown
<1>9. /\ Serves("CreateEnvironment", "POST", V1("environments") ## Lit(EnvironmentHole), 1)
      /\ Serves("DeleteEnvironment", "DELETE", V1("environments") ## Lit(EnvironmentHole), 1)
      /\ Serves("GetEnvironmentPolicy", "GET", V1("environments") ## Lit(EnvironmentHole) ## Lit("policy"), 1)
      /\ Serves("ListEnvironments", "GET", V1("environments"), 0)
      /\ Serves("UpdateEnvironment", "PATCH", V1("environments") ## Lit(EnvironmentHole), 1)
      /\ Serves("UpdateEnvironmentPolicy", "PATCH", V1("environments") ## Lit(EnvironmentHole) ## Lit("policy"), 1)
  BY <1>4, <1>5, <1>6, <1>7, <1>8 DEF Serves
<1>10. Offers([GET |-> "ListEnvironments"], V1("environments"), 0)
  BY <1>9 DEF Offers
<1>11. Offers([DELETE |-> "DeleteEnvironment", PATCH |-> "UpdateEnvironment", POST |-> "CreateEnvironment"],
             V1("environments") ## Lit(EnvironmentHole), 1)
  BY <1>9 DEF Offers
<1>12. Offers([GET |-> "GetEnvironmentPolicy", PATCH |-> "UpdateEnvironmentPolicy"],
             V1("environments") ## Lit(EnvironmentHole) ## Lit("policy"), 1)
  BY <1>9 DEF Offers
<1>q. QED
  BY <1>10, <1>11, <1>12

LEMMA GroupOperations ==
  /\ Offers([GET |-> "ListGroups", POST |-> "CreateGroup"], V1("groups"), 0)
  /\ Offers([DELETE |-> "DeleteGroup", GET |-> "GetGroup", PATCH |-> "UpdateGroup"],
            V1("groups") ## Lit(GroupHole), 1)
  /\ Offers([GET |-> "ListGroupMembers", POST |-> "AddGroupMember"],
            V1("groups") ## Lit(GroupHole) ## Lit("members"), 1)
  /\ Offers([DELETE |-> "RemoveGroupMember"],
            V1("groups") ## Lit(GroupHole) ## Lit("members") ## Lit(MemberHole), 2)
<1>1. PICK a, b, c, d, e :
        a = "v1" /\ b = "groups" /\ c = "{group}" /\ d = "members" /\ e = "{member}"
  OBVIOUS
<1>2. /\ RouteOf(<<a, b, c, d>>, <<>>) = <<>> ## Lit(a) ## Lit(b) ## Lit(c) ## Lit(d)
      /\ RouteOf(<<a, b>>, <<>>) = <<>> ## Lit(a) ## Lit(b)
      /\ RouteOf(<<a, b, c>>, <<>>) = <<>> ## Lit(a) ## Lit(b) ## Lit(c)
      /\ RouteOf(<<a, b, c, d, e>>, <<>>) = <<>> ## Lit(a) ## Lit(b) ## Lit(c) ## Lit(d) ## Lit(e)
  BY Routes
<1>3. /\ RouteOf(<<"v1", "groups", "{group}", "members">>, <<>>)
           = V1("groups") ## Lit(GroupHole) ## Lit("members")
      /\ RouteOf(<<"v1", "groups">>, <<>>)
           = V1("groups")
      /\ RouteOf(<<"v1", "groups", "{group}">>, <<>>)
           = V1("groups") ## Lit(GroupHole)
      /\ RouteOf(<<"v1", "groups", "{group}", "members", "{member}">>, <<>>)
           = V1("groups") ## Lit(GroupHole) ## Lit("members") ## Lit(MemberHole)
  BY <1>1, <1>2 DEF V1, InProject, GroupHole, MemberHole
<1>4. /\ AddGroupMember.method = "POST" /\ AddGroupMember.security = Secured
      /\ AddGroupMember.params = AddGroupMemberParams
      /\ AddGroupMember.response = AddGroupMemberResponse
      /\ AddGroupMember.route = V1("groups") ## Lit(GroupHole) ## Lit("members")
      /\ CreateGroup.method = "POST" /\ CreateGroup.security = Secured
      /\ CreateGroup.params = CreateGroupParams
      /\ CreateGroup.response = CreateGroupResponse
      /\ CreateGroup.route = V1("groups")
      /\ DeleteGroup.method = "DELETE" /\ DeleteGroup.security = Secured
      /\ DeleteGroup.params = DeleteGroupParams
      /\ DeleteGroup.response = DeleteGroupResponse
      /\ DeleteGroup.route = V1("groups") ## Lit(GroupHole)
      /\ GetGroup.method = "GET" /\ GetGroup.security = Secured
      /\ GetGroup.params = GetGroupParams
      /\ GetGroup.response = GetGroupResponse
      /\ GetGroup.route = V1("groups") ## Lit(GroupHole)
      /\ ListGroupMembers.method = "GET" /\ ListGroupMembers.security = Secured
      /\ ListGroupMembers.params = ListGroupMembersParams
      /\ ListGroupMembers.response = ListGroupMembersResponse
      /\ ListGroupMembers.route = V1("groups") ## Lit(GroupHole) ## Lit("members")
      /\ ListGroups.method = "GET" /\ ListGroups.security = Secured
      /\ ListGroups.params = ListGroupsParams
      /\ ListGroups.response = ListGroupsResponse
      /\ ListGroups.route = V1("groups")
      /\ RemoveGroupMember.method = "DELETE" /\ RemoveGroupMember.security = Secured
      /\ RemoveGroupMember.params = RemoveGroupMemberParams
      /\ RemoveGroupMember.response = RemoveGroupMemberResponse
      /\ RemoveGroupMember.route = V1("groups") ## Lit(GroupHole) ## Lit("members") ## Lit(MemberHole)
      /\ UpdateGroup.method = "PATCH" /\ UpdateGroup.security = Secured
      /\ UpdateGroup.params = UpdateGroupParams
      /\ UpdateGroup.response = UpdateGroupResponse
      /\ UpdateGroup.route = V1("groups") ## Lit(GroupHole)
  BY <1>3 DEF Handler, AddGroupMember, CreateGroup, DeleteGroup, GetGroup, ListGroupMembers,
    ListGroups, RemoveGroupMember, UpdateGroup
<1>5. /\ "AddGroupMember" \in DOMAIN Operation /\ Operation["AddGroupMember"] = AddGroupMember
      /\ "CreateGroup" \in DOMAIN Operation /\ Operation["CreateGroup"] = CreateGroup
      /\ "DeleteGroup" \in DOMAIN Operation /\ Operation["DeleteGroup"] = DeleteGroup
      /\ "GetGroup" \in DOMAIN Operation /\ Operation["GetGroup"] = GetGroup
      /\ "ListGroupMembers" \in DOMAIN Operation /\ Operation["ListGroupMembers"] = ListGroupMembers
      /\ "ListGroups" \in DOMAIN Operation /\ Operation["ListGroups"] = ListGroups
      /\ "RemoveGroupMember" \in DOMAIN Operation /\ Operation["RemoveGroupMember"] = RemoveGroupMember
      /\ "UpdateGroup" \in DOMAIN Operation /\ Operation["UpdateGroup"] = UpdateGroup
  BY DEF Operation
<1>6. /\ PathOf(AddGroupMemberParams) = 1..1
      /\ PathOf(CreateGroupParams) = 1..0
      /\ PathOf(DeleteGroupParams) = 1..1
      /\ PathOf(GetGroupParams) = 1..1
      /\ PathOf(ListGroupMembersParams) = 1..1
      /\ PathOf(ListGroupsParams) = 1..0
      /\ PathOf(RemoveGroupMemberParams) = 1..2
      /\ PathOf(UpdateGroupParams) = 1..1
  BY DEF PathOf, Name, Key, Role, Query, Header,
    AddGroupMemberParams, CreateGroupParams, DeleteGroupParams, GetGroupParams,
    ListGroupMembersParams, ListGroupsParams, RemoveGroupMemberParams,
    UpdateGroupParams
<1>7. /\ AddGroupMemberResponse \subseteq Sendable
      /\ CreateGroupResponse \subseteq Sendable
      /\ DeleteGroupResponse \subseteq Sendable
      /\ GetGroupResponse \subseteq Sendable
      /\ ListGroupMembersResponse \subseteq Sendable
      /\ ListGroupsResponse \subseteq Sendable
      /\ RemoveGroupMemberResponse \subseteq Sendable
      /\ UpdateGroupResponse \subseteq Sendable
  BY Encoded DEF
    AddGroupMemberResponse, CreateGroupResponse, DeleteGroupResponse,
    GetGroupResponse, ListGroupMembersResponse, ListGroupsResponse,
    RemoveGroupMemberResponse, UpdateGroupResponse
<1>8. /\ Serves("AddGroupMember", "POST", V1("groups") ## Lit(GroupHole) ## Lit("members"), 1)
      /\ Serves("CreateGroup", "POST", V1("groups"), 0)
      /\ Serves("DeleteGroup", "DELETE", V1("groups") ## Lit(GroupHole), 1)
      /\ Serves("GetGroup", "GET", V1("groups") ## Lit(GroupHole), 1)
      /\ Serves("ListGroupMembers", "GET", V1("groups") ## Lit(GroupHole) ## Lit("members"), 1)
      /\ Serves("ListGroups", "GET", V1("groups"), 0)
      /\ Serves("RemoveGroupMember", "DELETE", V1("groups") ## Lit(GroupHole) ## Lit("members") ## Lit(MemberHole), 2)
      /\ Serves("UpdateGroup", "PATCH", V1("groups") ## Lit(GroupHole), 1)
  BY <1>4, <1>5, <1>6, <1>7 DEF Serves
<1>9. Offers([GET |-> "ListGroups", POST |-> "CreateGroup"], V1("groups"), 0)
  BY <1>8 DEF Offers
<1>10. Offers([DELETE |-> "DeleteGroup", GET |-> "GetGroup", PATCH |-> "UpdateGroup"],
             V1("groups") ## Lit(GroupHole), 1)
  BY <1>8 DEF Offers
<1>11. Offers([GET |-> "ListGroupMembers", POST |-> "AddGroupMember"],
             V1("groups") ## Lit(GroupHole) ## Lit("members"), 1)
  BY <1>8 DEF Offers
<1>12. Offers([DELETE |-> "RemoveGroupMember"],
             V1("groups") ## Lit(GroupHole) ## Lit("members") ## Lit(MemberHole), 2)
  BY <1>8 DEF Offers
<1>q. QED
  BY <1>9, <1>10, <1>11, <1>12

LEMMA IamOperations ==
  /\ Offers([POST |-> "GetIamPolicy"], V1("iam") ## Verb("getIamPolicy"), 0)
  /\ Offers([POST |-> "SetIamPolicy"], V1("iam") ## Verb("setIamPolicy"), 0)
  /\ Offers([POST |-> "TestIamPermissions"],
            V1("iam") ## Verb("testIamPermissions"), 0)
<1>1. PICK a, b, c, d, e :
        a = "v1" /\ b = "iam" /\ c = "getIamPolicy" /\ d = "setIamPolicy" /\
        e = "testIamPermissions"
  OBVIOUS
<1>2. /\ RouteOf(<<a, b>>, <<c>>) = <<>> ## Lit(a) ## Lit(b) ## Verb(c)
      /\ RouteOf(<<a, b>>, <<d>>) = <<>> ## Lit(a) ## Lit(b) ## Verb(d)
      /\ RouteOf(<<a, b>>, <<e>>) = <<>> ## Lit(a) ## Lit(b) ## Verb(e)
  BY Routes
<1>3. /\ RouteOf(<<"v1", "iam">>, <<"getIamPolicy">>)
           = V1("iam") ## Verb("getIamPolicy")
      /\ RouteOf(<<"v1", "iam">>, <<"setIamPolicy">>)
           = V1("iam") ## Verb("setIamPolicy")
      /\ RouteOf(<<"v1", "iam">>, <<"testIamPermissions">>)
           = V1("iam") ## Verb("testIamPermissions")
  BY <1>1, <1>2 DEF V1, InProject
<1>4. /\ GetIamPolicy.method = "POST" /\ GetIamPolicy.security = Secured
      /\ GetIamPolicy.params = NoParams
      /\ GetIamPolicy.response = GetIamPolicyResponse
      /\ GetIamPolicy.route = V1("iam") ## Verb("getIamPolicy")
      /\ SetIamPolicy.method = "POST" /\ SetIamPolicy.security = Secured
      /\ SetIamPolicy.params = SetIamPolicyParams
      /\ SetIamPolicy.response = SetIamPolicyResponse
      /\ SetIamPolicy.route = V1("iam") ## Verb("setIamPolicy")
      /\ TestIamPermissions.method = "POST" /\ TestIamPermissions.security = Secured
      /\ TestIamPermissions.params = NoParams
      /\ TestIamPermissions.response = TestIamPermissionsResponse
      /\ TestIamPermissions.route = V1("iam") ## Verb("testIamPermissions")
  BY <1>3 DEF Handler, GetIamPolicy, SetIamPolicy, TestIamPermissions
<1>5. /\ "GetIamPolicy" \in DOMAIN Operation /\ Operation["GetIamPolicy"] = GetIamPolicy
      /\ "SetIamPolicy" \in DOMAIN Operation /\ Operation["SetIamPolicy"] = SetIamPolicy
      /\ "TestIamPermissions" \in DOMAIN Operation /\ Operation["TestIamPermissions"] = TestIamPermissions
  BY DEF Operation
<1>6. /\ PathOf(NoParams) = 1..0
      /\ PathOf(SetIamPolicyParams) = 1..0
  BY DEF PathOf, Name, Key, Role, Query, Header,
    NoParams, SetIamPolicyParams
<1>7. /\ GetIamPolicyResponse \subseteq Sendable
      /\ SetIamPolicyResponse \subseteq Sendable
      /\ TestIamPermissionsResponse \subseteq Sendable
  BY Encoded DEF
    GetIamPolicyResponse, SetIamPolicyResponse, TestIamPermissionsResponse
<1>8. /\ Serves("GetIamPolicy", "POST", V1("iam") ## Verb("getIamPolicy"), 0)
      /\ Serves("SetIamPolicy", "POST", V1("iam") ## Verb("setIamPolicy"), 0)
      /\ Serves("TestIamPermissions", "POST", V1("iam") ## Verb("testIamPermissions"), 0)
  BY <1>4, <1>5, <1>6, <1>7 DEF Serves
<1>9. Offers([POST |-> "GetIamPolicy"], V1("iam") ## Verb("getIamPolicy"), 0)
  BY <1>8 DEF Offers
<1>10. Offers([POST |-> "SetIamPolicy"], V1("iam") ## Verb("setIamPolicy"), 0)
  BY <1>8 DEF Offers
<1>11. Offers([POST |-> "TestIamPermissions"],
             V1("iam") ## Verb("testIamPermissions"), 0)
  BY <1>8 DEF Offers
<1>q. QED
  BY <1>9, <1>10, <1>11

LEMMA IdentityProviderOperations ==
  /\ Offers([GET |-> "ListIdentityProviders"], V1("identityProviders"), 0)
  /\ Offers([DELETE |-> "DeleteIdentityProvider", GET |-> "GetIdentityProvider", PATCH |-> "UpdateIdentityProvider", POST |-> "CreateIdentityProvider"],
            V1("identityProviders") ## Lit(ProviderHole), 1)
  /\ Offers([POST |-> "TestIdentityProvider"],
            V1("identityProviders") ## Lit(ProviderHole) ## Verb("test"), 1)
<1>1. PICK a, b, c, d :
        a = "v1" /\ b = "identityProviders" /\ c = "{idp}" /\ d = "test"
  OBVIOUS
<1>2. /\ RouteOf(<<a, b, c>>, <<>>) = <<>> ## Lit(a) ## Lit(b) ## Lit(c)
      /\ RouteOf(<<a, b>>, <<>>) = <<>> ## Lit(a) ## Lit(b)
      /\ RouteOf(<<a, b, c>>, <<d>>) = <<>> ## Lit(a) ## Lit(b) ## Lit(c) ## Verb(d)
  BY Routes
<1>3. /\ RouteOf(<<"v1", "identityProviders", "{idp}">>, <<>>)
           = V1("identityProviders") ## Lit(ProviderHole)
      /\ RouteOf(<<"v1", "identityProviders">>, <<>>)
           = V1("identityProviders")
      /\ RouteOf(<<"v1", "identityProviders", "{idp}">>, <<"test">>)
           = V1("identityProviders") ## Lit(ProviderHole) ## Verb("test")
  BY <1>1, <1>2 DEF V1, InProject, ProviderHole
<1>4. /\ CreateIdentityProvider.method = "POST" /\ CreateIdentityProvider.security = Secured
      /\ CreateIdentityProvider.params = CreateIdentityProviderParams
      /\ CreateIdentityProvider.response = CreateIdentityProviderResponse
      /\ CreateIdentityProvider.route = V1("identityProviders") ## Lit(ProviderHole)
      /\ DeleteIdentityProvider.method = "DELETE" /\ DeleteIdentityProvider.security = Secured
      /\ DeleteIdentityProvider.params = DeleteIdentityProviderParams
      /\ DeleteIdentityProvider.response = DeleteIdentityProviderResponse
      /\ DeleteIdentityProvider.route = V1("identityProviders") ## Lit(ProviderHole)
      /\ GetIdentityProvider.method = "GET" /\ GetIdentityProvider.security = Secured
      /\ GetIdentityProvider.params = GetIdentityProviderParams
      /\ GetIdentityProvider.response = GetIdentityProviderResponse
      /\ GetIdentityProvider.route = V1("identityProviders") ## Lit(ProviderHole)
      /\ ListIdentityProviders.method = "GET" /\ ListIdentityProviders.security = Open
      /\ ListIdentityProviders.params = NoParams
      /\ ListIdentityProviders.response = ListIdentityProvidersResponse
      /\ ListIdentityProviders.route = V1("identityProviders")
      /\ TestIdentityProvider.method = "POST" /\ TestIdentityProvider.security = Secured
      /\ TestIdentityProvider.params = TestIdentityProviderParams
      /\ TestIdentityProvider.response = TestIdentityProviderResponse
      /\ TestIdentityProvider.route = V1("identityProviders") ## Lit(ProviderHole) ## Verb("test")
      /\ UpdateIdentityProvider.method = "PATCH" /\ UpdateIdentityProvider.security = Secured
      /\ UpdateIdentityProvider.params = UpdateIdentityProviderParams
      /\ UpdateIdentityProvider.response = UpdateIdentityProviderResponse
      /\ UpdateIdentityProvider.route = V1("identityProviders") ## Lit(ProviderHole)
  BY <1>3 DEF Handler, CreateIdentityProvider, DeleteIdentityProvider, GetIdentityProvider,
    ListIdentityProviders, TestIdentityProvider, UpdateIdentityProvider
<1>5. /\ "CreateIdentityProvider" \in DOMAIN Operation /\ Operation["CreateIdentityProvider"] = CreateIdentityProvider
      /\ "DeleteIdentityProvider" \in DOMAIN Operation /\ Operation["DeleteIdentityProvider"] = DeleteIdentityProvider
      /\ "GetIdentityProvider" \in DOMAIN Operation /\ Operation["GetIdentityProvider"] = GetIdentityProvider
      /\ "ListIdentityProviders" \in DOMAIN Operation /\ Operation["ListIdentityProviders"] = ListIdentityProviders
      /\ "TestIdentityProvider" \in DOMAIN Operation /\ Operation["TestIdentityProvider"] = TestIdentityProvider
      /\ "UpdateIdentityProvider" \in DOMAIN Operation /\ Operation["UpdateIdentityProvider"] = UpdateIdentityProvider
  BY DEF Operation
<1>6. /\ PathOf(CreateIdentityProviderParams) = 1..1
      /\ PathOf(DeleteIdentityProviderParams) = 1..1
      /\ PathOf(GetIdentityProviderParams) = 1..1
      /\ PathOf(NoParams) = 1..0
      /\ PathOf(TestIdentityProviderParams) = 1..1
      /\ PathOf(UpdateIdentityProviderParams) = 1..1
  BY DEF PathOf, Name, Key, Role, Query, Header,
    CreateIdentityProviderParams, DeleteIdentityProviderParams,
    GetIdentityProviderParams, NoParams, TestIdentityProviderParams,
    UpdateIdentityProviderParams
<1>7. /\ CreateIdentityProviderResponse \subseteq Sendable
      /\ DeleteIdentityProviderResponse \subseteq Sendable
      /\ GetIdentityProviderResponse \subseteq Sendable
      /\ ListIdentityProvidersResponse \subseteq Sendable
      /\ TestIdentityProviderResponse \subseteq Sendable
      /\ UpdateIdentityProviderResponse \subseteq Sendable
  BY Encoded DEF
    CreateIdentityProviderResponse, DeleteIdentityProviderResponse,
    GetIdentityProviderResponse, ListIdentityProvidersResponse,
    TestIdentityProviderResponse, UpdateIdentityProviderResponse
<1>8. {"ListIdentityProviders"} \cap RolesKnown = {}
  BY DEF RolesKnown
<1>9. /\ Serves("CreateIdentityProvider", "POST", V1("identityProviders") ## Lit(ProviderHole), 1)
      /\ Serves("DeleteIdentityProvider", "DELETE", V1("identityProviders") ## Lit(ProviderHole), 1)
      /\ Serves("GetIdentityProvider", "GET", V1("identityProviders") ## Lit(ProviderHole), 1)
      /\ Serves("ListIdentityProviders", "GET", V1("identityProviders"), 0)
      /\ Serves("TestIdentityProvider", "POST", V1("identityProviders") ## Lit(ProviderHole) ## Verb("test"), 1)
      /\ Serves("UpdateIdentityProvider", "PATCH", V1("identityProviders") ## Lit(ProviderHole), 1)
  BY <1>4, <1>5, <1>6, <1>7, <1>8 DEF Serves
<1>10. Offers([GET |-> "ListIdentityProviders"], V1("identityProviders"), 0)
  BY <1>9 DEF Offers
<1>11. Offers([DELETE |-> "DeleteIdentityProvider", GET |-> "GetIdentityProvider", PATCH |-> "UpdateIdentityProvider", POST |-> "CreateIdentityProvider"],
             V1("identityProviders") ## Lit(ProviderHole), 1)
  BY <1>9 DEF Offers
<1>12. Offers([POST |-> "TestIdentityProvider"],
             V1("identityProviders") ## Lit(ProviderHole) ## Verb("test"), 1)
  BY <1>9 DEF Offers
<1>q. QED
  BY <1>10, <1>11, <1>12

LEMMA ProjectOperations ==
  /\ Offers([GET |-> "ListProjects", POST |-> "CreateProject"], V1("projects"), 0)
  /\ Offers([DELETE |-> "DeleteProject", GET |-> "GetProject", PATCH |-> "UpdateProject"],
            InProject, 1)
  /\ Offers([POST |-> "UndeleteProject"], InProject ## Verb("undelete"), 1)
<1>1. PICK a, b, c, d :
        a = "v1" /\ b = "projects" /\ c = "{project}" /\ d = "undelete"
  OBVIOUS
<1>2. /\ RouteOf(<<a, b>>, <<>>) = <<>> ## Lit(a) ## Lit(b)
      /\ RouteOf(<<a, b, c>>, <<>>) = <<>> ## Lit(a) ## Lit(b) ## Lit(c)
      /\ RouteOf(<<a, b, c>>, <<d>>) = <<>> ## Lit(a) ## Lit(b) ## Lit(c) ## Verb(d)
  BY Routes
<1>3. /\ RouteOf(<<"v1", "projects">>, <<>>)
           = V1("projects")
      /\ RouteOf(<<"v1", "projects", "{project}">>, <<>>)
           = InProject
      /\ RouteOf(<<"v1", "projects", "{project}">>, <<"undelete">>)
           = InProject ## Verb("undelete")
  BY <1>1, <1>2 DEF V1, InProject, ProjectHole
<1>4. /\ CreateProject.method = "POST" /\ CreateProject.security = Secured
      /\ CreateProject.params = CreateProjectParams
      /\ CreateProject.response = CreateProjectResponse
      /\ CreateProject.route = V1("projects")
      /\ DeleteProject.method = "DELETE" /\ DeleteProject.security = Secured
      /\ DeleteProject.params = DeleteProjectParams
      /\ DeleteProject.response = DeleteProjectResponse
      /\ DeleteProject.route = InProject
      /\ GetProject.method = "GET" /\ GetProject.security = Secured
      /\ GetProject.params = GetProjectParams
      /\ GetProject.response = GetProjectResponse
      /\ GetProject.route = InProject
      /\ ListProjects.method = "GET" /\ ListProjects.security = Secured
      /\ ListProjects.params = ListProjectsParams
      /\ ListProjects.response = ListProjectsResponse
      /\ ListProjects.route = V1("projects")
      /\ UndeleteProject.method = "POST" /\ UndeleteProject.security = Secured
      /\ UndeleteProject.params = UndeleteProjectParams
      /\ UndeleteProject.response = UndeleteProjectResponse
      /\ UndeleteProject.route = InProject ## Verb("undelete")
      /\ UpdateProject.method = "PATCH" /\ UpdateProject.security = Secured
      /\ UpdateProject.params = UpdateProjectParams
      /\ UpdateProject.response = UpdateProjectResponse
      /\ UpdateProject.route = InProject
  BY <1>3 DEF Handler, CreateProject, DeleteProject, GetProject, ListProjects, UndeleteProject,
    UpdateProject
<1>5. /\ "CreateProject" \in DOMAIN Operation /\ Operation["CreateProject"] = CreateProject
      /\ "DeleteProject" \in DOMAIN Operation /\ Operation["DeleteProject"] = DeleteProject
      /\ "GetProject" \in DOMAIN Operation /\ Operation["GetProject"] = GetProject
      /\ "ListProjects" \in DOMAIN Operation /\ Operation["ListProjects"] = ListProjects
      /\ "UndeleteProject" \in DOMAIN Operation /\ Operation["UndeleteProject"] = UndeleteProject
      /\ "UpdateProject" \in DOMAIN Operation /\ Operation["UpdateProject"] = UpdateProject
  BY DEF Operation
<1>6. /\ PathOf(CreateProjectParams) = 1..0
      /\ PathOf(DeleteProjectParams) = 1..1
      /\ PathOf(GetProjectParams) = 1..1
      /\ PathOf(ListProjectsParams) = 1..0
      /\ PathOf(UndeleteProjectParams) = 1..1
      /\ PathOf(UpdateProjectParams) = 1..1
  BY DEF PathOf, Name, Key, Role, Query, Header,
    CreateProjectParams, DeleteProjectParams, GetProjectParams, ListProjectsParams,
    UndeleteProjectParams, UpdateProjectParams
<1>7. /\ CreateProjectResponse \subseteq Sendable
      /\ DeleteProjectResponse \subseteq Sendable
      /\ GetProjectResponse \subseteq Sendable
      /\ ListProjectsResponse \subseteq Sendable
      /\ UndeleteProjectResponse \subseteq Sendable
      /\ UpdateProjectResponse \subseteq Sendable
  BY Encoded DEF
    CreateProjectResponse, DeleteProjectResponse, GetProjectResponse,
    ListProjectsResponse, UndeleteProjectResponse, UpdateProjectResponse
<1>8. /\ Serves("CreateProject", "POST", V1("projects"), 0)
      /\ Serves("DeleteProject", "DELETE", InProject, 1)
      /\ Serves("GetProject", "GET", InProject, 1)
      /\ Serves("ListProjects", "GET", V1("projects"), 0)
      /\ Serves("UndeleteProject", "POST", InProject ## Verb("undelete"), 1)
      /\ Serves("UpdateProject", "PATCH", InProject, 1)
  BY <1>4, <1>5, <1>6, <1>7 DEF Serves
<1>9. Offers([GET |-> "ListProjects", POST |-> "CreateProject"], V1("projects"), 0)
  BY <1>8 DEF Offers
<1>10. Offers([DELETE |-> "DeleteProject", GET |-> "GetProject", PATCH |-> "UpdateProject"],
             InProject, 1)
  BY <1>8 DEF Offers
<1>11. Offers([POST |-> "UndeleteProject"], InProject ## Verb("undelete"), 1)
  BY <1>8 DEF Offers
<1>q. QED
  BY <1>9, <1>10, <1>11

LEMMA ExportTaskOperations ==
  /\ Offers([GET |-> "ListExportTasks", POST |-> "CreateExportTask"],
            InProject ## Lit("exportTasks"), 1)
  /\ Offers([GET |-> "GetExportTask"],
            InProject ## Lit("exportTasks") ## Lit(TaskHole), 2)
  /\ Offers([POST |-> "DownloadExportTask"],
            InProject ## Lit("exportTasks") ## Lit(TaskHole) ## Verb("download"), 2)
<1>1. /\ CreateExportTask.method = "POST" /\ CreateExportTask.security = Secured
      /\ CreateExportTask.params = CreateExportTaskParams
      /\ CreateExportTask.response = CreateExportTaskResponse
      /\ CreateExportTask.route = InProject ## Lit("exportTasks")
      /\ DownloadExportTask.method = "POST" /\ DownloadExportTask.security = Secured
      /\ DownloadExportTask.params = DownloadExportTaskParams
      /\ DownloadExportTask.response = DownloadExportTaskResponse
      /\ DownloadExportTask.route = InProject ## Lit("exportTasks") ## Lit(TaskHole) ## Verb("download")
      /\ GetExportTask.method = "GET" /\ GetExportTask.security = Secured
      /\ GetExportTask.params = GetExportTaskParams
      /\ GetExportTask.response = GetExportTaskResponse
      /\ GetExportTask.route = InProject ## Lit("exportTasks") ## Lit(TaskHole)
      /\ ListExportTasks.method = "GET" /\ ListExportTasks.security = Secured
      /\ ListExportTasks.params = ListExportTasksParams
      /\ ListExportTasks.response = ListExportTasksResponse
      /\ ListExportTasks.route = InProject ## Lit("exportTasks")
  BY RoutesInProject DEF Handler, CreateExportTask, DownloadExportTask, GetExportTask, ListExportTasks,
    TaskHole
<1>2. /\ "CreateExportTask" \in DOMAIN Operation /\ Operation["CreateExportTask"] = CreateExportTask
      /\ "DownloadExportTask" \in DOMAIN Operation /\ Operation["DownloadExportTask"] = DownloadExportTask
      /\ "GetExportTask" \in DOMAIN Operation /\ Operation["GetExportTask"] = GetExportTask
      /\ "ListExportTasks" \in DOMAIN Operation /\ Operation["ListExportTasks"] = ListExportTasks
  BY DEF Operation
<1>3. /\ PathOf(CreateExportTaskParams) = 1..1
      /\ PathOf(DownloadExportTaskParams) = 1..2
      /\ PathOf(GetExportTaskParams) = 1..2
      /\ PathOf(ListExportTasksParams) = 1..1
  BY DEF PathOf, Name, Key, Role, Query, Header,
    CreateExportTaskParams, DownloadExportTaskParams, GetExportTaskParams,
    ListExportTasksParams
<1>4. /\ CreateExportTaskResponse \subseteq Sendable
      /\ DownloadExportTaskResponse \subseteq Sendable
      /\ GetExportTaskResponse \subseteq Sendable
      /\ ListExportTasksResponse \subseteq Sendable
  BY Encoded DEF
    CreateExportTaskResponse, DownloadExportTaskResponse, GetExportTaskResponse,
    ListExportTasksResponse
<1>5. /\ Serves("CreateExportTask", "POST", InProject ## Lit("exportTasks"), 1)
      /\ Serves("DownloadExportTask", "POST", InProject ## Lit("exportTasks") ## Lit(TaskHole) ## Verb("download"), 2)
      /\ Serves("GetExportTask", "GET", InProject ## Lit("exportTasks") ## Lit(TaskHole), 2)
      /\ Serves("ListExportTasks", "GET", InProject ## Lit("exportTasks"), 1)
  BY <1>1, <1>2, <1>3, <1>4 DEF Serves
<1>6. Offers([GET |-> "ListExportTasks", POST |-> "CreateExportTask"],
             InProject ## Lit("exportTasks"), 1)
  BY <1>5 DEF Offers
<1>7. Offers([GET |-> "GetExportTask"],
             InProject ## Lit("exportTasks") ## Lit(TaskHole), 2)
  BY <1>5 DEF Offers
<1>8. Offers([POST |-> "DownloadExportTask"],
             InProject ## Lit("exportTasks") ## Lit(TaskHole) ## Verb("download"), 2)
  BY <1>5 DEF Offers
<1>q. QED
  BY <1>6, <1>7, <1>8

LEMMA InstanceOperations ==
  /\ Offers([POST |-> "SyncInstance"], InInstance ## Verb("sync"), 2)
  /\ Offers([POST |-> "TestInstanceConnection"],
            InInstance ## Verb("testConnection"), 2)
  /\ Offers([GET |-> "ListInstances", POST |-> "CreateInstance"],
            InProject ## Lit("instances"), 1)
  /\ Offers([DELETE |-> "DeleteInstance", GET |-> "GetInstance", PATCH |-> "UpdateInstance"],
            InInstance, 2)
<1>1. /\ CreateInstance.method = "POST" /\ CreateInstance.security = Secured
      /\ CreateInstance.params = CreateInstanceParams
      /\ CreateInstance.response = CreateInstanceResponse
      /\ CreateInstance.route = InProject ## Lit("instances")
      /\ DeleteInstance.method = "DELETE" /\ DeleteInstance.security = Secured
      /\ DeleteInstance.params = DeleteInstanceParams
      /\ DeleteInstance.response = DeleteInstanceResponse
      /\ DeleteInstance.route = InInstance
      /\ GetInstance.method = "GET" /\ GetInstance.security = Secured
      /\ GetInstance.params = GetInstanceParams
      /\ GetInstance.response = GetInstanceResponse
      /\ GetInstance.route = InInstance
      /\ ListInstances.method = "GET" /\ ListInstances.security = Secured
      /\ ListInstances.params = ListInstancesParams
      /\ ListInstances.response = ListInstancesResponse
      /\ ListInstances.route = InProject ## Lit("instances")
      /\ SyncInstance.method = "POST" /\ SyncInstance.security = Secured
      /\ SyncInstance.params = SyncInstanceParams
      /\ SyncInstance.response = SyncInstanceResponse
      /\ SyncInstance.route = InInstance ## Verb("sync")
      /\ TestInstanceConnection.method = "POST" /\ TestInstanceConnection.security = Secured
      /\ TestInstanceConnection.params = TestInstanceConnectionParams
      /\ TestInstanceConnection.response = TestInstanceConnectionResponse
      /\ TestInstanceConnection.route = InInstance ## Verb("testConnection")
      /\ UpdateInstance.method = "PATCH" /\ UpdateInstance.security = Secured
      /\ UpdateInstance.params = UpdateInstanceParams
      /\ UpdateInstance.response = UpdateInstanceResponse
      /\ UpdateInstance.route = InInstance
  BY RoutesInProject DEF Handler, CreateInstance, DeleteInstance, GetInstance, ListInstances, SyncInstance,
    TestInstanceConnection, UpdateInstance, InInstance, InstanceHole
<1>2. /\ "CreateInstance" \in DOMAIN Operation /\ Operation["CreateInstance"] = CreateInstance
      /\ "DeleteInstance" \in DOMAIN Operation /\ Operation["DeleteInstance"] = DeleteInstance
      /\ "GetInstance" \in DOMAIN Operation /\ Operation["GetInstance"] = GetInstance
      /\ "ListInstances" \in DOMAIN Operation /\ Operation["ListInstances"] = ListInstances
      /\ "SyncInstance" \in DOMAIN Operation /\ Operation["SyncInstance"] = SyncInstance
      /\ "TestInstanceConnection" \in DOMAIN Operation /\ Operation["TestInstanceConnection"] = TestInstanceConnection
      /\ "UpdateInstance" \in DOMAIN Operation /\ Operation["UpdateInstance"] = UpdateInstance
  BY DEF Operation
<1>3. /\ PathOf(CreateInstanceParams) = 1..1
      /\ PathOf(DeleteInstanceParams) = 1..2
      /\ PathOf(GetInstanceParams) = 1..2
      /\ PathOf(ListInstancesParams) = 1..1
      /\ PathOf(SyncInstanceParams) = 1..2
      /\ PathOf(TestInstanceConnectionParams) = 1..2
      /\ PathOf(UpdateInstanceParams) = 1..2
  BY DEF PathOf, Name, Key, Role, Query, Header,
    CreateInstanceParams, DeleteInstanceParams, GetInstanceParams,
    ListInstancesParams, SyncInstanceParams, TestInstanceConnectionParams,
    UpdateInstanceParams
<1>4. /\ CreateInstanceResponse \subseteq Sendable
      /\ DeleteInstanceResponse \subseteq Sendable
      /\ GetInstanceResponse \subseteq Sendable
      /\ ListInstancesResponse \subseteq Sendable
      /\ SyncInstanceResponse \subseteq Sendable
      /\ TestInstanceConnectionResponse \subseteq Sendable
      /\ UpdateInstanceResponse \subseteq Sendable
  BY Encoded DEF
    CreateInstanceResponse, DeleteInstanceResponse, GetInstanceResponse,
    ListInstancesResponse, SyncInstanceResponse, TestInstanceConnectionResponse,
    UpdateInstanceResponse
<1>5. /\ Serves("CreateInstance", "POST", InProject ## Lit("instances"), 1)
      /\ Serves("DeleteInstance", "DELETE", InInstance, 2)
      /\ Serves("GetInstance", "GET", InInstance, 2)
      /\ Serves("ListInstances", "GET", InProject ## Lit("instances"), 1)
      /\ Serves("SyncInstance", "POST", InInstance ## Verb("sync"), 2)
      /\ Serves("TestInstanceConnection", "POST", InInstance ## Verb("testConnection"), 2)
      /\ Serves("UpdateInstance", "PATCH", InInstance, 2)
  BY <1>1, <1>2, <1>3, <1>4 DEF Serves
<1>6. Offers([POST |-> "SyncInstance"], InInstance ## Verb("sync"), 2)
  BY <1>5 DEF Offers
<1>7. Offers([POST |-> "TestInstanceConnection"],
             InInstance ## Verb("testConnection"), 2)
  BY <1>5 DEF Offers
<1>8. Offers([GET |-> "ListInstances", POST |-> "CreateInstance"],
             InProject ## Lit("instances"), 1)
  BY <1>5 DEF Offers
<1>9. Offers([DELETE |-> "DeleteInstance", GET |-> "GetInstance", PATCH |-> "UpdateInstance"],
             InInstance, 2)
  BY <1>5 DEF Offers
<1>q. QED
  BY <1>6, <1>7, <1>8, <1>9

LEMMA DataSourceOperations ==
  /\ Offers([DELETE |-> "DeleteDataSource", PATCH |-> "UpdateDataSource", POST |-> "CreateDataSource"],
            InInstance ## Lit("dataSources") ## Lit(DataSourceHole), 3)
<1>1. /\ CreateDataSource.method = "POST" /\ CreateDataSource.security = Secured
      /\ CreateDataSource.params = CreateDataSourceParams
      /\ CreateDataSource.response = CreateDataSourceResponse
      /\ CreateDataSource.route = InInstance ## Lit("dataSources") ## Lit(DataSourceHole)
      /\ DeleteDataSource.method = "DELETE" /\ DeleteDataSource.security = Secured
      /\ DeleteDataSource.params = DeleteDataSourceParams
      /\ DeleteDataSource.response = DeleteDataSourceResponse
      /\ DeleteDataSource.route = InInstance ## Lit("dataSources") ## Lit(DataSourceHole)
      /\ UpdateDataSource.method = "PATCH" /\ UpdateDataSource.security = Secured
      /\ UpdateDataSource.params = UpdateDataSourceParams
      /\ UpdateDataSource.response = UpdateDataSourceResponse
      /\ UpdateDataSource.route = InInstance ## Lit("dataSources") ## Lit(DataSourceHole)
  BY RoutesInInstance DEF Handler, CreateDataSource, DeleteDataSource, UpdateDataSource, DataSourceHole
<1>2. /\ "CreateDataSource" \in DOMAIN Operation /\ Operation["CreateDataSource"] = CreateDataSource
      /\ "DeleteDataSource" \in DOMAIN Operation /\ Operation["DeleteDataSource"] = DeleteDataSource
      /\ "UpdateDataSource" \in DOMAIN Operation /\ Operation["UpdateDataSource"] = UpdateDataSource
  BY DEF Operation
<1>3. /\ PathOf(CreateDataSourceParams) = 1..3
      /\ PathOf(DeleteDataSourceParams) = 1..3
      /\ PathOf(UpdateDataSourceParams) = 1..3
  BY DEF PathOf, Name, Key, Role, Query, Header,
    CreateDataSourceParams, DeleteDataSourceParams, UpdateDataSourceParams
<1>4. /\ CreateDataSourceResponse \subseteq Sendable
      /\ DeleteDataSourceResponse \subseteq Sendable
      /\ UpdateDataSourceResponse \subseteq Sendable
  BY Encoded DEF
    CreateDataSourceResponse, DeleteDataSourceResponse, UpdateDataSourceResponse
<1>5. /\ Serves("CreateDataSource", "POST", InInstance ## Lit("dataSources") ## Lit(DataSourceHole), 3)
      /\ Serves("DeleteDataSource", "DELETE", InInstance ## Lit("dataSources") ## Lit(DataSourceHole), 3)
      /\ Serves("UpdateDataSource", "PATCH", InInstance ## Lit("dataSources") ## Lit(DataSourceHole), 3)
  BY <1>1, <1>2, <1>3, <1>4 DEF Serves
<1>6. Offers([DELETE |-> "DeleteDataSource", PATCH |-> "UpdateDataSource", POST |-> "CreateDataSource"],
             InInstance ## Lit("dataSources") ## Lit(DataSourceHole), 3)
  BY <1>5 DEF Offers
<1>q. QED
  BY <1>6

LEMMA DatabaseOperations ==
  /\ Offers([POST |-> "SqlExport"],
            InInstance ## Lit("databases") ## Lit(DatabaseHole) ## Verb("export"), 3)
  /\ Offers([POST |-> "SqlQuery"],
            InInstance ## Lit("databases") ## Lit(DatabaseHole) ## Verb("query"), 3)
  /\ Offers([POST |-> "SyncDatabaseSchema"],
            InInstance ## Lit("databases") ## Lit(DatabaseHole) ## Verb("syncSchema"), 3)
  /\ Offers([GET |-> "ListDatabases"], InInstance ## Lit("databases"), 2)
  /\ Offers([GET |-> "GetDatabase", PATCH |-> "UpdateDatabase"],
            InInstance ## Lit("databases") ## Lit(DatabaseHole), 3)
<1>1. /\ GetDatabase.method = "GET" /\ GetDatabase.security = Secured
      /\ GetDatabase.params = GetDatabaseParams
      /\ GetDatabase.response = GetDatabaseResponse
      /\ GetDatabase.route = InInstance ## Lit("databases") ## Lit(DatabaseHole)
      /\ ListDatabases.method = "GET" /\ ListDatabases.security = Secured
      /\ ListDatabases.params = ListDatabasesParams
      /\ ListDatabases.response = ListDatabasesResponse
      /\ ListDatabases.route = InInstance ## Lit("databases")
      /\ SqlExport.method = "POST" /\ SqlExport.security = Secured
      /\ SqlExport.params = SqlExportParams
      /\ SqlExport.response = SqlExportResponse
      /\ SqlExport.route = InInstance ## Lit("databases") ## Lit(DatabaseHole) ## Verb("export")
      /\ SqlQuery.method = "POST" /\ SqlQuery.security = Secured
      /\ SqlQuery.params = SqlQueryParams
      /\ SqlQuery.response = SqlQueryResponse
      /\ SqlQuery.route = InInstance ## Lit("databases") ## Lit(DatabaseHole) ## Verb("query")
      /\ SyncDatabaseSchema.method = "POST" /\ SyncDatabaseSchema.security = Secured
      /\ SyncDatabaseSchema.params = SyncDatabaseSchemaParams
      /\ SyncDatabaseSchema.response = SyncDatabaseSchemaResponse
      /\ SyncDatabaseSchema.route = InInstance ## Lit("databases") ## Lit(DatabaseHole) ## Verb("syncSchema")
      /\ UpdateDatabase.method = "PATCH" /\ UpdateDatabase.security = Secured
      /\ UpdateDatabase.params = UpdateDatabaseParams
      /\ UpdateDatabase.response = UpdateDatabaseResponse
      /\ UpdateDatabase.route = InInstance ## Lit("databases") ## Lit(DatabaseHole)
  BY RoutesInInstance DEF Handler, GetDatabase, ListDatabases, SqlExport, SqlQuery, SyncDatabaseSchema,
    UpdateDatabase, DatabaseHole
<1>2. /\ "GetDatabase" \in DOMAIN Operation /\ Operation["GetDatabase"] = GetDatabase
      /\ "ListDatabases" \in DOMAIN Operation /\ Operation["ListDatabases"] = ListDatabases
      /\ "SqlExport" \in DOMAIN Operation /\ Operation["SqlExport"] = SqlExport
      /\ "SqlQuery" \in DOMAIN Operation /\ Operation["SqlQuery"] = SqlQuery
      /\ "SyncDatabaseSchema" \in DOMAIN Operation /\ Operation["SyncDatabaseSchema"] = SyncDatabaseSchema
      /\ "UpdateDatabase" \in DOMAIN Operation /\ Operation["UpdateDatabase"] = UpdateDatabase
  BY DEF Operation
<1>3. /\ PathOf(GetDatabaseParams) = 1..3
      /\ PathOf(ListDatabasesParams) = 1..2
      /\ PathOf(SqlExportParams) = 1..3
      /\ PathOf(SqlQueryParams) = 1..3
      /\ PathOf(SyncDatabaseSchemaParams) = 1..3
      /\ PathOf(UpdateDatabaseParams) = 1..3
  BY DEF PathOf, Name, Key, Role, Query, Header,
    GetDatabaseParams, ListDatabasesParams, SqlExportParams, SqlQueryParams,
    SyncDatabaseSchemaParams, UpdateDatabaseParams
<1>4. /\ GetDatabaseResponse \subseteq Sendable
      /\ ListDatabasesResponse \subseteq Sendable
      /\ SqlExportResponse \subseteq Sendable
      /\ SqlQueryResponse \subseteq Sendable
      /\ SyncDatabaseSchemaResponse \subseteq Sendable
      /\ UpdateDatabaseResponse \subseteq Sendable
  BY Encoded DEF
    GetDatabaseResponse, ListDatabasesResponse, SqlExportResponse, SqlQueryResponse,
    SyncDatabaseSchemaResponse, UpdateDatabaseResponse
<1>5. /\ Serves("GetDatabase", "GET", InInstance ## Lit("databases") ## Lit(DatabaseHole), 3)
      /\ Serves("ListDatabases", "GET", InInstance ## Lit("databases"), 2)
      /\ Serves("SqlExport", "POST", InInstance ## Lit("databases") ## Lit(DatabaseHole) ## Verb("export"), 3)
      /\ Serves("SqlQuery", "POST", InInstance ## Lit("databases") ## Lit(DatabaseHole) ## Verb("query"), 3)
      /\ Serves("SyncDatabaseSchema", "POST", InInstance ## Lit("databases") ## Lit(DatabaseHole) ## Verb("syncSchema"), 3)
      /\ Serves("UpdateDatabase", "PATCH", InInstance ## Lit("databases") ## Lit(DatabaseHole), 3)
  BY <1>1, <1>2, <1>3, <1>4 DEF Serves
<1>6. Offers([POST |-> "SqlExport"],
             InInstance ## Lit("databases") ## Lit(DatabaseHole) ## Verb("export"), 3)
  BY <1>5 DEF Offers
<1>7. Offers([POST |-> "SqlQuery"],
             InInstance ## Lit("databases") ## Lit(DatabaseHole) ## Verb("query"), 3)
  BY <1>5 DEF Offers
<1>8. Offers([POST |-> "SyncDatabaseSchema"],
             InInstance ## Lit("databases") ## Lit(DatabaseHole) ## Verb("syncSchema"), 3)
  BY <1>5 DEF Offers
<1>9. Offers([GET |-> "ListDatabases"], InInstance ## Lit("databases"), 2)
  BY <1>5 DEF Offers
<1>10. Offers([GET |-> "GetDatabase", PATCH |-> "UpdateDatabase"],
             InInstance ## Lit("databases") ## Lit(DatabaseHole), 3)
  BY <1>5 DEF Offers
<1>q. QED
  BY <1>6, <1>7, <1>8, <1>9, <1>10

LEMMA WorksheetOperations ==
  /\ Offers([POST |-> "FavoriteWorksheet"],
            InProject ## Lit("worksheets") ## Lit(WorksheetHole) ## Verb("favorite"), 2)
  /\ Offers([POST |-> "UnfavoriteWorksheet"],
            InProject ## Lit("worksheets") ## Lit(WorksheetHole) ## Verb("unfavorite"), 2)
  /\ Offers([POST |-> "CreateWorksheet"], InProject ## Lit("worksheets"), 1)
  /\ Offers([GET |-> "SearchWorksheets"],
            InProject ## Lit("worksheets") ## Verb("search"), 1)
  /\ Offers([DELETE |-> "DeleteWorksheet", GET |-> "GetWorksheet", PATCH |-> "UpdateWorksheet"],
            InProject ## Lit("worksheets") ## Lit(WorksheetHole), 2)
<1>1. /\ CreateWorksheet.method = "POST" /\ CreateWorksheet.security = Secured
      /\ CreateWorksheet.params = CreateWorksheetParams
      /\ CreateWorksheet.response = CreateWorksheetResponse
      /\ CreateWorksheet.route = InProject ## Lit("worksheets")
      /\ DeleteWorksheet.method = "DELETE" /\ DeleteWorksheet.security = Secured
      /\ DeleteWorksheet.params = DeleteWorksheetParams
      /\ DeleteWorksheet.response = DeleteWorksheetResponse
      /\ DeleteWorksheet.route = InProject ## Lit("worksheets") ## Lit(WorksheetHole)
      /\ FavoriteWorksheet.method = "POST" /\ FavoriteWorksheet.security = Secured
      /\ FavoriteWorksheet.params = FavoriteWorksheetParams
      /\ FavoriteWorksheet.response = FavoriteWorksheetResponse
      /\ FavoriteWorksheet.route = InProject ## Lit("worksheets") ## Lit(WorksheetHole) ## Verb("favorite")
      /\ GetWorksheet.method = "GET" /\ GetWorksheet.security = Secured
      /\ GetWorksheet.params = GetWorksheetParams
      /\ GetWorksheet.response = GetWorksheetResponse
      /\ GetWorksheet.route = InProject ## Lit("worksheets") ## Lit(WorksheetHole)
      /\ SearchWorksheets.method = "GET" /\ SearchWorksheets.security = Secured
      /\ SearchWorksheets.params = SearchWorksheetsParams
      /\ SearchWorksheets.response = SearchWorksheetsResponse
      /\ SearchWorksheets.route = InProject ## Lit("worksheets") ## Verb("search")
      /\ UnfavoriteWorksheet.method = "POST" /\ UnfavoriteWorksheet.security = Secured
      /\ UnfavoriteWorksheet.params = UnfavoriteWorksheetParams
      /\ UnfavoriteWorksheet.response = UnfavoriteWorksheetResponse
      /\ UnfavoriteWorksheet.route = InProject ## Lit("worksheets") ## Lit(WorksheetHole) ## Verb("unfavorite")
      /\ UpdateWorksheet.method = "PATCH" /\ UpdateWorksheet.security = Secured
      /\ UpdateWorksheet.params = UpdateWorksheetParams
      /\ UpdateWorksheet.response = UpdateWorksheetResponse
      /\ UpdateWorksheet.route = InProject ## Lit("worksheets") ## Lit(WorksheetHole)
  BY RoutesInProject DEF Handler, CreateWorksheet, DeleteWorksheet, FavoriteWorksheet, GetWorksheet,
    SearchWorksheets, UnfavoriteWorksheet, UpdateWorksheet, WorksheetHole
<1>2. /\ "CreateWorksheet" \in DOMAIN Operation /\ Operation["CreateWorksheet"] = CreateWorksheet
      /\ "DeleteWorksheet" \in DOMAIN Operation /\ Operation["DeleteWorksheet"] = DeleteWorksheet
      /\ "FavoriteWorksheet" \in DOMAIN Operation /\ Operation["FavoriteWorksheet"] = FavoriteWorksheet
      /\ "GetWorksheet" \in DOMAIN Operation /\ Operation["GetWorksheet"] = GetWorksheet
      /\ "SearchWorksheets" \in DOMAIN Operation /\ Operation["SearchWorksheets"] = SearchWorksheets
      /\ "UnfavoriteWorksheet" \in DOMAIN Operation /\ Operation["UnfavoriteWorksheet"] = UnfavoriteWorksheet
      /\ "UpdateWorksheet" \in DOMAIN Operation /\ Operation["UpdateWorksheet"] = UpdateWorksheet
  BY DEF Operation
<1>3. /\ PathOf(CreateWorksheetParams) = 1..1
      /\ PathOf(DeleteWorksheetParams) = 1..2
      /\ PathOf(FavoriteWorksheetParams) = 1..2
      /\ PathOf(GetWorksheetParams) = 1..2
      /\ PathOf(SearchWorksheetsParams) = 1..1
      /\ PathOf(UnfavoriteWorksheetParams) = 1..2
      /\ PathOf(UpdateWorksheetParams) = 1..2
  BY DEF PathOf, Name, Key, Role, Query, Header,
    CreateWorksheetParams, DeleteWorksheetParams, FavoriteWorksheetParams,
    GetWorksheetParams, SearchWorksheetsParams, UnfavoriteWorksheetParams,
    UpdateWorksheetParams
<1>4. /\ CreateWorksheetResponse \subseteq Sendable
      /\ DeleteWorksheetResponse \subseteq Sendable
      /\ FavoriteWorksheetResponse \subseteq Sendable
      /\ GetWorksheetResponse \subseteq Sendable
      /\ SearchWorksheetsResponse \subseteq Sendable
      /\ UnfavoriteWorksheetResponse \subseteq Sendable
      /\ UpdateWorksheetResponse \subseteq Sendable
  BY Encoded DEF
    CreateWorksheetResponse, DeleteWorksheetResponse, FavoriteWorksheetResponse,
    GetWorksheetResponse, SearchWorksheetsResponse, UnfavoriteWorksheetResponse,
    UpdateWorksheetResponse
<1>5. /\ Serves("CreateWorksheet", "POST", InProject ## Lit("worksheets"), 1)
      /\ Serves("DeleteWorksheet", "DELETE", InProject ## Lit("worksheets") ## Lit(WorksheetHole), 2)
      /\ Serves("FavoriteWorksheet", "POST", InProject ## Lit("worksheets") ## Lit(WorksheetHole) ## Verb("favorite"), 2)
      /\ Serves("GetWorksheet", "GET", InProject ## Lit("worksheets") ## Lit(WorksheetHole), 2)
      /\ Serves("SearchWorksheets", "GET", InProject ## Lit("worksheets") ## Verb("search"), 1)
      /\ Serves("UnfavoriteWorksheet", "POST", InProject ## Lit("worksheets") ## Lit(WorksheetHole) ## Verb("unfavorite"), 2)
      /\ Serves("UpdateWorksheet", "PATCH", InProject ## Lit("worksheets") ## Lit(WorksheetHole), 2)
  BY <1>1, <1>2, <1>3, <1>4 DEF Serves
<1>6. Offers([POST |-> "FavoriteWorksheet"],
             InProject ## Lit("worksheets") ## Lit(WorksheetHole) ## Verb("favorite"), 2)
  BY <1>5 DEF Offers
<1>7. Offers([POST |-> "UnfavoriteWorksheet"],
             InProject ## Lit("worksheets") ## Lit(WorksheetHole) ## Verb("unfavorite"), 2)
  BY <1>5 DEF Offers
<1>8. Offers([POST |-> "CreateWorksheet"], InProject ## Lit("worksheets"), 1)
  BY <1>5 DEF Offers
<1>9. Offers([GET |-> "SearchWorksheets"],
             InProject ## Lit("worksheets") ## Verb("search"), 1)
  BY <1>5 DEF Offers
<1>10. Offers([DELETE |-> "DeleteWorksheet", GET |-> "GetWorksheet", PATCH |-> "UpdateWorksheet"],
             InProject ## Lit("worksheets") ## Lit(WorksheetHole), 2)
  BY <1>5 DEF Offers
<1>q. QED
  BY <1>6, <1>7, <1>8, <1>9, <1>10

LEMMA QueryHistoryOperations ==
  /\ Offers([GET |-> "QueryHistoriesSearch"],
            V1("queryHistories") ## Verb("search"), 0)
<1>1. PICK a, b, c :
        a = "v1" /\ b = "queryHistories" /\ c = "search"
  OBVIOUS
<1>2. /\ RouteOf(<<a, b>>, <<c>>) = <<>> ## Lit(a) ## Lit(b) ## Verb(c)
  BY Routes
<1>3. /\ RouteOf(<<"v1", "queryHistories">>, <<"search">>)
           = V1("queryHistories") ## Verb("search")
  BY <1>1, <1>2 DEF V1, InProject
<1>4. /\ QueryHistoriesSearch.method = "GET" /\ QueryHistoriesSearch.security = Secured
      /\ QueryHistoriesSearch.params = QueryHistoriesSearchParams
      /\ QueryHistoriesSearch.response = QueryHistoriesSearchResponse
      /\ QueryHistoriesSearch.route = V1("queryHistories") ## Verb("search")
  BY <1>3 DEF Handler, QueryHistoriesSearch
<1>5. /\ "QueryHistoriesSearch" \in DOMAIN Operation /\ Operation["QueryHistoriesSearch"] = QueryHistoriesSearch
  BY DEF Operation
<1>6. /\ PathOf(QueryHistoriesSearchParams) = 1..0
  BY DEF PathOf, Name, Key, Role, Query, Header,
    QueryHistoriesSearchParams
<1>7. /\ QueryHistoriesSearchResponse \subseteq Sendable
  BY Encoded DEF
    QueryHistoriesSearchResponse
<1>8. /\ Serves("QueryHistoriesSearch", "GET", V1("queryHistories") ## Verb("search"), 0)
  BY <1>4, <1>5, <1>6, <1>7 DEF Serves
<1>9. Offers([GET |-> "QueryHistoriesSearch"],
             V1("queryHistories") ## Verb("search"), 0)
  BY <1>8 DEF Offers
<1>q. QED
  BY <1>9

LEMMA SettingOperations ==
  /\ Offers([GET |-> "GetSetting", PATCH |-> "UpdateSetting"],
            V1("settings") ## Lit(SettingHole), 1)
<1>1. PICK a, b, c :
        a = "v1" /\ b = "settings" /\ c = "{key}"
  OBVIOUS
<1>2. /\ RouteOf(<<a, b, c>>, <<>>) = <<>> ## Lit(a) ## Lit(b) ## Lit(c)
  BY Routes
<1>3. /\ RouteOf(<<"v1", "settings", "{key}">>, <<>>)
           = V1("settings") ## Lit(SettingHole)
  BY <1>1, <1>2 DEF V1, InProject, SettingHole
<1>4. /\ GetSetting.method = "GET" /\ GetSetting.security = Secured
      /\ GetSetting.params = GetSettingParams
      /\ GetSetting.response = GetSettingResponse
      /\ GetSetting.route = V1("settings") ## Lit(SettingHole)
      /\ UpdateSetting.method = "PATCH" /\ UpdateSetting.security = Secured
      /\ UpdateSetting.params = UpdateSettingParams
      /\ UpdateSetting.response = UpdateSettingResponse
      /\ UpdateSetting.route = V1("settings") ## Lit(SettingHole)
  BY <1>3 DEF Handler, GetSetting, UpdateSetting
<1>5. /\ "GetSetting" \in DOMAIN Operation /\ Operation["GetSetting"] = GetSetting
      /\ "UpdateSetting" \in DOMAIN Operation /\ Operation["UpdateSetting"] = UpdateSetting
  BY DEF Operation
<1>6. /\ PathOf(GetSettingParams) = 1..1
      /\ PathOf(UpdateSettingParams) = 1..1
  BY DEF PathOf, Name, Key, Role, Query, Header,
    GetSettingParams, UpdateSettingParams
<1>7. /\ GetSettingResponse \subseteq Sendable
      /\ UpdateSettingResponse \subseteq Sendable
  BY Encoded DEF
    GetSettingResponse, UpdateSettingResponse
<1>8. /\ Serves("GetSetting", "GET", V1("settings") ## Lit(SettingHole), 1)
      /\ Serves("UpdateSetting", "PATCH", V1("settings") ## Lit(SettingHole), 1)
  BY <1>4, <1>5, <1>6, <1>7 DEF Serves
<1>9. Offers([GET |-> "GetSetting", PATCH |-> "UpdateSetting"],
             V1("settings") ## Lit(SettingHole), 1)
  BY <1>8 DEF Offers
<1>q. QED
  BY <1>9

LEMMA UserOperations ==
  /\ Offers([GET |-> "ListMyNotifications"],
            V1("users") ## Lit("me") ## Lit("notifications"), 0)
  /\ Offers([POST |-> "MarkNotificationRead"],
            V1("users") ## Lit("me") ## Lit("notifications") ## Lit(NotificationHole) ## Verb("markRead"), 1)
  /\ Offers([POST |-> "MarkAllNotificationsRead"],
            V1("users") ## Lit("me") ## Lit("notifications") ## Verb("markAllRead"), 0)
  /\ Offers([GET |-> "GetUnreadNotificationCount"],
            V1("users") ## Lit("me") ## Lit("notifications") ## Verb("unreadCount"), 0)
  /\ Offers([GET |-> "ListMyFavorites"],
            V1("users") ## Lit("me") ## Lit("favorites"), 0)
  /\ Offers([POST |-> "RegenerateMyMfa"],
            V1("users") ## Lit("me") ## Verb("mfa") ## Verb("regenerate"), 0)
  /\ Offers([POST |-> "ChangeMyPassword"],
            V1("users") ## Lit("me") ## Verb("password"), 0)
  /\ Offers([DELETE |-> "DeleteUser", GET |-> "GetUser", PATCH |-> "UpdateUser"],
            V1("users") ## Lit(UserHole), 1)
  /\ Offers([POST |-> "UndeleteUser"],
            V1("users") ## Lit(UserHole) ## Verb("undelete"), 1)
  /\ Offers([GET |-> "ListUsers", POST |-> "CreateUser"], V1("users"), 0)
<1>1. PICK a, b, c, d, e, f, g, h, i, j, k, l, m, n :
        a = "v1" /\ b = "users" /\ c = "me" /\ d = "password" /\ e = "{user}" /\
        f = "notifications" /\ g = "unreadCount" /\ h = "favorites" /\ i = "markAllRead" /\
        j = "{id}" /\ k = "markRead" /\ l = "mfa" /\ m = "regenerate" /\ n = "undelete"
  OBVIOUS
<1>2. /\ RouteOf(<<a, b, c>>, <<d>>) = <<>> ## Lit(a) ## Lit(b) ## Lit(c) ## Verb(d)
      /\ RouteOf(<<a, b>>, <<>>) = <<>> ## Lit(a) ## Lit(b)
      /\ RouteOf(<<a, b, e>>, <<>>) = <<>> ## Lit(a) ## Lit(b) ## Lit(e)
      /\ RouteOf(<<a, b, c, f>>, <<g>>) = <<>> ## Lit(a) ## Lit(b) ## Lit(c) ## Lit(f) ## Verb(g)
      /\ RouteOf(<<a, b, c, h>>, <<>>) = <<>> ## Lit(a) ## Lit(b) ## Lit(c) ## Lit(h)
      /\ RouteOf(<<a, b, c, f>>, <<>>) = <<>> ## Lit(a) ## Lit(b) ## Lit(c) ## Lit(f)
      /\ RouteOf(<<a, b, c, f>>, <<i>>) = <<>> ## Lit(a) ## Lit(b) ## Lit(c) ## Lit(f) ## Verb(i)
      /\ RouteOf(<<a, b, c, f, j>>, <<k>>) = <<>> ## Lit(a) ## Lit(b) ## Lit(c) ## Lit(f) ## Lit(j) ## Verb(k)
      /\ RouteOf(<<a, b, c>>, <<l, m>>) = <<>> ## Lit(a) ## Lit(b) ## Lit(c) ## Verb(l) ## Verb(m)
      /\ RouteOf(<<a, b, e>>, <<n>>) = <<>> ## Lit(a) ## Lit(b) ## Lit(e) ## Verb(n)
  BY Routes
<1>3. /\ RouteOf(<<"v1", "users", "me">>, <<"password">>)
           = V1("users") ## Lit("me") ## Verb("password")
      /\ RouteOf(<<"v1", "users">>, <<>>)
           = V1("users")
      /\ RouteOf(<<"v1", "users", "{user}">>, <<>>)
           = V1("users") ## Lit(UserHole)
      /\ RouteOf(<<"v1", "users", "me", "notifications">>, <<"unreadCount">>)
           = V1("users") ## Lit("me") ## Lit("notifications") ## Verb("unreadCount")
      /\ RouteOf(<<"v1", "users", "me", "favorites">>, <<>>)
           = V1("users") ## Lit("me") ## Lit("favorites")
      /\ RouteOf(<<"v1", "users", "me", "notifications">>, <<>>)
           = V1("users") ## Lit("me") ## Lit("notifications")
      /\ RouteOf(<<"v1", "users", "me", "notifications">>, <<"markAllRead">>)
           = V1("users") ## Lit("me") ## Lit("notifications") ## Verb("markAllRead")
      /\ RouteOf(<<"v1", "users", "me", "notifications", "{id}">>, <<"markRead">>)
           = V1("users") ## Lit("me") ## Lit("notifications") ## Lit(NotificationHole) ## Verb("markRead")
      /\ RouteOf(<<"v1", "users", "me">>, <<"mfa", "regenerate">>)
           = V1("users") ## Lit("me") ## Verb("mfa") ## Verb("regenerate")
      /\ RouteOf(<<"v1", "users", "{user}">>, <<"undelete">>)
           = V1("users") ## Lit(UserHole) ## Verb("undelete")
  BY <1>1, <1>2 DEF V1, InProject, UserHole, NotificationHole
<1>4. /\ ChangeMyPassword.method = "POST" /\ ChangeMyPassword.security = Secured
      /\ ChangeMyPassword.params = ChangeMyPasswordParams
      /\ ChangeMyPassword.response = ChangeMyPasswordResponse
      /\ ChangeMyPassword.route = V1("users") ## Lit("me") ## Verb("password")
      /\ CreateUser.method = "POST" /\ CreateUser.security = Secured
      /\ CreateUser.params = CreateUserParams
      /\ CreateUser.response = CreateUserResponse
      /\ CreateUser.route = V1("users")
      /\ DeleteUser.method = "DELETE" /\ DeleteUser.security = Secured
      /\ DeleteUser.params = DeleteUserParams
      /\ DeleteUser.response = DeleteUserResponse
      /\ DeleteUser.route = V1("users") ## Lit(UserHole)
      /\ GetUnreadNotificationCount.method = "GET" /\ GetUnreadNotificationCount.security = Secured
      /\ GetUnreadNotificationCount.params = NoParams
      /\ GetUnreadNotificationCount.response = GetUnreadNotificationCountResponse
      /\ GetUnreadNotificationCount.route = V1("users") ## Lit("me") ## Lit("notifications") ## Verb("unreadCount")
      /\ GetUser.method = "GET" /\ GetUser.security = Secured
      /\ GetUser.params = GetUserParams
      /\ GetUser.response = GetUserResponse
      /\ GetUser.route = V1("users") ## Lit(UserHole)
      /\ ListMyFavorites.method = "GET" /\ ListMyFavorites.security = Secured
      /\ ListMyFavorites.params = ListMyFavoritesParams
      /\ ListMyFavorites.response = ListMyFavoritesResponse
      /\ ListMyFavorites.route = V1("users") ## Lit("me") ## Lit("favorites")
      /\ ListMyNotifications.method = "GET" /\ ListMyNotifications.security = Secured
      /\ ListMyNotifications.params = ListMyNotificationsParams
      /\ ListMyNotifications.response = ListMyNotificationsResponse
      /\ ListMyNotifications.route = V1("users") ## Lit("me") ## Lit("notifications")
      /\ ListUsers.method = "GET" /\ ListUsers.security = Secured
      /\ ListUsers.params = ListUsersParams
      /\ ListUsers.response = ListUsersResponse
      /\ ListUsers.route = V1("users")
      /\ MarkAllNotificationsRead.method = "POST" /\ MarkAllNotificationsRead.security = Secured
      /\ MarkAllNotificationsRead.params = MarkAllNotificationsReadParams
      /\ MarkAllNotificationsRead.response = MarkAllNotificationsReadResponse
      /\ MarkAllNotificationsRead.route = V1("users") ## Lit("me") ## Lit("notifications") ## Verb("markAllRead")
      /\ MarkNotificationRead.method = "POST" /\ MarkNotificationRead.security = Secured
      /\ MarkNotificationRead.params = MarkNotificationReadParams
      /\ MarkNotificationRead.response = MarkNotificationReadResponse
      /\ MarkNotificationRead.route = V1("users") ## Lit("me") ## Lit("notifications") ## Lit(NotificationHole) ## Verb("markRead")
      /\ RegenerateMyMfa.method = "POST" /\ RegenerateMyMfa.security = Secured
      /\ RegenerateMyMfa.params = RegenerateMyMfaParams
      /\ RegenerateMyMfa.response = RegenerateMyMfaResponse
      /\ RegenerateMyMfa.route = V1("users") ## Lit("me") ## Verb("mfa") ## Verb("regenerate")
      /\ UndeleteUser.method = "POST" /\ UndeleteUser.security = Secured
      /\ UndeleteUser.params = UndeleteUserParams
      /\ UndeleteUser.response = UndeleteUserResponse
      /\ UndeleteUser.route = V1("users") ## Lit(UserHole) ## Verb("undelete")
      /\ UpdateUser.method = "PATCH" /\ UpdateUser.security = Secured
      /\ UpdateUser.params = UpdateUserParams
      /\ UpdateUser.response = UpdateUserResponse
      /\ UpdateUser.route = V1("users") ## Lit(UserHole)
  BY <1>3 DEF Handler, ChangeMyPassword, CreateUser, DeleteUser, GetUnreadNotificationCount,
    GetUser, ListMyFavorites, ListMyNotifications, ListUsers,
    MarkAllNotificationsRead, MarkNotificationRead, RegenerateMyMfa, UndeleteUser,
    UpdateUser
<1>5. /\ "ChangeMyPassword" \in DOMAIN Operation /\ Operation["ChangeMyPassword"] = ChangeMyPassword
      /\ "CreateUser" \in DOMAIN Operation /\ Operation["CreateUser"] = CreateUser
      /\ "DeleteUser" \in DOMAIN Operation /\ Operation["DeleteUser"] = DeleteUser
      /\ "GetUnreadNotificationCount" \in DOMAIN Operation /\ Operation["GetUnreadNotificationCount"] = GetUnreadNotificationCount
      /\ "GetUser" \in DOMAIN Operation /\ Operation["GetUser"] = GetUser
      /\ "ListMyFavorites" \in DOMAIN Operation /\ Operation["ListMyFavorites"] = ListMyFavorites
      /\ "ListMyNotifications" \in DOMAIN Operation /\ Operation["ListMyNotifications"] = ListMyNotifications
      /\ "ListUsers" \in DOMAIN Operation /\ Operation["ListUsers"] = ListUsers
      /\ "MarkAllNotificationsRead" \in DOMAIN Operation /\ Operation["MarkAllNotificationsRead"] = MarkAllNotificationsRead
      /\ "MarkNotificationRead" \in DOMAIN Operation /\ Operation["MarkNotificationRead"] = MarkNotificationRead
      /\ "RegenerateMyMfa" \in DOMAIN Operation /\ Operation["RegenerateMyMfa"] = RegenerateMyMfa
      /\ "UndeleteUser" \in DOMAIN Operation /\ Operation["UndeleteUser"] = UndeleteUser
      /\ "UpdateUser" \in DOMAIN Operation /\ Operation["UpdateUser"] = UpdateUser
  BY DEF Operation
<1>6. /\ PathOf(ChangeMyPasswordParams) = 1..0
      /\ PathOf(CreateUserParams) = 1..0
      /\ PathOf(DeleteUserParams) = 1..1
      /\ PathOf(NoParams) = 1..0
      /\ PathOf(GetUserParams) = 1..1
      /\ PathOf(ListMyFavoritesParams) = 1..0
      /\ PathOf(ListMyNotificationsParams) = 1..0
      /\ PathOf(ListUsersParams) = 1..0
      /\ PathOf(MarkAllNotificationsReadParams) = 1..0
      /\ PathOf(MarkNotificationReadParams) = 1..1
      /\ PathOf(RegenerateMyMfaParams) = 1..0
      /\ PathOf(UndeleteUserParams) = 1..1
      /\ PathOf(UpdateUserParams) = 1..1
  BY DEF PathOf, Name, Key, Role, Query, Header,
    ChangeMyPasswordParams, CreateUserParams, DeleteUserParams, NoParams,
    GetUserParams, ListMyFavoritesParams, ListMyNotificationsParams, ListUsersParams,
    MarkAllNotificationsReadParams, MarkNotificationReadParams, RegenerateMyMfaParams,
    UndeleteUserParams, UpdateUserParams
<1>7. /\ ChangeMyPasswordResponse \subseteq Sendable
      /\ CreateUserResponse \subseteq Sendable
      /\ DeleteUserResponse \subseteq Sendable
      /\ GetUnreadNotificationCountResponse \subseteq Sendable
      /\ GetUserResponse \subseteq Sendable
      /\ ListMyFavoritesResponse \subseteq Sendable
      /\ ListMyNotificationsResponse \subseteq Sendable
      /\ ListUsersResponse \subseteq Sendable
      /\ MarkAllNotificationsReadResponse \subseteq Sendable
      /\ MarkNotificationReadResponse \subseteq Sendable
      /\ RegenerateMyMfaResponse \subseteq Sendable
      /\ UndeleteUserResponse \subseteq Sendable
      /\ UpdateUserResponse \subseteq Sendable
  BY Encoded DEF
    ChangeMyPasswordResponse, CreateUserResponse, DeleteUserResponse,
    GetUnreadNotificationCountResponse, GetUserResponse, ListMyFavoritesResponse,
    ListMyNotificationsResponse, ListUsersResponse, MarkAllNotificationsReadResponse,
    MarkNotificationReadResponse, RegenerateMyMfaResponse, UndeleteUserResponse,
    UpdateUserResponse
<1>8. /\ Serves("ChangeMyPassword", "POST", V1("users") ## Lit("me") ## Verb("password"), 0)
      /\ Serves("CreateUser", "POST", V1("users"), 0)
      /\ Serves("DeleteUser", "DELETE", V1("users") ## Lit(UserHole), 1)
      /\ Serves("GetUnreadNotificationCount", "GET", V1("users") ## Lit("me") ## Lit("notifications") ## Verb("unreadCount"), 0)
      /\ Serves("GetUser", "GET", V1("users") ## Lit(UserHole), 1)
      /\ Serves("ListMyFavorites", "GET", V1("users") ## Lit("me") ## Lit("favorites"), 0)
      /\ Serves("ListMyNotifications", "GET", V1("users") ## Lit("me") ## Lit("notifications"), 0)
      /\ Serves("ListUsers", "GET", V1("users"), 0)
      /\ Serves("MarkAllNotificationsRead", "POST", V1("users") ## Lit("me") ## Lit("notifications") ## Verb("markAllRead"), 0)
      /\ Serves("MarkNotificationRead", "POST", V1("users") ## Lit("me") ## Lit("notifications") ## Lit(NotificationHole) ## Verb("markRead"), 1)
      /\ Serves("RegenerateMyMfa", "POST", V1("users") ## Lit("me") ## Verb("mfa") ## Verb("regenerate"), 0)
      /\ Serves("UndeleteUser", "POST", V1("users") ## Lit(UserHole) ## Verb("undelete"), 1)
      /\ Serves("UpdateUser", "PATCH", V1("users") ## Lit(UserHole), 1)
  BY <1>4, <1>5, <1>6, <1>7 DEF Serves
<1>9. Offers([GET |-> "ListMyNotifications"],
             V1("users") ## Lit("me") ## Lit("notifications"), 0)
  BY <1>8 DEF Offers
<1>10. Offers([POST |-> "MarkNotificationRead"],
             V1("users") ## Lit("me") ## Lit("notifications") ## Lit(NotificationHole) ## Verb("markRead"), 1)
  BY <1>8 DEF Offers
<1>11. Offers([POST |-> "MarkAllNotificationsRead"],
             V1("users") ## Lit("me") ## Lit("notifications") ## Verb("markAllRead"), 0)
  BY <1>8 DEF Offers
<1>12. Offers([GET |-> "GetUnreadNotificationCount"],
             V1("users") ## Lit("me") ## Lit("notifications") ## Verb("unreadCount"), 0)
  BY <1>8 DEF Offers
<1>13. Offers([GET |-> "ListMyFavorites"],
             V1("users") ## Lit("me") ## Lit("favorites"), 0)
  BY <1>8 DEF Offers
<1>14. Offers([POST |-> "RegenerateMyMfa"],
             V1("users") ## Lit("me") ## Verb("mfa") ## Verb("regenerate"), 0)
  BY <1>8 DEF Offers
<1>15. Offers([POST |-> "ChangeMyPassword"],
             V1("users") ## Lit("me") ## Verb("password"), 0)
  BY <1>8 DEF Offers
<1>16. Offers([DELETE |-> "DeleteUser", GET |-> "GetUser", PATCH |-> "UpdateUser"],
             V1("users") ## Lit(UserHole), 1)
  BY <1>8 DEF Offers
<1>17. Offers([POST |-> "UndeleteUser"],
             V1("users") ## Lit(UserHole) ## Verb("undelete"), 1)
  BY <1>8 DEF Offers
<1>18. Offers([GET |-> "ListUsers", POST |-> "CreateUser"], V1("users"), 0)
  BY <1>8 DEF Offers
<1>q. QED
  BY <1>9, <1>10, <1>11, <1>12, <1>13, <1>14, <1>15, <1>16, <1>17, <1>18

-----------------------------------------------------------------------------
(* What the router hands over is a request for the operation it names.     *)

\* How many placeholders the route of an operation has.
Arity(o) == LET route == Operation[o].route IN Cardinality(Holes(route, Len(route)))

\* The path is the route of the operation with the arguments in its placeholders,
\* except for v1/users/me, whose {user} is empty.
Served(m, path, to) ==
  /\ to.op \in DOMAIN Operation /\ Operation[to.op].method = m
  /\ \/ to.args = << <<>> >>
     \/ /\ path = Filled(Operation[to.op].route, to.args)
        /\ Len(to.args) = Arity(to.op)
  /\ Len(to.args) \in 0..3
  /\ PathOf(Operation[to.op].params) = 1..Len(to.args)
  /\ DOMAIN to.args = 1..Len(to.args)
  /\ Operation[to.op].response \subseteq Sendable
  /\ to.op \in RolesKnown => Operation[to.op].security = Secured

Right(m, path, to) == to.kind = "operation" => Served(m, path, to)

LEMMA NothingFound ==
  ASSUME NEW m, NEW path
  PROVE  Right(m, path, NotFound)
BY DEF Right, NotFound

LEMMA Dispatches ==
  ASSUME NEW m, NEW path, NEW ops, NEW got, NEW n, NEW route, NEW k \in 0..3,
         At(n, route, got, path, <<>>), Len(got) = k, Offers(ops, route, k)
  PROVE  Right(m, path, Dispatch(m, ops, got))
<1>1. Spells(n, route, got, path)
  BY AtEnd
<1>2. /\ path = Filled(route, got) /\ DOMAIN got = 1..k
      /\ Len(got) = Cardinality(Holes(route, Len(route)))
  BY <1>1 DEF Spells
<1>3. PICK to : to = Dispatch(m, ops, got)
  OBVIOUS
<1>4. CASE m \in DOMAIN ops
  <2>1. to.op = ops[m] /\ to.args = got
    BY <1>3, <1>4 DEF Dispatch, To
  <2>2. Serves(ops[m], m, route, k)
    BY <1>4 DEF Offers
  <2>3. Operation[to.op].route = route
    BY <2>1, <2>2 DEF Serves
  <2>4. Len(to.args) = Arity(to.op)
    BY <1>2, <2>1, <2>3 DEF Arity
  <2>q. QED
    BY <1>2, <1>3, <2>1, <2>2, <2>4 DEF Right, Served, Serves
<1>5. CASE m \notin DOMAIN ops
  BY <1>3, <1>5 DEF Dispatch, NotAllowed, Right
<1>q. QED
  BY <1>4, <1>5

LEMMA LastLit ==
  ASSUME NEW m, NEW path, NEW elem, NEW ops, NEW got, NEW n \in 0..7, NEW route,
         NEW k \in 0..3, NEW word, word \notin Placeholder, elem = Lit(word),
         At(n, route, got, path, elem), Len(got) = k, Offers(ops, route ## Lit(word), k)
  PROVE  Right(m, path, Dispatch(m, ops, got))
<1>1. PICK j : j = n + 1
  OBVIOUS
<1>2. At(j, route ## Lit(word), got, path, <<>>)
  BY <1>1, AtLastLiteral DEF Lit
<1>q. QED
  BY <1>2, Dispatches

LEMMA LastVerb ==
  ASSUME NEW m, NEW path, NEW elem, NEW ops, NEW got, NEW n \in 0..7, NEW route,
         NEW k \in 0..3, NEW word, word \notin Placeholder, elem = Verb(word),
         At(n, route, got, path, elem), Len(got) = k, Offers(ops, route ## Verb(word), k)
  PROVE  Right(m, path, Dispatch(m, ops, got))
<1>1. PICK j : j = n + 1
  OBVIOUS
<1>2. At(j, route ## Verb(word), got, path, <<>>)
  BY <1>1, AtLastLiteral DEF Verb
<1>q. QED
  BY <1>2, Dispatches

\* The words of the trie are no placeholders.
LEMMA Words ==
  /\ "healthz" \notin Placeholder /\ "readyz" \notin Placeholder
  /\ "v1" \notin Placeholder /\ "auth" \notin Placeholder
  /\ "csrf" \notin Placeholder /\ "login" \notin Placeholder
  /\ "logout" \notin Placeholder /\ "passwordReset" \notin Placeholder
  /\ "confirm" \notin Placeholder /\ "request" \notin Placeholder
  /\ "refresh" \notin Placeholder /\ "auditLogs" \notin Placeholder
  /\ "export" \notin Placeholder /\ "search" \notin Placeholder
  /\ "environments" \notin Placeholder /\ "policy" \notin Placeholder
  /\ "groups" \notin Placeholder /\ "members" \notin Placeholder
  /\ "iam" \notin Placeholder /\ "getIamPolicy" \notin Placeholder
  /\ "setIamPolicy" \notin Placeholder /\ "testIamPermissions" \notin Placeholder
  /\ "identityProviders" \notin Placeholder /\ "test" \notin Placeholder
  /\ "projects" \notin Placeholder /\ "undelete" \notin Placeholder
  /\ "exportTasks" \notin Placeholder /\ "download" \notin Placeholder
  /\ "instances" \notin Placeholder /\ "sync" \notin Placeholder
  /\ "testConnection" \notin Placeholder /\ "dataSources" \notin Placeholder
  /\ "databases" \notin Placeholder /\ "query" \notin Placeholder
  /\ "syncSchema" \notin Placeholder /\ "worksheets" \notin Placeholder
  /\ "favorite" \notin Placeholder /\ "unfavorite" \notin Placeholder
  /\ "queryHistories" \notin Placeholder /\ "settings" \notin Placeholder
  /\ "users" \notin Placeholder /\ "me" \notin Placeholder
  /\ "favorites" \notin Placeholder /\ "notifications" \notin Placeholder
  /\ "markRead" \notin Placeholder /\ "markAllRead" \notin Placeholder
  /\ "unreadCount" \notin Placeholder /\ "mfa" \notin Placeholder
  /\ "regenerate" \notin Placeholder /\ "password" \notin Placeholder
BY DEF Placeholder

LEMMA Places ==
  /\ DataSourceHole \in Placeholder /\ DatabaseHole \in Placeholder
  /\ EnvironmentHole \in Placeholder /\ GroupHole \in Placeholder
  /\ ProviderHole \in Placeholder /\ NotificationHole \in Placeholder
  /\ InstanceHole \in Placeholder /\ SettingHole \in Placeholder
  /\ MemberHole \in Placeholder /\ ProjectHole \in Placeholder
  /\ TaskHole \in Placeholder /\ UserHole \in Placeholder
  /\ WorksheetHole \in Placeholder
BY DEF Placeholder,
   DataSourceHole, DatabaseHole, EnvironmentHole, GroupHole, ProviderHole, NotificationHole, InstanceHole,
   SettingHole, MemberHole, ProjectHole, TaskHole, UserHole, WorksheetHole

LEMMA Sizes ==
  /\ 0 \in 0..3 /\ 1 \in 0..3 /\ 2 \in 0..3 /\ 3 \in 0..3
  /\ 0 \in 0..7 /\ 1 \in 0..7 /\ 2 \in 0..7 /\ 3 \in 0..7
  /\ 2 \in 0..6 /\ 3 \in 0..6 /\ 5 \in 0..6 /\ 4 \in 0..7 /\ 5 \in 0..7 /\ 6 \in 0..7 /\ 7 \in 0..7
  /\ Len(<<>>) = 0 /\ (\A a : Len(<<a>>) = 1) /\ (\A a, b : Len(<<a, b>>) = 2)
OBVIOUS

Verbs(w1, w2) == <<":", w1, ":", w2>>

LEMMA LastVerbs ==
  ASSUME NEW m, NEW path, NEW elem, NEW ops, NEW got, NEW n \in 0..6, NEW route,
         NEW k \in 0..3, NEW w1, NEW w2, w1 \notin Placeholder, w2 \notin Placeholder,
         elem = Verbs(w1, w2), At(n, route, got, path, elem), Len(got) = k,
         Offers(ops, route ## Verb(w1) ## Verb(w2), k)
  PROVE  Right(m, path, Dispatch(m, ops, got))
<1>1. PICK j : j = n + 2
  OBVIOUS
<1>2. At(j, route ## Verb(w1) ## Verb(w2), got, path, <<>>)
  BY <1>1, AtLastLiterals DEF Verb, Verbs
<1>q. QED
  BY <1>2, Dispatches

\* What the trie takes for the value of a parameter.
CutOff(p, elem) == \E stops : p = Cut(Tail(elem), stops)

LEMMA OneValue ==
  ASSUME NEW n \in 0..7, NEW k, k = n + 1, NEW route, NEW path, NEW elem,
         At(n, route, <<>>, path, elem), StartsWith(elem, <<"/">>), NEW x \in Placeholder,
         NEW p, CutOff(p, elem)
  PROVE  At(k, route ## Lit(x), <<p.value>>, path, p.rest)
<1>1. PICK v : v = p.value
  OBVIOUS
<1>2. At(k, route ## Lit(x), Append(<<>>, v), path, p.rest)
  BY <1>1, AtCut DEF CutOff
<1>3. Append(<<>>, v) = <<v>>
  OBVIOUS
<1>q. QED
  BY <1>1, <1>2, <1>3

-----------------------------------------------------------------------------
(* Longer prefixes.                                                        *)

\* A prefix is what it is token by token.
LEMMA Prefix ==
  ASSUME NEW s \in Seq(Token), NEW x, IsSequence(x)
  PROVE  StartsWith(s, x) <=> Len(x) <= Len(s) /\ \A i \in 1..Len(x) : s[i] = x[i]
<1>1. Len(x) \in Nat /\ Len(s) \in Nat
  BY DEF IsSequence
<1>2. ASSUME Len(x) <= Len(s)
      PROVE  /\ Len(SubSeq(s, 1, Len(x))) = Len(x)
             /\ \A i \in 1..Len(x) : SubSeq(s, 1, Len(x))[i] = s[i]
             /\ SubSeq(s, 1, Len(x)) \in Seq(Token)
  BY <1>1, <1>2
<1>3. SubSeq(x, 1, Len(x)) = x
  BY DEF IsSequence
<1>4. ASSUME StartsWith(s, x)
      PROVE  Len(x) <= Len(s) /\ \A i \in 1..Len(x) : s[i] = x[i]
  <2>1. Len(x) <= Len(s) /\ x = SubSeq(s, 1, Len(x))
    BY <1>3, <1>4 DEF StartsWith, IsPrefix
  <2>2. PICK y : y = SubSeq(s, 1, Len(x))
    OBVIOUS
  <2>q. QED
    BY <1>2, <2>1, <2>2
<1>5. ASSUME Len(x) <= Len(s), \A i \in 1..Len(x) : s[i] = x[i]
      PROVE  StartsWith(s, x)
  <2>1. PICK y : y = SubSeq(s, 1, Len(x))
    OBVIOUS
  <2>2. y \in Seq(Token) /\ Len(y) = Len(x) /\ \A i \in 1..Len(x) : y[i] = x[i]
    BY <1>2, <1>5, <2>1
  <2>3. x \in Seq(Token)
    BY <2>2 DEF IsSequence
  <2>4. y = x
    BY <2>2, <2>3, Equal
  <2>q. QED
    BY <1>3, <1>5, <2>1, <2>4 DEF StartsWith, IsPrefix
<1>q. QED
  BY <1>4, <1>5

LEMMA CutTwice ==
  ASSUME NEW s \in Seq(Token), Len(s) >= 2
  PROVE  /\ After(s, 2) \in Seq(Token) /\ Len(After(s, 2)) = Len(s) - 2
         /\ \A i \in 1..(Len(s) - 2) : After(s, 2)[i] = s[2 + i]
         /\ Tail(Tail(s)) = After(s, 2)
         /\ Len(s) >= 3 => Tail(After(s, 2)) = After(s, 3)
         /\ Len(s) >= 4 => After(After(s, 2), 2) = After(s, 4)
<1>1. /\ After(s, 2) \in Seq(Token) /\ Len(After(s, 2)) = Len(s) - 2
      /\ \A i \in 1..(Len(s) - 2) : After(s, 2)[i] = s[2 + i]
  <2>1. PICK k \in 0..Len(s) : k = 2
    OBVIOUS
  <2>2. /\ After(s, k) \in Seq(Token) /\ Len(After(s, k)) = Len(s) - k
        /\ \A i \in 1..(Len(s) - k) : After(s, k)[i] = s[k + i]
    BY DEF After
  <2>q. QED
    BY <2>1, <2>2
<1>2. Tail(Tail(s)) = After(s, 2)
  BY DEF After
<1>3. Len(s) >= 3 => Tail(After(s, 2)) = After(s, 3)
  BY DEF After
<1>4. Len(s) >= 4 => After(After(s, 2), 2) = After(s, 4)
  BY DEF After
<1>q. QED
  BY <1>1, <1>2, <1>3, <1>4

\* Two literals.
LEMMA TwoLiterals ==
  ASSUME NEW s \in Seq(Token), NEW a, NEW b, NEW c, NEW d, StartsWith(s, <<a, b, c, d>>)
  PROVE  /\ Len(s) >= 4 /\ StartsWith(s, <<a, b>>) /\ StartsWith(After(s, 2), <<c, d>>)
         /\ After(After(s, 2), 2) = After(s, 4)
<1>1. PICK x, y, z : x = <<a, b, c, d>> /\ y = <<a, b>> /\ z = <<c, d>>
  OBVIOUS
<1>2. IsSequence(x) /\ IsSequence(y) /\ IsSequence(z)
  BY <1>1, Tuples
<1>3. /\ Len(x) = 4 /\ x[1] = a /\ x[2] = b /\ x[3] = c /\ x[4] = d
      /\ Len(y) = 2 /\ y[1] = a /\ y[2] = b /\ Len(z) = 2 /\ z[1] = c /\ z[2] = d
  BY <1>1
<1>4. Len(s) >= 4 /\ s[1] = a /\ s[2] = b /\ s[3] = c /\ s[4] = d
  <2>1. Len(x) <= Len(s) /\ \A i \in 1..Len(x) : s[i] = x[i]
    BY <1>1, <1>2, Prefix
  <2>q. QED
    BY <1>3, <2>1
<1>5. StartsWith(s, y)
  <2>1. Len(y) <= Len(s) /\ \A i \in 1..Len(y) : s[i] = y[i]
    BY <1>3, <1>4
  <2>q. QED
    BY <1>2, <2>1, Prefix
<1>6. PICK t : t = After(s, 2)
  OBVIOUS
<1>7. t \in Seq(Token) /\ Len(t) >= 2 /\ t[1] = c /\ t[2] = d
  BY <1>4, <1>6, CutTwice
<1>8. StartsWith(t, z)
  <2>1. Len(z) <= Len(t) /\ \A i \in 1..Len(z) : t[i] = z[i]
    BY <1>3, <1>7
  <2>q. QED
    BY <1>2, <1>7, <2>1, Prefix
<1>q. QED
  BY <1>1, <1>4, <1>5, <1>6, <1>8, CutTwice

\* A literal, and the separator behind it.
LEMMA LiteralThenSlash ==
  ASSUME NEW s \in Seq(Token), NEW a, NEW b, NEW c, StartsWith(s, <<a, b, c>>)
  PROVE  /\ StartsWith(s, <<a, b>>) /\ StartsWith(After(s, 2), <<c>>)
         /\ Tail(After(s, 2)) = After(s, 3)
<1>1. PICK x, y, z : x = <<a, b, c>> /\ y = <<a, b>> /\ z = <<c>>
  OBVIOUS
<1>2. IsSequence(x) /\ IsSequence(y) /\ IsSequence(z)
  BY <1>1, Tuples
<1>3. /\ Len(x) = 3 /\ x[1] = a /\ x[2] = b /\ x[3] = c
      /\ Len(y) = 2 /\ y[1] = a /\ y[2] = b /\ Len(z) = 1 /\ z[1] = c
  BY <1>1
<1>4. Len(s) >= 3 /\ s[1] = a /\ s[2] = b /\ s[3] = c
  <2>1. Len(x) <= Len(s) /\ \A i \in 1..Len(x) : s[i] = x[i]
    BY <1>1, <1>2, Prefix
  <2>q. QED
    BY <1>3, <2>1
<1>5. StartsWith(s, y)
  <2>1. Len(y) <= Len(s) /\ \A i \in 1..Len(y) : s[i] = y[i]
    BY <1>3, <1>4
  <2>q. QED
    BY <1>2, <2>1, Prefix
<1>6. PICK t : t = After(s, 2)
  OBVIOUS
<1>7. t \in Seq(Token) /\ Len(t) >= 1 /\ t[1] = c
  BY <1>4, <1>6, CutTwice
<1>8. StartsWith(t, z)
  <2>1. Len(z) <= Len(t) /\ \A i \in 1..Len(z) : t[i] = z[i]
    BY <1>3, <1>7
  <2>q. QED
    BY <1>2, <1>7, <2>1, Prefix
<1>q. QED
  BY <1>1, <1>4, <1>5, <1>6, <1>8, CutTwice

LEMMA AuthRouted ==
  ASSUME NEW m, NEW path, NEW elem, At(2, V1("auth"), <<>>, path, elem)
  PROVE  Right(m, path, RouteAuth(m, elem))
<1>1. PICK to : to = RouteAuth(m, elem)
  OBVIOUS
<1>2. \/ elem = Lit("csrf") /\ to = Dispatch(m, [GET |-> "AuthCsrf"], <<>>)
      \/ elem = Verb("login") /\ to = Dispatch(m, [POST |-> "AuthLogin"], <<>>)
      \/ elem = Verb("logout") /\ to = Dispatch(m, [POST |-> "AuthLogout"], <<>>)
      \/ to = NotFound
  BY <1>1 DEF RouteAuth, Lit, Verb
<1>q. QED
  BY <1>1, <1>2, AuthOperations, Words, Sizes, LastLit, LastVerb, NothingFound

LEMMA PasswordRouted ==
  ASSUME NEW m, NEW path, NEW elem, At(2, V1("auth"), <<>>, path, elem)
  PROVE  Right(m, path, RoutePassword(m, elem))
<1>1. PICK to : to = RoutePassword(m, elem)
  OBVIOUS
<1>2. \/ /\ elem = Verbs("passwordReset", "confirm")
         /\ to = Dispatch(m, [POST |-> "AuthPasswordResetConfirm"], <<>>)
      \/ /\ elem = Verbs("passwordReset", "request")
         /\ to = Dispatch(m, [POST |-> "AuthPasswordResetRequest"], <<>>)
      \/ elem = Verb("refresh") /\ to = Dispatch(m, [POST |-> "AuthRefresh"], <<>>)
      \/ to = NotFound
  BY <1>1 DEF RoutePassword, Verb, Verbs
<1>q. QED
  BY <1>1, <1>2, AuthOperations, Words, Sizes, LastVerb, LastVerbs, NothingFound

LEMMA AuditRouted ==
  ASSUME NEW m, NEW path, NEW elem, At(2, V1("auditLogs"), <<>>, path, elem)
  PROVE  Right(m, path, RouteAudit(m, elem))
<1>1. PICK to : to = RouteAudit(m, elem)
  OBVIOUS
<1>2. \/ elem = Verb("export") /\ to = Dispatch(m, [POST |-> "ExportAuditLogs"], <<>>)
      \/ elem = Verb("search") /\ to = Dispatch(m, [POST |-> "SearchAuditLogs"], <<>>)
      \/ to = NotFound
  BY <1>1 DEF RouteAudit, Verb
<1>q. QED
  BY <1>1, <1>2, AuditOperations, Words, Sizes, LastVerb, NothingFound

LEMMA IamRouted ==
  ASSUME NEW m, NEW path, NEW elem, At(2, V1("iam"), <<>>, path, elem)
  PROVE  Right(m, path, RouteIam(m, elem))
<1>1. PICK to : to = RouteIam(m, elem)
  OBVIOUS
<1>2. \/ elem = Verb("getIamPolicy") /\ to = Dispatch(m, [POST |-> "GetIamPolicy"], <<>>)
      \/ elem = Verb("setIamPolicy") /\ to = Dispatch(m, [POST |-> "SetIamPolicy"], <<>>)
      \/ /\ elem = Verb("testIamPermissions")
         /\ to = Dispatch(m, [POST |-> "TestIamPermissions"], <<>>)
      \/ to = NotFound
  BY <1>1 DEF RouteIam, Verb
<1>q. QED
  BY <1>1, <1>2, IamOperations, Words, Sizes, LastVerb, NothingFound

LEMMA EnvironmentsRouted ==
  ASSUME NEW m, NEW path, NEW elem, At(2, V1("environments"), <<>>, path, elem)
  PROVE  Right(m, path, RouteEnvironments(m, elem))
<1>1. PICK to, p : /\ to = RouteEnvironments(m, elem)
                   /\ p = Cut(Tail(elem), {"/"}) /\ CutOff(p, elem)
  BY DEF CutOff
<1>2. \/ elem = <<>> /\ to = Dispatch(m, [GET |-> "ListEnvironments"], <<>>)
      \/ /\ StartsWith(elem, <<"/">>) /\ p.rest = <<>>
         /\ to = Dispatch(m, [DELETE |-> "DeleteEnvironment", PATCH |-> "UpdateEnvironment",
                              POST |-> "CreateEnvironment"], <<p.value>>)
      \/ /\ StartsWith(elem, <<"/">>) /\ p.rest = Lit("policy")
         /\ to = Dispatch(m, [GET |-> "GetEnvironmentPolicy",
                              PATCH |-> "UpdateEnvironmentPolicy"], <<p.value>>)
      \/ to = NotFound
  BY <1>1 DEF RouteEnvironments, Lit
<1>3. StartsWith(elem, <<"/">>) =>
        At(3, V1("environments") ## Lit(EnvironmentHole), <<p.value>>, path, p.rest)
  BY <1>1, Places, Sizes, OneValue
<1>q. QED
  BY <1>1, <1>2, <1>3, EnvironmentOperations, Words, Sizes, Dispatches, LastLit, NothingFound

-----------------------------------------------------------------------------
(* Behind a value: what follows, or nothing.                               *)

LEMMA Appends ==
  /\ \A a, b : Append(<<a>>, b) = <<a, b>>
  /\ \A a, b, c : Len(Append(<<a, b>>, c)) = 3
<1>1. ASSUME NEW a, NEW b
      PROVE  Append(<<a>>, b) = <<a, b>>
  BY Tuples DEF ##
<1>2. ASSUME NEW a, NEW b, NEW c
      PROVE  Len(Append(<<a, b>>, c)) = 3
  <2>1. <<a, b, c>> = Append(<<a, b>>, c)
    BY Tuples DEF ##
  <2>2. Len(<<a, b, c>>) = 3
    OBVIOUS
  <2>q. QED
    BY <2>1, <2>2
<1>q. QED
  BY <1>1, <1>2

LEMMA NextValue ==
  ASSUME NEW n \in 0..7, NEW k, k = n + 1, NEW route, NEW got, NEW path, NEW elem,
         At(n, route, got, path, elem), StartsWith(elem, <<"/">>), NEW x \in Placeholder,
         NEW p, CutOff(p, elem)
  PROVE  At(k, route ## Lit(x), Append(got, p.value), path, p.rest)
BY AtCut DEF CutOff

LEMMA NextLit ==
  ASSUME NEW n \in 0..7, NEW k, k = n + 1, NEW route, NEW got, NEW path, NEW elem,
         At(n, route, got, path, elem), NEW word, word \notin Placeholder,
         StartsWith(elem, Lit(word))
  PROVE  At(k, route ## Lit(word), got, path, After(elem, 2))
BY AtLiteral DEF Lit

Under(word) == <<"/", word, "/">>

LEMMA BelowLit ==
  ASSUME NEW n \in 0..6, NEW k, k = n + 2, NEW route, NEW got, NEW path, NEW elem,
         At(n, route, got, path, elem), NEW word, word \notin Placeholder,
         StartsWith(elem, Under(word)), NEW x \in Placeholder
  PROVE  At(k, route ## Lit(word) ## Lit(x), Append(got, After(elem, 3)), path, <<>>)
<1>1. PICK slash : slash = "/"
  OBVIOUS
<1>2. StartsWith(elem, <<slash, word, slash>>)
  BY <1>1 DEF Under
<1>3. elem \in Seq(Token)
  BY DEF At
<1>4. PICK rest : rest = After(elem, 2)
  OBVIOUS
<1>5. StartsWith(elem, <<slash, word>>) /\ StartsWith(rest, <<slash>>) /\ Tail(rest) = After(elem, 3)
  BY <1>2, <1>3, <1>4, LiteralThenSlash
<1>6. StartsWith(elem, Lit(word)) /\ StartsWith(rest, <<"/">>)
  BY <1>1, <1>5 DEF Lit
<1>7. PICK j \in 0..7 : j = n + 1 /\ k = j + 1
  OBVIOUS
<1>8. At(j, route ## Lit(word), got, path, rest)
  BY <1>4, <1>6, <1>7, NextLit
<1>9. At(k, route ## Lit(word) ## Lit(x), Append(got, Tail(rest)), path, <<>>)
  BY <1>6, <1>7, <1>8, AtLastParameter
<1>q. QED
  BY <1>5, <1>9

\* Below a literal, with the value before it.
LEMMA SecondValue ==
  ASSUME NEW n \in 0..6, NEW k, k = n + 2, NEW route, NEW a, NEW path, NEW elem,
         At(n, route, <<a>>, path, elem), NEW word, word \notin Placeholder,
         StartsWith(elem, Under(word)), NEW x \in Placeholder, NEW b, b = After(elem, 3)
  PROVE  At(k, route ## Lit(word) ## Lit(x), <<a, b>>, path, <<>>)
<1>1. At(k, route ## Lit(word) ## Lit(x), Append(<<a>>, b), path, <<>>)
  BY BelowLit
<1>q. QED
  BY <1>1, Appends

LEMMA GroupsRouted ==
  ASSUME NEW m, NEW path, NEW elem, At(2, V1("groups"), <<>>, path, elem)
  PROVE  Right(m, path, RouteGroups(m, elem))
<1>1. PICK to, p : /\ to = RouteGroups(m, elem)
                   /\ p = Cut(Tail(elem), {"/"}) /\ CutOff(p, elem)
  BY DEF CutOff
<1>2. \/ elem = <<>> /\ to = Dispatch(m, [GET |-> "ListGroups", POST |-> "CreateGroup"], <<>>)
      \/ /\ StartsWith(elem, <<"/">>) /\ p.rest = <<>>
         /\ to = Dispatch(m, [DELETE |-> "DeleteGroup", GET |-> "GetGroup",
                              PATCH |-> "UpdateGroup"], <<p.value>>)
      \/ /\ StartsWith(elem, <<"/">>) /\ p.rest = Lit("members")
         /\ to = Dispatch(m, [GET |-> "ListGroupMembers",
                              POST |-> "AddGroupMember"], <<p.value>>)
      \/ /\ StartsWith(elem, <<"/">>) /\ StartsWith(p.rest, Under("members"))
         /\ to = Dispatch(m, [DELETE |-> "RemoveGroupMember"], <<p.value, After(p.rest, 3)>>)
      \/ to = NotFound
  BY <1>1 DEF RouteGroups, Lit, Under
<1>3. StartsWith(elem, <<"/">>) =>
        At(3, V1("groups") ## Lit(GroupHole), <<p.value>>, path, p.rest)
  BY <1>1, Places, Sizes, OneValue
<1>4. StartsWith(elem, <<"/">>) /\ StartsWith(p.rest, Under("members")) =>
        At(5, V1("groups") ## Lit(GroupHole) ## Lit("members") ## Lit(MemberHole),
           <<p.value, After(p.rest, 3)>>, path, <<>>)
  BY <1>3, Places, Words, Sizes, SecondValue
<1>q. QED
  BY <1>1, <1>2, <1>3, <1>4, GroupOperations, Words, Sizes, Dispatches, LastLit, NothingFound

LEMMA IdentityProvidersRouted ==
  ASSUME NEW m, NEW path, NEW elem, At(2, V1("identityProviders"), <<>>, path, elem)
  PROVE  Right(m, path, RouteIdentityProviders(m, elem))
<1>1. PICK to, p : /\ to = RouteIdentityProviders(m, elem)
                   /\ p = Cut(Tail(elem), {":"}) /\ CutOff(p, elem)
  BY DEF CutOff
<1>2. \/ elem = <<>> /\ to = Dispatch(m, [GET |-> "ListIdentityProviders"], <<>>)
      \/ /\ StartsWith(elem, <<"/">>) /\ p.rest = <<>>
         /\ to = Dispatch(m, [DELETE |-> "DeleteIdentityProvider", GET |-> "GetIdentityProvider",
                              PATCH |-> "UpdateIdentityProvider",
                              POST |-> "CreateIdentityProvider"], <<p.value>>)
      \/ /\ StartsWith(elem, <<"/">>) /\ p.rest = Verb("test")
         /\ to = Dispatch(m, [POST |-> "TestIdentityProvider"], <<p.value>>)
      \/ to = NotFound
  BY <1>1 DEF RouteIdentityProviders, Verb
<1>3. StartsWith(elem, <<"/">>) =>
        At(3, V1("identityProviders") ## Lit(ProviderHole), <<p.value>>, path, p.rest)
  BY <1>1, Places, Sizes, OneValue
<1>q. QED
  BY <1>1, <1>2, <1>3, IdentityProviderOperations, Words, Sizes, Dispatches, LastVerb,
     NothingFound

-----------------------------------------------------------------------------
(* Below a project.                                                        *)

LEMMA TwoValues ==
  ASSUME NEW n \in 0..7, NEW k, k = n + 1, NEW route, NEW a, NEW path, NEW elem,
         At(n, route, <<a>>, path, elem), StartsWith(elem, <<"/">>), NEW x \in Placeholder,
         NEW p, CutOff(p, elem)
  PROVE  At(k, route ## Lit(x), <<a, p.value>>, path, p.rest)
<1>1. At(k, route ## Lit(x), Append(<<a>>, p.value), path, p.rest)
  BY NextValue
<1>q. QED
  BY <1>1, Appends

LEMMA ExportTasksRouted ==
  ASSUME NEW m, NEW path, NEW elem, NEW project,
         At(4, InProject ## Lit("exportTasks"), <<project>>, path, elem)
  PROVE  Right(m, path, RouteExportTasks(m, elem, project))
<1>1. PICK to, p : /\ to = RouteExportTasks(m, elem, project)
                   /\ p = Cut(Tail(elem), {":"}) /\ CutOff(p, elem)
  BY DEF CutOff
<1>2. \/ /\ elem = <<>>
         /\ to = Dispatch(m, [GET |-> "ListExportTasks",
                              POST |-> "CreateExportTask"], <<project>>)
      \/ /\ StartsWith(elem, <<"/">>) /\ p.rest = <<>>
         /\ to = Dispatch(m, [GET |-> "GetExportTask"], <<project, p.value>>)
      \/ /\ StartsWith(elem, <<"/">>) /\ p.rest = Verb("download")
         /\ to = Dispatch(m, [POST |-> "DownloadExportTask"], <<project, p.value>>)
      \/ to = NotFound
  BY <1>1 DEF RouteExportTasks, Verb
<1>3. StartsWith(elem, <<"/">>) =>
        At(5, InProject ## Lit("exportTasks") ## Lit(TaskHole), <<project, p.value>>, path,
           p.rest)
  BY <1>1, Places, Sizes, TwoValues
<1>q. QED
  BY <1>1, <1>2, <1>3, ExportTaskOperations, Words, Sizes, Dispatches, LastVerb, NothingFound

LEMMA SqlRouted ==
  ASSUME NEW m, NEW path, NEW verb, NEW got, Len(got) = 3,
         At(7, InInstance ## Lit("databases") ## Lit(DatabaseHole), got, path, verb)
  PROVE  Right(m, path, RouteSql(m, verb, got))
<1>1. PICK to : to = RouteSql(m, verb, got)
  OBVIOUS
<1>2. \/ verb = Verb("export") /\ to = Dispatch(m, [POST |-> "SqlExport"], got)
      \/ verb = Verb("query") /\ to = Dispatch(m, [POST |-> "SqlQuery"], got)
      \/ verb = Verb("syncSchema") /\ to = Dispatch(m, [POST |-> "SyncDatabaseSchema"], got)
      \/ to = NotFound
  BY <1>1 DEF RouteSql, Verb
<1>q. QED
  BY <1>1, <1>2, DatabaseOperations, Words, Sizes, LastVerb, NothingFound

LEMMA DatabasesRouted ==
  ASSUME NEW m, NEW path, NEW elem, NEW a, NEW b,
         At(6, InInstance ## Lit("databases"), <<a, b>>, path, elem)
  PROVE  Right(m, path, RouteDatabases(m, elem, <<a, b>>))
<1>1. PICK to, p, got : /\ to = RouteDatabases(m, elem, got) /\ got = <<a, b>>
                         /\ p = Cut(Tail(elem), {":"}) /\ CutOff(p, elem)
  BY DEF CutOff
<1>2. \/ elem = <<>> /\ to = Dispatch(m, [GET |-> "ListDatabases"], got)
      \/ /\ StartsWith(elem, <<"/">>) /\ p.rest = <<>>
         /\ to = Dispatch(m, [GET |-> "GetDatabase", PATCH |-> "UpdateDatabase"],
                          Append(got, p.value))
      \/ StartsWith(elem, <<"/">>) /\ to = RouteSql(m, p.rest, Append(got, p.value))
      \/ to = NotFound
  BY <1>1 DEF RouteDatabases
<1>3. Len(got) = 2 /\ Len(Append(got, p.value)) = 3
  BY <1>1, Appends, Sizes
<1>4. StartsWith(elem, <<"/">>) =>
        At(7, InInstance ## Lit("databases") ## Lit(DatabaseHole), Append(got, p.value), path,
           p.rest)
  BY <1>1, Places, Sizes, NextValue
<1>q. QED
  BY <1>1, <1>2, <1>3, <1>4, DatabaseOperations, Sizes, Dispatches, SqlRouted, NothingFound

LEMMA InProjectIs == InProject = V1("projects") ## Lit(ProjectHole)
BY Zenon DEF InProject, V1, ProjectHole

LEMMA InInstanceIs == InInstance = InProject ## Lit("instances") ## Lit(InstanceHole)
BY Zenon DEF InInstance, InstanceHole

LEMMA DataSourcesRouted ==
  ASSUME NEW m, NEW path, NEW elem, NEW a, NEW b, At(5, InInstance, <<a, b>>, path, elem),
         StartsWith(elem, Under("dataSources"))
  PROVE  Right(m, path, RouteDataSources(m, After(elem, 3), <<a, b>>))
<1>1. PICK to, source, got : /\ to = RouteDataSources(m, source, got)
                              /\ source = After(elem, 3) /\ got = <<a, b>>
  OBVIOUS
<1>2. \/ to = Dispatch(m, [DELETE |-> "DeleteDataSource", PATCH |-> "UpdateDataSource",
                           POST |-> "CreateDataSource"], Append(got, source))
      \/ to = NotFound
  BY <1>1 DEF RouteDataSources
<1>3. Len(Append(got, source)) = 3
  BY <1>1, Appends
<1>4. At(7, InInstance ## Lit("dataSources") ## Lit(DataSourceHole), Append(got, source),
         path, <<>>)
  BY <1>1, Places, Words, Sizes, BelowLit
<1>q. QED
  BY <1>1, <1>2, <1>3, <1>4, DataSourceOperations, Sizes, Dispatches, NothingFound

LEMMA InstanceVerbsRouted ==
  ASSUME NEW m, NEW path, NEW verb, NEW got, Len(got) = 2, At(5, InInstance, got, path, verb)
  PROVE  Right(m, path, RouteInstanceVerbs(m, verb, got))
<1>1. PICK to : to = RouteInstanceVerbs(m, verb, got)
  OBVIOUS
<1>2. \/ verb = Verb("sync") /\ to = Dispatch(m, [POST |-> "SyncInstance"], got)
      \/ /\ verb = Verb("testConnection")
         /\ to = Dispatch(m, [POST |-> "TestInstanceConnection"], got)
      \/ to = NotFound
  BY <1>1 DEF RouteInstanceVerbs, Verb
<1>q. QED
  BY <1>1, <1>2, InstanceOperations, Words, Sizes, LastVerb, NothingFound

LEMMA InstancesRouted ==
  ASSUME NEW m, NEW path, NEW elem, NEW project,
         At(4, InProject ## Lit("instances"), <<project>>, path, elem)
  PROVE  Right(m, path, RouteInstances(m, elem, project))
<1>1. PICK to, p, b, got : /\ to = RouteInstances(m, elem, project)
                            /\ p = Cut(Tail(elem), {"/", ":"}) /\ CutOff(p, elem)
                            /\ b = p.value /\ got = <<project, b>>
  BY DEF CutOff
<1>2. \/ /\ elem = <<>>
         /\ to = Dispatch(m, [GET |-> "ListInstances", POST |-> "CreateInstance"], <<project>>)
      \/ /\ StartsWith(elem, <<"/">>) /\ p.rest = <<>>
         /\ to = Dispatch(m, [DELETE |-> "DeleteInstance", GET |-> "GetInstance",
                              PATCH |-> "UpdateInstance"], got)
      \/ /\ StartsWith(elem, <<"/">>) /\ StartsWith(p.rest, Under("dataSources"))
         /\ to = RouteDataSources(m, After(p.rest, 3), got)
      \/ /\ StartsWith(elem, <<"/">>) /\ StartsWith(p.rest, Lit("databases"))
         /\ to = RouteDatabases(m, After(p.rest, 2), got)
      \/ StartsWith(elem, <<"/">>) /\ to = RouteInstanceVerbs(m, p.rest, got)
      \/ to = NotFound
  BY <1>1 DEF RouteInstances, Lit, Under
<1>3. ASSUME StartsWith(elem, <<"/">>)
      PROVE  At(5, InInstance, got, path, p.rest)
  <2>1. At(5, InProject ## Lit("instances") ## Lit(InstanceHole), <<project, p.value>>, path,
           p.rest)
    BY <1>1, <1>3, Places, Sizes, TwoValues
  <2>q. QED
    BY <1>1, <2>1, InInstanceIs
<1>4. StartsWith(elem, <<"/">>) /\ StartsWith(p.rest, Lit("databases")) =>
        At(6, InInstance ## Lit("databases"), got, path, After(p.rest, 2))
  BY <1>3, Words, Sizes, NextLit
<1>5. Len(got) = 2
  BY <1>1, Sizes
<1>6. CASE elem = <<>> /\ to = Dispatch(m, [GET |-> "ListInstances",
                                            POST |-> "CreateInstance"], <<project>>)
  BY <1>1, <1>6, InstanceOperations, Sizes, Dispatches
<1>7. CASE /\ StartsWith(elem, <<"/">>) /\ p.rest = <<>>
           /\ to = Dispatch(m, [DELETE |-> "DeleteInstance", GET |-> "GetInstance",
                                PATCH |-> "UpdateInstance"], got)
  BY <1>1, <1>3, <1>5, <1>7, InstanceOperations, Sizes, Dispatches
<1>8. CASE /\ StartsWith(elem, <<"/">>) /\ StartsWith(p.rest, Under("dataSources"))
           /\ to = RouteDataSources(m, After(p.rest, 3), got)
  BY <1>1, <1>3, <1>8, DataSourcesRouted
<1>9. CASE /\ StartsWith(elem, <<"/">>) /\ StartsWith(p.rest, Lit("databases"))
           /\ to = RouteDatabases(m, After(p.rest, 2), got)
  BY <1>1, <1>4, <1>9, DatabasesRouted
<1>10. CASE StartsWith(elem, <<"/">>) /\ to = RouteInstanceVerbs(m, p.rest, got)
  BY <1>1, <1>3, <1>5, <1>10, InstanceVerbsRouted
<1>11. CASE to = NotFound
  BY <1>1, <1>11, NothingFound
<1>q. QED
  BY <1>2, <1>6, <1>7, <1>8, <1>9, <1>10, <1>11

LEMMA WorksheetVerbsRouted ==
  ASSUME NEW m, NEW path, NEW verb, NEW got, Len(got) = 2,
         At(5, InProject ## Lit("worksheets") ## Lit(WorksheetHole), got, path, verb)
  PROVE  Right(m, path, RouteWorksheetVerbs(m, verb, got))
<1>1. PICK to : to = RouteWorksheetVerbs(m, verb, got)
  OBVIOUS
<1>2. \/ verb = Verb("favorite") /\ to = Dispatch(m, [POST |-> "FavoriteWorksheet"], got)
      \/ verb = Verb("unfavorite") /\ to = Dispatch(m, [POST |-> "UnfavoriteWorksheet"], got)
      \/ to = NotFound
  BY <1>1 DEF RouteWorksheetVerbs, Verb
<1>q. QED
  BY <1>1, <1>2, WorksheetOperations, Words, Sizes, LastVerb, NothingFound

LEMMA WorksheetsRouted ==
  ASSUME NEW m, NEW path, NEW elem, NEW project,
         At(4, InProject ## Lit("worksheets"), <<project>>, path, elem)
  PROVE  Right(m, path, RouteWorksheets(m, elem, project))
<1>1. PICK to, p, b, got : /\ to = RouteWorksheets(m, elem, project)
                            /\ p = Cut(Tail(elem), {":"}) /\ CutOff(p, elem)
                            /\ b = p.value /\ got = <<project, b>>
  BY DEF CutOff
<1>2. \/ elem = <<>> /\ to = Dispatch(m, [POST |-> "CreateWorksheet"], <<project>>)
      \/ /\ elem = Verb("search")
         /\ to = Dispatch(m, [GET |-> "SearchWorksheets"], <<project>>)
      \/ /\ StartsWith(elem, <<"/">>) /\ p.rest = <<>>
         /\ to = Dispatch(m, [DELETE |-> "DeleteWorksheet", GET |-> "GetWorksheet",
                              PATCH |-> "UpdateWorksheet"], got)
      \/ StartsWith(elem, <<"/">>) /\ to = RouteWorksheetVerbs(m, p.rest, got)
      \/ to = NotFound
  BY <1>1 DEF RouteWorksheets, Verb
<1>3. ASSUME StartsWith(elem, <<"/">>)
      PROVE  At(5, InProject ## Lit("worksheets") ## Lit(WorksheetHole), got, path, p.rest)
  <2>1. At(5, InProject ## Lit("worksheets") ## Lit(WorksheetHole), <<project, p.value>>, path,
           p.rest)
    BY <1>1, <1>3, Places, Sizes, TwoValues
  <2>q. QED
    BY <1>1, <2>1
<1>4. Len(got) = 2
  BY <1>1, Sizes
<1>q. QED
  BY <1>1, <1>2, <1>3, <1>4, WorksheetOperations, Words, Sizes, Dispatches, LastVerb,
     WorksheetVerbsRouted, NothingFound

LEMMA ProjectsRouted ==
  ASSUME NEW m, NEW path, NEW elem, At(2, V1("projects"), <<>>, path, elem)
  PROVE  Right(m, path, RouteProjects(m, elem))
<1>1. PICK to, p, project : /\ to = RouteProjects(m, elem)
                            /\ p = Cut(Tail(elem), {"/", ":"}) /\ CutOff(p, elem)
                            /\ project = p.value
  BY DEF CutOff
<1>2. \/ elem = <<>> /\ to = Dispatch(m, [GET |-> "ListProjects", POST |-> "CreateProject"], <<>>)
      \/ /\ StartsWith(elem, <<"/">>) /\ p.rest = <<>>
         /\ to = Dispatch(m, [DELETE |-> "DeleteProject", GET |-> "GetProject",
                              PATCH |-> "UpdateProject"], <<project>>)
      \/ /\ StartsWith(elem, <<"/">>) /\ StartsWith(p.rest, Lit("exportTasks"))
         /\ to = RouteExportTasks(m, After(p.rest, 2), project)
      \/ /\ StartsWith(elem, <<"/">>) /\ StartsWith(p.rest, Lit("instances"))
         /\ to = RouteInstances(m, After(p.rest, 2), project)
      \/ /\ StartsWith(elem, <<"/">>) /\ StartsWith(p.rest, Lit("worksheets"))
         /\ to = RouteWorksheets(m, After(p.rest, 2), project)
      \/ /\ StartsWith(elem, <<"/">>) /\ p.rest = Verb("undelete")
         /\ to = Dispatch(m, [POST |-> "UndeleteProject"], <<project>>)
      \/ to = NotFound
  BY <1>1 DEF RouteProjects, Lit, Verb
<1>3. ASSUME StartsWith(elem, <<"/">>)
      PROVE  At(3, InProject, <<project>>, path, p.rest)
  <2>1. At(3, V1("projects") ## Lit(ProjectHole), <<p.value>>, path, p.rest)
    BY <1>1, <1>3, Places, Sizes, OneValue
  <2>q. QED
    BY <1>1, <2>1, InProjectIs
<1>4. ASSUME StartsWith(elem, <<"/">>), NEW word, word \notin Placeholder,
             StartsWith(p.rest, Lit(word))
      PROVE  At(4, InProject ## Lit(word), <<project>>, path, After(p.rest, 2))
  BY <1>3, <1>4, Sizes, NextLit
<1>5. CASE elem = <<>> /\ to = Dispatch(m, [GET |-> "ListProjects",
                                            POST |-> "CreateProject"], <<>>)
  BY <1>1, <1>5, ProjectOperations, Sizes, Dispatches
<1>6. CASE /\ StartsWith(elem, <<"/">>) /\ p.rest = <<>>
           /\ to = Dispatch(m, [DELETE |-> "DeleteProject", GET |-> "GetProject",
                                PATCH |-> "UpdateProject"], <<project>>)
  BY <1>1, <1>3, <1>6, ProjectOperations, Sizes, Dispatches
<1>7. CASE /\ StartsWith(elem, <<"/">>) /\ StartsWith(p.rest, Lit("exportTasks"))
           /\ to = RouteExportTasks(m, After(p.rest, 2), project)
  BY <1>1, <1>4, <1>7, Words, ExportTasksRouted
<1>8. CASE /\ StartsWith(elem, <<"/">>) /\ StartsWith(p.rest, Lit("instances"))
           /\ to = RouteInstances(m, After(p.rest, 2), project)
  BY <1>1, <1>4, <1>8, Words, InstancesRouted
<1>9. CASE /\ StartsWith(elem, <<"/">>) /\ StartsWith(p.rest, Lit("worksheets"))
           /\ to = RouteWorksheets(m, After(p.rest, 2), project)
  BY <1>1, <1>4, <1>9, Words, WorksheetsRouted
<1>10. CASE /\ StartsWith(elem, <<"/">>) /\ p.rest = Verb("undelete")
            /\ to = Dispatch(m, [POST |-> "UndeleteProject"], <<project>>)
  BY <1>1, <1>3, <1>10, ProjectOperations, Words, Sizes, LastVerb
<1>11. CASE to = NotFound
  BY <1>1, <1>11, NothingFound
<1>q. QED
  BY <1>2, <1>5, <1>6, <1>7, <1>8, <1>9, <1>10, <1>11

-----------------------------------------------------------------------------
(* Below v1/settings and v1/users.                                         *)

LEMMA SettingsRouted ==
  ASSUME NEW m, NEW path, NEW elem, At(2, V1("settings"), <<>>, path, elem)
  PROVE  Right(m, path, RouteSettings(m, elem))
<1>1. PICK to, key : to = RouteSettings(m, elem) /\ key = Tail(elem)
  OBVIOUS
<1>2. \/ /\ StartsWith(elem, <<"/">>)
         /\ to = Dispatch(m, [GET |-> "GetSetting", PATCH |-> "UpdateSetting"], <<key>>)
      \/ to = NotFound
  BY <1>1 DEF RouteSettings
<1>3. ASSUME StartsWith(elem, <<"/">>)
      PROVE  At(3, V1("settings") ## Lit(SettingHole), <<key>>, path, <<>>)
  <2>1. PICK none, route : none = <<>> /\ route = V1("settings")
    OBVIOUS
  <2>2. At(3, route ## Lit(SettingHole), Append(none, Tail(elem)), path, <<>>)
    <3>1. At(2, route, none, path, elem)
      BY <2>1
    <3>2. SettingHole \in Placeholder /\ 2 \in 0..7 /\ 3 = 2 + 1
      BY Places
    <3>q. QED
      BY <1>3, <3>1, <3>2, AtLastParameter
  <2>3. Append(none, Tail(elem)) = <<key>>
    BY <1>1, <2>1
  <2>q. QED
    BY <2>1, <2>2, <2>3
<1>q. QED
  BY <1>1, <1>2, <1>3, SettingOperations, Sizes, Dispatches, NothingFound

LEMMA NotificationsRouted ==
  ASSUME NEW m, NEW path, NEW elem,
         At(4, V1("users") ## Lit("me") ## Lit("notifications"), <<>>, path, elem)
  PROVE  Right(m, path, RouteNotifications(m, elem))
<1>1. PICK to, p : /\ to = RouteNotifications(m, elem)
                   /\ p = Cut(Tail(elem), {":"}) /\ CutOff(p, elem)
  BY DEF CutOff
<1>2. \/ elem = <<>> /\ to = Dispatch(m, [GET |-> "ListMyNotifications"], <<>>)
      \/ /\ StartsWith(elem, <<"/">>) /\ p.rest = Verb("markRead")
         /\ to = Dispatch(m, [POST |-> "MarkNotificationRead"], <<p.value>>)
      \/ /\ elem = Verb("markAllRead")
         /\ to = Dispatch(m, [POST |-> "MarkAllNotificationsRead"], <<>>)
      \/ /\ elem = Verb("unreadCount")
         /\ to = Dispatch(m, [GET |-> "GetUnreadNotificationCount"], <<>>)
      \/ to = NotFound
  BY <1>1 DEF RouteNotifications, Verb
<1>3. StartsWith(elem, <<"/">>) =>
        At(5, V1("users") ## Lit("me") ## Lit("notifications") ## Lit(NotificationHole),
           <<p.value>>, path, p.rest)
  BY <1>1, Places, Sizes, OneValue
<1>q. QED
  BY <1>1, <1>2, <1>3, UserOperations, Words, Sizes, Dispatches, LastVerb, NothingFound

LEMMA MeRouted ==
  ASSUME NEW m, NEW path, NEW elem, At(3, V1("users") ## Lit("me"), <<>>, path, elem)
  PROVE  Right(m, path, RouteMe(m, elem))
<1>1. PICK to : to = RouteMe(m, elem)
  OBVIOUS
<1>2. \/ elem = Lit("favorites") /\ to = Dispatch(m, [GET |-> "ListMyFavorites"], <<>>)
      \/ /\ StartsWith(elem, Lit("notifications"))
         /\ to = RouteNotifications(m, After(elem, 2))
      \/ /\ elem = Verbs("mfa", "regenerate")
         /\ to = Dispatch(m, [POST |-> "RegenerateMyMfa"], <<>>)
      \/ elem = Verb("password") /\ to = Dispatch(m, [POST |-> "ChangeMyPassword"], <<>>)
      \/ to = NotFound
  BY <1>1 DEF RouteMe, Lit, Verb, Verbs
<1>3. StartsWith(elem, Lit("notifications")) =>
        At(4, V1("users") ## Lit("me") ## Lit("notifications"), <<>>, path, After(elem, 2))
  BY Words, Sizes, NextLit
<1>4. CASE elem = Lit("favorites") /\ to = Dispatch(m, [GET |-> "ListMyFavorites"], <<>>)
  BY <1>1, <1>4, UserOperations, Words, Sizes, LastLit
<1>5. CASE StartsWith(elem, Lit("notifications")) /\ to = RouteNotifications(m, After(elem, 2))
  BY <1>1, <1>3, <1>5, NotificationsRouted
<1>6. CASE /\ elem = Verbs("mfa", "regenerate")
           /\ to = Dispatch(m, [POST |-> "RegenerateMyMfa"], <<>>)
  BY <1>1, <1>6, UserOperations, Words, Sizes, LastVerbs
<1>7. CASE elem = Verb("password") /\ to = Dispatch(m, [POST |-> "ChangeMyPassword"], <<>>)
  BY <1>1, <1>7, UserOperations, Words, Sizes, LastVerb
<1>8. CASE to = NotFound
  BY <1>1, <1>8, NothingFound
<1>q. QED
  BY <1>2, <1>4, <1>5, <1>6, <1>7, <1>8

LEMMA UserRouted ==
  ASSUME NEW m, NEW path, NEW elem, At(2, V1("users"), <<>>, path, elem),
         StartsWith(elem, <<"/">>), NEW name, name = Tail(elem)
  PROVE  Right(m, path, RouteUser(m, name))
<1>1. PICK to, p : to = RouteUser(m, name) /\ p = Cut(name, {":"}) /\ CutOff(p, elem)
  BY DEF CutOff
<1>2. \/ /\ p.rest = <<>>
         /\ to = Dispatch(m, [DELETE |-> "DeleteUser", GET |-> "GetUser",
                              PATCH |-> "UpdateUser"], <<p.value>>)
      \/ p.rest = Verb("undelete") /\ to = Dispatch(m, [POST |-> "UndeleteUser"], <<p.value>>)
      \/ to = NotFound
  BY <1>1 DEF RouteUser, Verb
<1>3. At(3, V1("users") ## Lit(UserHole), <<p.value>>, path, p.rest)
  BY <1>1, Places, Sizes, OneValue
<1>q. QED
  BY <1>1, <1>2, <1>3, UserOperations, Words, Sizes, Dispatches, LastVerb, NothingFound

\* v1/users/me, where {user} is empty.
LEMMA NobodyRouted ==
  ASSUME NEW m, NEW path
  PROVE  Right(m, path, RouteUser(m, <<>>))
<1>1. PICK to, p : to = RouteUser(m, <<>>) /\ p = Cut(<<>>, {":"})
  OBVIOUS
<1>2. p.value = <<>> /\ p.rest = <<>>
  BY <1>1 DEF Cut, SelectInSeq
<1>3. PICK got : got = <<p.value>>
  OBVIOUS
<1>4. PICK ops : ops = [DELETE |-> "DeleteUser", GET |-> "GetUser", PATCH |-> "UpdateUser"]
  OBVIOUS
<1>5. to = Dispatch(m, ops, got)
  BY <1>1, <1>2, <1>3, <1>4 DEF RouteUser
<1>6. got = << <<>> >> /\ Len(got) = 1 /\ DOMAIN got = 1..1
  BY <1>2, <1>3
<1>7. Offers(ops, V1("users") ## Lit(UserHole), 1)
  BY <1>4, UserOperations
<1>8. CASE m \in DOMAIN ops
  <2>1. to.op = ops[m] /\ to.args = got
    BY <1>5, <1>8 DEF Dispatch, To
  <2>2. Serves(ops[m], m, V1("users") ## Lit(UserHole), 1)
    BY <1>7, <1>8 DEF Offers
  <2>q. QED
    BY <1>1, <1>6, <2>1, <2>2, Sizes DEF Right, Served, Serves
<1>9. CASE m \notin DOMAIN ops
  BY <1>1, <1>5, <1>9 DEF Dispatch, NotAllowed, Right
<1>q. QED
  BY <1>8, <1>9

LEMMA UsersRouted ==
  ASSUME NEW m, NEW path, NEW elem, At(2, V1("users"), <<>>, path, elem)
  PROVE  Right(m, path, RouteUsers(m, elem))
<1>1. PICK to, name : to = RouteUsers(m, elem) /\ name = Tail(elem)
  OBVIOUS
<1>2. \/ elem = <<>> /\ to = Dispatch(m, [GET |-> "ListUsers", POST |-> "CreateUser"], <<>>)
      \/ to = RouteUser(m, <<>>)
      \/ StartsWith(elem, Lit("me")) /\ Len(elem) > 2 /\ to = RouteMe(m, Tail(name))
      \/ StartsWith(elem, Lit("me")) /\ Len(elem) > 2 /\ to = RouteUser(m, name)
      \/ StartsWith(elem, <<"/">>) /\ to = RouteUser(m, name)
      \/ to = NotFound
  BY <1>1 DEF RouteUsers, Lit
<1>3. ASSUME StartsWith(elem, Lit("me")), Len(elem) > 2
      PROVE  /\ At(3, V1("users") ## Lit("me"), <<>>, path, Tail(name))
             /\ StartsWith(elem, <<"/">>)
  <2>1. elem \in Seq(Token)
    BY DEF At
  <2>2. At(3, V1("users") ## Lit("me"), <<>>, path, After(elem, 2))
    BY <1>3, Words, Sizes, NextLit
  <2>3. Tail(name) = After(elem, 2)
    BY <1>1, <1>3, <2>1, CutTwice
  <2>4. StartsWith(elem, <<"/">>)
    <3>1. PICK x, y : x = Lit("me") /\ y = <<"/">>
      OBVIOUS
    <3>2. /\ IsSequence(x) /\ IsSequence(y) /\ Len(x) = 2 /\ Len(y) = 1
          /\ x[1] = "/" /\ y[1] = "/"
      BY <3>1, Tuples DEF Lit
    <3>3. elem[1] = "/"
      BY <1>3, <2>1, <3>1, <3>2, Prefix
    <3>4. Len(y) <= Len(elem) /\ \A i \in 1..Len(y) : elem[i] = y[i]
      BY <1>3, <2>1, <3>2, <3>3
    <3>q. QED
      BY <2>1, <3>1, <3>2, <3>4, Prefix
  <2>q. QED
    BY <2>2, <2>3, <2>4
<1>q. QED
  BY <1>1, <1>2, <1>3, UserOperations, Sizes, Dispatches, MeRouted, UserRouted, NobodyRouted,
     NothingFound

-----------------------------------------------------------------------------
(* At the root.                                                            *)

Below(word) == <<"/", "v1", "/", word>>

LEMMA BelowV1 ==
  ASSUME NEW path \in Seq(Token), NEW word, word \notin Placeholder,
         StartsWith(path, Below(word)), NEW elem, elem = After(path, 4)
  PROVE  At(2, V1(word), <<>>, path, elem)
<1>1. PICK slash, v : slash = "/" /\ v = "v1"
  OBVIOUS
<1>2. StartsWith(path, <<slash, v, slash, word>>)
  BY <1>1 DEF Below
<1>3. PICK rest : rest = After(path, 2)
  OBVIOUS
<1>4. /\ StartsWith(path, <<slash, v>>) /\ StartsWith(rest, <<slash, word>>)
      /\ After(rest, 2) = After(path, 4)
  BY <1>2, <1>3, TwoLiterals
<1>5. At(0, <<>>, <<>>, path, path)
  BY AtRoot
<1>6. At(1, <<>> ## Lit("v1"), <<>>, path, rest)
  <2>1. StartsWith(path, Lit("v1"))
    BY <1>1, <1>4 DEF Lit
  <2>q. QED
    BY <1>3, <1>5, <2>1, Words, Sizes, NextLit
<1>7. At(2, <<>> ## Lit("v1") ## Lit(word), <<>>, path, After(rest, 2))
  <2>1. StartsWith(rest, Lit(word))
    BY <1>1, <1>4 DEF Lit
  <2>q. QED
    BY <1>6, <2>1, Sizes, NextLit
<1>q. QED
  BY <1>4, <1>7 DEF V1

\* Whatever the method and the path, an operation that the router dispatches to is one the
\* server has, its method is the request's, and its route with the arguments in its
\* placeholders is the path (but v1/users/me, which is a user without a name).  It takes as
\* many arguments as its decoder reads from the path.  oas_router_gen.go cuts the path with
\* offsets and prefixes of its own in every branch: a branch that hands the wrong operation
\* or the wrong number of arguments on is what this theorem excludes.
THEOREM RouterIsSound ==
  ASSUME NEW m, NEW path \in Seq(Token)
  PROVE  Right(m, path, ServeHTTP(m, path))
<1>1. PICK to, elem : to = ServeHTTP(m, path) /\ elem = After(path, 4)
  OBVIOUS
<1>2. \/ path = Lit("healthz") /\ to = Dispatch(m, [GET |-> "Healthz"], <<>>)
      \/ path = Lit("readyz") /\ to = Dispatch(m, [GET |-> "Readyz"], <<>>)
      \/ StartsWith(path, Below("auth")) /\ to = RouteAuth(m, elem)
      \/ StartsWith(path, Below("auth")) /\ to = RoutePassword(m, elem)
      \/ StartsWith(path, Below("auditLogs")) /\ to = RouteAudit(m, elem)
      \/ StartsWith(path, Below("environments")) /\ to = RouteEnvironments(m, elem)
      \/ StartsWith(path, Below("groups")) /\ to = RouteGroups(m, elem)
      \/ StartsWith(path, Below("iam")) /\ to = RouteIam(m, elem)
      \/ StartsWith(path, Below("identityProviders")) /\ to = RouteIdentityProviders(m, elem)
      \/ StartsWith(path, Below("projects")) /\ to = RouteProjects(m, elem)
      \/ /\ StartsWith(path, Below("queryHistories")) /\ elem = Verb("search")
         /\ to = Dispatch(m, [GET |-> "QueryHistoriesSearch"], <<>>)
      \/ StartsWith(path, Below("settings")) /\ to = RouteSettings(m, elem)
      \/ StartsWith(path, Below("users")) /\ to = RouteUsers(m, elem)
      \/ to = NotFound
  BY <1>1 DEF ServeHTTP, Below, Lit, Verb
<1>3. At(0, <<>>, <<>>, path, path)
  BY AtRoot
<1>4. \A word : word \notin Placeholder /\ StartsWith(path, Below(word)) =>
        At(2, V1(word), <<>>, path, elem)
  BY <1>1, BelowV1
<1>5. CASE path = Lit("healthz") /\ to = Dispatch(m, [GET |-> "Healthz"], <<>>)
  BY <1>1, <1>3, <1>5, ProbeOperations, Words, Sizes, LastLit
<1>6. CASE path = Lit("readyz") /\ to = Dispatch(m, [GET |-> "Readyz"], <<>>)
  BY <1>1, <1>3, <1>6, ProbeOperations, Words, Sizes, LastLit
<1>7. CASE StartsWith(path, Below("auth")) /\ to = RouteAuth(m, elem)
  BY <1>1, <1>4, <1>7, Words, AuthRouted
<1>8. CASE StartsWith(path, Below("auth")) /\ to = RoutePassword(m, elem)
  BY <1>1, <1>4, <1>8, Words, PasswordRouted
<1>9. CASE StartsWith(path, Below("auditLogs")) /\ to = RouteAudit(m, elem)
  BY <1>1, <1>4, <1>9, Words, AuditRouted
<1>10. CASE StartsWith(path, Below("environments")) /\ to = RouteEnvironments(m, elem)
  BY <1>1, <1>4, <1>10, Words, EnvironmentsRouted
<1>11. CASE StartsWith(path, Below("groups")) /\ to = RouteGroups(m, elem)
  BY <1>1, <1>4, <1>11, Words, GroupsRouted
<1>12. CASE StartsWith(path, Below("iam")) /\ to = RouteIam(m, elem)
  BY <1>1, <1>4, <1>12, Words, IamRouted
<1>13. CASE /\ StartsWith(path, Below("identityProviders"))
            /\ to = RouteIdentityProviders(m, elem)
  BY <1>1, <1>4, <1>13, Words, IdentityProvidersRouted
<1>14. CASE StartsWith(path, Below("projects")) /\ to = RouteProjects(m, elem)
  BY <1>1, <1>4, <1>14, Words, ProjectsRouted
<1>15. CASE /\ StartsWith(path, Below("queryHistories")) /\ elem = Verb("search")
            /\ to = Dispatch(m, [GET |-> "QueryHistoriesSearch"], <<>>)
  BY <1>1, <1>4, <1>15, QueryHistoryOperations, Words, Sizes, LastVerb
<1>16. CASE StartsWith(path, Below("settings")) /\ to = RouteSettings(m, elem)
  BY <1>1, <1>4, <1>16, Words, SettingsRouted
<1>17. CASE StartsWith(path, Below("users")) /\ to = RouteUsers(m, elem)
  BY <1>1, <1>4, <1>17, Words, UsersRouted
<1>18. CASE to = NotFound
  BY <1>1, <1>18, NothingFound
<1>q. QED
  BY <1>2, <1>5, <1>6, <1>7, <1>8, <1>9, <1>10, <1>11, <1>12, <1>13, <1>14, <1>15, <1>16,
     <1>17, <1>18

-----------------------------------------------------------------------------
(* The converse.  What the trie makes of a route that is spelt out with    *)
(* values in its placeholders.                                             *)

Slash(s) == <<"/">> ++ s

LEMMA SlashIs ==
  ASSUME NEW s \in Seq(Token)
  PROVE  /\ Slash(s) \in Seq(Token) /\ Slash(s) # <<>> /\ Len(Slash(s)) = Len(s) + 1
         /\ Slash(s)[1] = "/" /\ StartsWith(Slash(s), <<"/">>) /\ Tail(Slash(s)) = s
<1>1. PICK slash : slash = "/"
  OBVIOUS
<1>2. slash \in Token
  BY <1>1 DEF Token, TrieWords
<1>3. PICK a, e : a = <<slash>> /\ e = a \o s
  OBVIOUS
<1>4. a \in Seq(Token) /\ Len(a) = 1 /\ a[1] = slash
  BY <1>2, <1>3
<1>5. /\ e \in Seq(Token) /\ Len(e) = Len(s) + 1 /\ e[1] = slash
      /\ \A i \in 1..Len(s) : e[i + 1] = s[i]
  BY <1>3, <1>4
<1>6. StartsWith(e, a)
  BY <1>4, <1>5, Prefix DEF IsSequence
<1>7. Tail(e) = s
  <2>1. /\ Tail(e) \in Seq(Token) /\ Len(Tail(e)) = Len(s)
        /\ \A i \in 1..Len(s) : Tail(e)[i] = e[i + 1]
    BY <1>5
  <2>2. PICK t : t = Tail(e)
    OBVIOUS
  <2>q. QED
    BY <1>5, <2>1, <2>2, Equal
<1>8. e # <<>>
  BY <1>5
<1>9. Slash(s) = e
  BY <1>1, <1>3 DEF Slash, ++
<1>q. QED
  BY <1>1, <1>3, <1>5, <1>6, <1>7, <1>8, <1>9

LEMMA PrefixIs ==
  ASSUME NEW a \in Seq(Token), NEW b \in Seq(Token), NEW n, n = Len(a)
  PROVE  /\ a ++ b \in Seq(Token) /\ Len(a ++ b) = n + Len(b)
         /\ \A i \in 1..n : (a ++ b)[i] = a[i]
         /\ StartsWith(a ++ b, a) /\ After(a ++ b, n) = b
<1>1. PICK s : s = a ++ b
  OBVIOUS
<1>2. /\ s \in Seq(Token) /\ Len(s) = n + Len(b) /\ n \in Nat
      /\ \A i \in 1..n : s[i] = a[i]
      /\ \A i \in 1..Len(b) : s[n + i] = b[i]
  BY <1>1, Joined DEF ++
<1>3. StartsWith(s, a)
  BY <1>2, Prefix DEF IsSequence
<1>4. PICK t : t = After(s, n)
  OBVIOUS
<1>5. t \in Seq(Token) /\ Len(t) = Len(b) /\ \A i \in 1..Len(b) : t[i] = s[n + i]
  BY <1>2, <1>4 DEF After
<1>6. t = b
  BY <1>2, <1>5, Equal
<1>q. QED
  BY <1>1, <1>2, <1>3, <1>4, <1>6

\* A value ends where a stop follows, or nothing.
LEMMA CutIs ==
  ASSUME NEW v \in Seq(Token), NEW rest \in Seq(Token), NEW stops,
         \A i \in 1..Len(v) : v[i] \notin stops,
         rest = <<>> \/ rest[1] \in stops
  PROVE  Cut(v ++ rest, stops).value = v /\ Cut(v ++ rest, stops).rest = rest
<1>1. PICK elem, n : elem = v ++ rest /\ n = Len(v)
  OBVIOUS
<1>2. /\ elem \in Seq(Token) /\ Len(elem) = n + Len(rest) /\ n \in Nat
      /\ \A i \in 1..n : elem[i] = v[i]
      /\ \A i \in 1..Len(rest) : elem[n + i] = rest[i]
  BY <1>1, Joined DEF ++
<1> DEFINE I == {i \in 1..Len(elem) : elem[i] \in stops}
           k == SelectInSeq(elem, LAMBDA t : t \in stops)
<1>3. k = IF I # {} THEN Min(I) ELSE 0
  BY DEF SelectInSeq
<1>4. CASE rest = <<>>
  <2>1. I = {}
    BY <1>1, <1>2, <1>4
  <2>2. Cut(elem, stops).value = elem /\ Cut(elem, stops).rest = <<>>
    BY <1>3, <2>1 DEF Cut
  <2>3. elem = v
    BY <1>1, <1>4, JoinedEmpty DEF ++
  <2>q. QED
    BY <1>1, <1>4, <2>2, <2>3
<1>5. CASE rest # <<>>
  <2>1. n + 1 \in 1..Len(elem) /\ elem[n + 1] = rest[1] /\ rest[1] \in stops
    BY <1>2, <1>5
  <2>2. n + 1 \in I
    BY <2>1
  <2>3. \A i \in I : i \in Nat /\ i >= n + 1
    BY <1>1, <1>2
  <2>4. Min(I) = n + 1
    <3> HIDE DEF I
    <3>1. \A i \in I : i \in Nat
      BY <2>3
    <3>2. Min(I) \in I
      BY <2>2, <3>1, LeastMember
    <3>3. \A i \in I : i >= Min(I)
      <4>1. Min(I) = CHOOSE x \in I : \A y \in I : x <= y
        BY DEF Min
      <4>2. n + 1 \in I /\ \A y \in I : n + 1 <= y
        BY <1>2, <2>2, <2>3
      <4>3. \A y \in I : Min(I) <= y
        BY <4>1, <4>2
      <4>q. QED
        BY <3>1, <3>2, <4>3
    <3>4. Min(I) \in Nat /\ Min(I) >= n + 1 /\ n + 1 >= Min(I)
      BY <2>2, <2>3, <3>2, <3>3
    <3>q. QED
      BY <1>2, <3>4
  <2>5. k = n + 1 /\ k # 0 /\ k - 1 = n
    <3>1. I # {}
      BY <2>2
    <3> HIDE DEF I, k
    <3>q. QED
      BY <1>2, <1>3, <2>4, <3>1
  <2>6. Cut(elem, stops) = [value |-> SubSeq(elem,
                            1, k - 1), rest |-> SubSeq(elem, k, Len(elem))]
    BY <2>5 DEF Cut
  <2>7. /\ Cut(elem, stops).value = SubSeq(elem, 1, n)
        /\ Cut(elem, stops).rest = After(elem, n)
    <3> HIDE DEF k
    <3>1. PICK a, b : a = SubSeq(elem, 1, k - 1) /\ b = SubSeq(elem, k, Len(elem))
      OBVIOUS
    <3>2. Cut(elem, stops) = [value |-> a, rest |-> b]
      BY <2>6, <3>1, Zenon
    <3>3. Cut(elem, stops).value = a /\ Cut(elem, stops).rest = b
      BY <3>2
    <3>4. a = SubSeq(elem, 1, n)
      BY <2>5, <3>1, Zenon
    <3>5. b = After(elem, n)
      BY <2>5, <3>1, Zenon DEF After
    <3>q. QED
      BY <3>3, <3>4, <3>5, Zenon
  <2>8. SubSeq(elem, 1, n) = v
    <3>1. PICK s : s = SubSeq(elem, 1, n)
      OBVIOUS
    <3>2. s \in Seq(Token) /\ Len(s) = n /\ \A i \in 1..n : s[i] = v[i]
      BY <1>2, <3>1
    <3>q. QED
      BY <1>1, <3>1, <3>2, Equal
  <2>9. After(elem, n) = rest
    BY <1>1, PrefixIs
  <2>q. QED
    BY <1>1, <2>7, <2>8, <2>9
<1>q. QED
  BY <1>4, <1>5

LEMMA Literals ==
  ASSUME NEW word \in TrieWords
  PROVE  /\ word \in Token
         /\ Lit(word) \in Seq(Token) /\ Len(Lit(word)) = 2 /\ Lit(word)[1] = "/"
         /\ Lit(word)[2] = word
         /\ Verb(word) \in Seq(Token) /\ Len(Verb(word)) = 2 /\ Verb(word)[1] = ":"
         /\ Verb(word)[2] = word
<1>1. PICK slash, colon : slash = "/" /\ colon = ":"
  OBVIOUS
<1>2. slash \in Token /\ colon \in Token /\ word \in Token
  BY <1>1 DEF Token, TrieWords
<1>3. PICK a, b : a = <<slash, word>> /\ b = <<colon, word>>
  OBVIOUS
<1>4. /\ a \in Seq(Token) /\ Len(a) = 2 /\ a[1] = slash /\ a[2] = word
      /\ b \in Seq(Token) /\ Len(b) = 2 /\ b[1] = colon /\ b[2] = word
  BY <1>2, <1>3
<1>5. Lit(word) = a /\ Verb(word) = b
  BY <1>1, <1>3 DEF Lit, Verb
<1>q. QED
  BY <1>1, <1>2, <1>4, <1>5

\* Longer literals.
LEMMA LongLiterals ==
  ASSUME NEW word \in TrieWords, NEW word2 \in TrieWords
  PROVE  /\ Under(word) \in Seq(Token) /\ Len(Under(word)) = 3
         /\ Under(word)[1] = "/" /\ Under(word)[2] = word /\ Under(word)[3] = "/"
         /\ Verbs(word, word2) \in Seq(Token) /\ Len(Verbs(word, word2)) = 4
         /\ Verbs(word, word2)[1] = ":" /\ Verbs(word, word2)[2] = word
         /\ Verbs(word, word2)[3] = ":" /\ Verbs(word, word2)[4] = word2
         /\ Below(word) \in Seq(Token) /\ Len(Below(word)) = 4
         /\ Below(word)[1] = "/" /\ Below(word)[2] = "v1" /\ Below(word)[3] = "/"
         /\ Below(word)[4] = word
<1>1. PICK slash, colon, v : slash = "/" /\ colon = ":" /\ v = "v1"
  OBVIOUS
<1>2. slash \in Token /\ colon \in Token /\ v \in Token /\ word \in Token /\ word2 \in Token
  BY <1>1 DEF Token, TrieWords
<1>3. PICK a, b, c : /\ a = <<slash, word, slash>> /\ b = <<colon, word, colon, word2>>
                     /\ c = <<slash, v, slash, word>>
  OBVIOUS
<1>4. a \in Seq(Token) /\ Len(a) = 3 /\ a[1] = slash /\ a[2] = word /\ a[3] = slash
  BY <1>2, <1>3
<1>5. /\ b \in Seq(Token) /\ Len(b) = 4 /\ b[1] = colon /\ b[2] = word /\ b[3] = colon
      /\ b[4] = word2
  BY <1>2, <1>3
<1>6. /\ c \in Seq(Token) /\ Len(c) = 4 /\ c[1] = slash /\ c[2] = v /\ c[3] = slash
      /\ c[4] = word
  BY <1>2, <1>3
<1>7. Under(word) = a /\ Verbs(word, word2) = b /\ Below(word) = c
  BY <1>1, <1>3 DEF Under, Verbs, Below
<1>q. QED
  BY <1>1, <1>4, <1>5, <1>6, <1>7

\* What stands between two separators of a path.
IsSegment(v) == v \in Seq(Token) /\ v # <<>> /\ ~Contains(v, "/") /\ ~Contains(v, ":")

LEMMA ValueIsSegment ==
  ASSUME NEW v, IsValue(v)
  PROVE  IsSegment(v)
<1>1. v \in Seq(STRING) /\ STRING \subseteq Token
  BY DEF IsValue, Token
<1>2. v \in Seq(Token)
  BY <1>1, Wider
<1>q. QED
  BY <1>2 DEF IsValue, IsSegment

LEMMA SegmentIs ==
  ASSUME NEW v, IsSegment(v)
  PROVE  /\ v \in Seq(Token) /\ v # <<>> /\ Len(v) \in Nat /\ Len(v) > 0
         /\ \A i \in 1..Len(v) : v[i] # "/" /\ v[i] # ":"
         /\ Contains(v, "/") = FALSE
<1>1. v \in Seq(Token) /\ v # <<>> /\ ~Contains(v, "/") /\ ~Contains(v, ":")
  BY DEF IsSegment
<1>2. \A i \in 1..Len(v) : v[i] # "/" /\ v[i] # ":"
  BY <1>1 DEF Contains
<1>3. Len(v) \in Nat /\ Len(v) > 0
  BY <1>1
<1>q. QED
  BY <1>1, <1>2, <1>3 DEF Contains

\* What is left of the path is a separator, a value and the rest.
Holding(elem, stops, v, rest) ==
  /\ elem \in Seq(Token) /\ elem # <<>> /\ StartsWith(elem, <<"/">>)
  /\ Len(elem) = 1 + Len(v) + Len(rest) /\ elem[1] = "/"
  /\ Cut(Tail(elem), stops).value = v /\ Cut(Tail(elem), stops).rest = rest
  /\ Tail(elem) = v ++ rest /\ \A w : elem # Verb(w)

LEMMA ValueCut ==
  ASSUME NEW v, IsSegment(v), NEW rest \in Seq(Token),
         NEW stops, stops \subseteq {"/", ":"},
         rest = <<>> \/ rest[1] \in stops
  PROVE  Holding(Slash(v ++ rest), stops, v, rest)
<1>1. v \in Seq(Token) /\ \A i \in 1..Len(v) : v[i] \notin stops
  BY SegmentIs
<1>2. PICK s : s = v ++ rest
  OBVIOUS
<1>3. s \in Seq(Token) /\ Len(s) = Len(v) + Len(rest)
  BY <1>1, <1>2, Joined DEF ++
<1>4. PICK elem : elem = Slash(s)
  OBVIOUS
<1>5. /\ elem \in Seq(Token) /\ elem # <<>> /\ elem[1] = "/" /\ StartsWith(elem, <<"/">>)
      /\ Tail(elem) = s /\ Len(elem) = Len(s) + 1
  BY <1>3, <1>4, SlashIs
<1>6. Cut(s, stops).value = v /\ Cut(s, stops).rest = rest
  BY <1>1, <1>2, CutIs
<1>7. PICK a, b, c : a = Len(v) /\ b = Len(rest) /\ c = Len(s)
  OBVIOUS
<1>8. Len(elem) = 1 + Len(v) + Len(rest)
  <2>1. a \in Nat /\ b \in Nat /\ c = a + b /\ Len(elem) = c + 1
    BY <1>1, <1>3, <1>5, <1>7
  <2>2. Len(elem) = 1 + a + b
    BY <2>1
  <2>q. QED
    BY <1>7, <2>2
<1>9. \A w : elem # Verb(w)
  BY <1>5 DEF Verb
<1>10. Holding(elem, stops, v, rest)
  BY <1>2, <1>5, <1>6, <1>8, <1>9 DEF Holding
<1>q. QED
  BY <1>2, <1>4, <1>10

\* ... and there is nothing behind it.
LEMMA ValueAlone ==
  ASSUME NEW v, IsSegment(v), NEW stops, stops \subseteq {"/", ":"}
  PROVE  Holding(Slash(v), stops, v, <<>>)
<1>1. PICK none : none = <<>>
  OBVIOUS
<1>2. none \in Seq(Token) /\ v ++ none = v
  BY <1>1, SegmentIs, JoinedEmpty DEF ++
<1>3. Holding(Slash(v ++ none), stops, v, none)
  BY <1>1, <1>2, ValueCut
<1>q. QED
  BY <1>1, <1>2, <1>3

LEMMA TooLong ==
  ASSUME NEW s \in Seq(Token), NEW x, IsSequence(x), Len(x) > Len(s)
  PROVE  StartsWith(s, x) = FALSE
<1>1. Len(x) \in Nat /\ Len(s) \in Nat
  BY DEF IsSequence
<1>2. ~(Len(x) <= Len(s))
  BY <1>1
<1>q. QED
  BY <1>2, Prefix DEF StartsWith, IsPrefix

LEMMA NotFirst ==
  ASSUME NEW s \in Seq(Token), NEW x, IsSequence(x), s[1] # x[1],
         Len(x) = 1 \/ Len(x) = 2 \/ Len(x) = 3
  PROVE  StartsWith(s, x) = FALSE
<1>1. ~ \A i \in 1..Len(x) : s[i] = x[i]
  OBVIOUS
<1>q. QED
  BY <1>1, Prefix DEF StartsWith, IsPrefix

LEMMA NotSecond ==
  ASSUME NEW s \in Seq(Token), NEW x, IsSequence(x), s[2] # x[2],
         Len(x) = 2 \/ Len(x) = 3
  PROVE  StartsWith(s, x) = FALSE
<1>1. ~ \A i \in 1..Len(x) : s[i] = x[i]
  OBVIOUS
<1>q. QED
  BY <1>1, Prefix DEF StartsWith, IsPrefix

LEMMA OtherLength ==
  ASSUME NEW s, NEW t, NEW i, NEW j, Len(s) = i, Len(t) = j, i # j
  PROVE  s # t
OBVIOUS

LEMMA Lengths ==
  /\ Len(<<>>) = 0 /\ 2 # 0 /\ 4 # 0 /\ 2 # 4
  /\ \A w : Len(Lit(w)) = 2 /\ Len(Verb(w)) = 2
  /\ \A w, w2 : Len(Verbs(w, w2)) = 4
BY DEF Lit, Verb, Verbs

\* What is excluded where nothing is left.
IsNothing(s) ==
  /\ s = <<>>
  /\ \A w : StartsWith(s, Lit(w)) = FALSE /\ StartsWith(s, Under(w)) = FALSE
  /\ \A w : s # Lit(w) /\ s # Verb(w) /\ \A w2 : s # Verbs(w, w2)
  /\ StartsWith(s, <<":">>) = FALSE /\ StartsWith(s, <<"/">>) = FALSE

LEMMA Nothing == IsNothing(<<>>)
<1>1. PICK s : s = <<>>
  OBVIOUS
<1>2. s \in Seq(Token) /\ Len(s) = 0
  BY <1>1
<1>3. ASSUME NEW w
      PROVE  StartsWith(s, Lit(w)) = FALSE /\ StartsWith(s, Under(w)) = FALSE
  <2>1. PICK y, z : y = Lit(w) /\ z = Under(w)
    OBVIOUS
  <2>2. IsSequence(y) /\ IsSequence(z) /\ Len(y) > Len(s) /\ Len(z) > Len(s)
    BY <1>2, <2>1, Tuples DEF Lit, Under
  <2>3. StartsWith(s, y) = FALSE
    BY <1>2, <2>2, TooLong
  <2>4. StartsWith(s, z) = FALSE
    BY <1>2, <2>2, TooLong
  <2>q. QED
    BY <2>1, <2>3, <2>4
<1>4. ASSUME NEW w, NEW w2
      PROVE  s # Lit(w) /\ s # Verb(w) /\ s # Verbs(w, w2)
  BY <1>1 DEF Lit, Verb, Verbs
<1>5. ASSUME NEW sep
      PROVE  StartsWith(s, <<sep>>) = FALSE
  <2>1. PICK y : y = <<sep>>
    OBVIOUS
  <2>2. IsSequence(y) /\ Len(y) > Len(s)
    BY <1>2, <2>1, Tuples
  <2>3. StartsWith(s, y) = FALSE
    BY <1>2, <2>2, TooLong
  <2>q. QED
    BY <2>1, <2>3
<1>6. StartsWith(s, <<":">>) = FALSE /\ StartsWith(s, <<"/">>) = FALSE
  BY <1>5
<1>q. QED
  BY <1>1, <1>3, <1>4, <1>6 DEF IsNothing

\* What a literal excludes.
BeginsLit(s, word, x) ==
  /\ s \in Seq(Token) /\ s # <<>> /\ s[1] = "/" /\ s[2] = word /\ After(s, 2) = x
  /\ StartsWith(s, Lit(word)) /\ Len(s) = 2 + Len(x)
  /\ \A w : w # word => /\ StartsWith(s, Lit(w)) = FALSE
                        /\ StartsWith(s, Under(w)) = FALSE /\ s # Lit(w)
  /\ \A w : s # Verb(w) /\ \A w2 : s # Verbs(w, w2)
  /\ StartsWith(s, <<":">>) = FALSE
  /\ x # <<>> => \A w : s # Lit(w)

LEMMA LitFirst ==
  ASSUME NEW word \in TrieWords, NEW x \in Seq(Token), NEW s, s = Lit(word) ++ x
  PROVE  BeginsLit(s, word, x)
<1>1. PICK a : a = Lit(word)
  OBVIOUS
<1>2. a \in Seq(Token) /\ Len(a) = 2 /\ a[1] = "/" /\ a[2] = word
  BY <1>1, Literals
<1>3. PICK n : n = 2
  OBVIOUS
<1>4. /\ s \in Seq(Token) /\ Len(s) = n + Len(x) /\ \A i \in 1..n : s[i] = a[i]
      /\ StartsWith(s, a) /\ After(s, n) = x
  <2>1. n = Len(a) /\ s = a ++ x
    BY <1>1, <1>2, <1>3
  <2>2. /\ a ++ x \in Seq(Token) /\ Len(a ++ x) = n + Len(x)
        /\ \A i \in 1..n : (a ++ x)[i] = a[i]
        /\ StartsWith(a ++ x, a) /\ After(a ++ x, n) = x
    BY <1>2, <2>1, PrefixIs
  <2>q. QED
    BY <2>1, <2>2
<1>5. Len(x) \in Nat
  OBVIOUS
<1>6. s[1] = "/" /\ s[2] = word /\ s # <<>>
  BY <1>2, <1>3, <1>4, <1>5
<1>7. ASSUME NEW w, w # word
      PROVE  StartsWith(s, Lit(w)) = FALSE /\ StartsWith(s, Under(w)) = FALSE
  <2>1. PICK y, z : y = Lit(w) /\ z = Under(w)
    OBVIOUS
  <2>2. IsSequence(y) /\ IsSequence(z) /\ Len(y) = 2 /\ Len(z) = 3 /\ y[2] = w /\ z[2] = w
    BY <2>1, Tuples DEF Lit, Under
  <2>3. StartsWith(s, y) = FALSE
    BY <1>4, <1>6, <1>7, <2>2, NotSecond
  <2>4. StartsWith(s, z) = FALSE
    BY <1>4, <1>6, <1>7, <2>2, NotSecond
  <2>q. QED
    BY <2>1, <2>3, <2>4
<1>8. ASSUME NEW w
      PROVE  s # Verb(w) /\ \A w2 : s # Verbs(w, w2)
  <2>1. Verb(w)[1] = ":" /\ \A w2 : Verbs(w, w2)[1] = ":"
    BY DEF Verb, Verbs
  <2>q. QED
    BY <1>6, <2>1
<1>9. StartsWith(s, <<":">>) = FALSE
  <2>1. PICK y : y = <<":">>
    OBVIOUS
  <2>2. IsSequence(y) /\ Len(y) = 1 /\ y[1] = ":"
    BY <2>1, Tuples
  <2>3. StartsWith(s, y) = FALSE
    BY <1>4, <1>6, <2>2, NotFirst
  <2>q. QED
    BY <2>1, <2>3
<1>10. ASSUME x # <<>>, NEW w
       PROVE  s # Lit(w)
  <2>1. Len(Lit(w)) = 2
    BY DEF Lit
  <2>2. Len(x) # 0
    BY <1>10
  <2>3. Len(s) # 2
    BY <1>3, <1>4, <1>5, <2>2
  <2>q. QED
    BY <2>1, <2>3
<1>11. ASSUME NEW w, w # word
       PROVE  s # Lit(w)
  <2>1. Lit(w)[2] = w
    BY DEF Lit
  <2>q. QED
    BY <1>6, <1>11, <2>1
<1>q. QED
  BY <1>1, <1>3, <1>4, <1>6, <1>7, <1>8, <1>9, <1>10, <1>11 DEF BeginsLit

IsLit(s, word) ==
  /\ s = Lit(word)
  /\ s \in Seq(Token) /\ s # <<>> /\ s[1] = "/" /\ s[2] = word /\ After(s, 2) = <<>>
  /\ StartsWith(s, Lit(word)) /\ Len(s) = 2
  /\ \A w : w # word => /\ StartsWith(s, Lit(w)) = FALSE
                        /\ StartsWith(s, Under(w)) = FALSE /\ s # Lit(w)
  /\ StartsWith(s, Under(word)) = FALSE
  /\ \A w : s # Verb(w) /\ \A w2 : s # Verbs(w, w2)
  /\ StartsWith(s, <<":">>) = FALSE

LEMMA LitLast ==
  ASSUME NEW word \in TrieWords, NEW s, s = Lit(word)
  PROVE  IsLit(s, word)
<1>1. PICK none : none = <<>>
  OBVIOUS
<1>2. s \in Seq(Token) /\ Len(s) = 2 /\ s[2] = word
  BY Literals
<1>3. none \in Seq(Token) /\ s = Lit(word) ++ none
  BY <1>1, <1>2, JoinedEmpty DEF ++
<1>4. /\ s \in Seq(Token) /\ s # <<>> /\ s[1] = "/" /\ s[2] = word /\ After(s, 2) = none
      /\ StartsWith(s, Lit(word))
      /\ \A w : w # word => StartsWith(s, Lit(w)) = FALSE /\ StartsWith(s, Under(w)) = FALSE
      /\ \A w : s # Verb(w) /\ \A w2 : s # Verbs(w, w2)
      /\ StartsWith(s, <<":">>) = FALSE
  <2>1. PICK t : t = Lit(word) ++ none
    OBVIOUS
  <2>2. BeginsLit(t, word, none)
    BY <1>3, <2>1, LitFirst
  <2>3. s = t
    BY <1>3, <2>1
  <2>q. QED
    BY <2>2, <2>3 DEF BeginsLit
<1>5. \A w : w # word => s # Lit(w)
  BY <1>2 DEF Lit
<1>6. StartsWith(s, Under(word)) = FALSE
  <2>1. PICK z : z = Under(word)
    OBVIOUS
  <2>2. IsSequence(z) /\ Len(z) = 3
    BY <2>1, Tuples DEF Under
  <2>3. Len(z) > Len(s)
    BY <1>2, <2>2
  <2>4. StartsWith(s, z) = FALSE
    BY <1>2, <2>2, <2>3, TooLong
  <2>q. QED
    BY <2>1, <2>4
<1>q. QED
  BY <1>1, <1>2, <1>4, <1>5, <1>6 DEF IsLit

BeginsUnder(s, word, x) ==
  /\ s \in Seq(Token) /\ s # <<>> /\ s[1] = "/" /\ After(s, 3) = x
  /\ StartsWith(s, Under(word)) /\ \A w : s # Lit(w)
  /\ \A w : w # word => StartsWith(s, Lit(w)) = FALSE
  /\ StartsWith(s, <<":">>) = FALSE

LEMMA UnderFirst ==
  ASSUME NEW word \in TrieWords, NEW x \in Seq(Token), NEW s, s = Under(word) ++ x
  PROVE  BeginsUnder(s, word, x)
<1>1. PICK a, n : a = Under(word) /\ n = 3
  OBVIOUS
<1>2. a \in Seq(Token) /\ Len(a) = 3 /\ a[1] = "/" /\ a[2] = word
  BY <1>1, LongLiterals
<1>3. /\ s \in Seq(Token) /\ Len(s) = n + Len(x) /\ \A i \in 1..n : s[i] = a[i]
      /\ StartsWith(s, a) /\ After(s, n) = x
  <2>1. n = Len(a) /\ s = a ++ x
    BY <1>1, <1>2
  <2>2. /\ a ++ x \in Seq(Token) /\ Len(a ++ x) = n + Len(x)
        /\ \A i \in 1..n : (a ++ x)[i] = a[i]
        /\ StartsWith(a ++ x, a) /\ After(a ++ x, n) = x
    BY <1>2, <2>1, PrefixIs
  <2>q. QED
    BY <2>1, <2>2
<1>4. Len(x) \in Nat
  OBVIOUS
<1>5. s[1] = "/" /\ s[2] = word /\ s # <<>> /\ Len(s) # 2
  BY <1>1, <1>2, <1>3, <1>4
<1>6. \A w : Len(Lit(w)) = 2
  BY DEF Lit
<1>7. ASSUME NEW w, w # word
      PROVE  StartsWith(s, Lit(w)) = FALSE
  <2>1. PICK y : y = Lit(w)
    OBVIOUS
  <2>2. IsSequence(y) /\ Len(y) = 2 /\ y[2] = w
    BY <2>1, Tuples DEF Lit
  <2>3. StartsWith(s, y) = FALSE
    BY <1>3, <1>5, <1>7, <2>2, NotSecond
  <2>q. QED
    BY <2>1, <2>3
<1>8. StartsWith(s, <<":">>) = FALSE
  <2>1. PICK y : y = <<":">>
    OBVIOUS
  <2>2. IsSequence(y) /\ Len(y) = 1 /\ y[1] = ":"
    BY <2>1, Tuples
  <2>3. StartsWith(s, y) = FALSE
    BY <1>3, <1>5, <2>2, NotFirst
  <2>q. QED
    BY <2>1, <2>3
<1>q. QED
  BY <1>1, <1>3, <1>5, <1>6, <1>7, <1>8 DEF BeginsUnder

IsVerb(s, word) ==
  /\ s = Verb(word)
  /\ s \in Seq(Token) /\ s # <<>> /\ s[1] = ":" /\ Len(s) = 2
  /\ \A w : /\ StartsWith(s, Lit(w)) = FALSE
            /\ StartsWith(s, Under(w)) = FALSE /\ s # Lit(w)
  /\ \A w : w # word => s # Verb(w)
  /\ \A w, w2 : s # Verbs(w, w2)
  /\ StartsWith(s, <<":">>) /\ StartsWith(s, <<"/">>) = FALSE

LEMMA VerbLast ==
  ASSUME NEW word \in TrieWords, NEW s, s = Verb(word)
  PROVE  IsVerb(s, word)
<1>1. s \in Seq(Token) /\ Len(s) = 2 /\ s[1] = ":" /\ s[2] = word
  BY Literals
<1>2. s # <<>>
  BY <1>1, Lengths, OtherLength
<1>3. ASSUME NEW w
      PROVE  /\ StartsWith(s, Lit(w)) = FALSE
             /\ StartsWith(s, Under(w)) = FALSE /\ s # Lit(w)
  <2>1. PICK y, z : y = Lit(w) /\ z = Under(w)
    OBVIOUS
  <2>2. /\ IsSequence(y) /\ IsSequence(z) /\ Len(y) = 2 /\ Len(z) = 3
        /\ y[1] = "/" /\ z[1] = "/"
    BY <2>1, Tuples DEF Lit, Under
  <2>3. StartsWith(s, y) = FALSE
    BY <1>1, <2>2, NotFirst
  <2>4. StartsWith(s, z) = FALSE
    BY <1>1, <2>2, NotFirst
  <2>5. s # y
    BY <1>1, <2>2
  <2>q. QED
    BY <2>1, <2>3, <2>4, <2>5
<1>4. \A w : w # word => s # Verb(w)
  BY <1>1 DEF Verb
<1>5. ASSUME NEW w, NEW w2
      PROVE  s # Verbs(w, w2)
  <2>1. Len(Verbs(w, w2)) = 4 /\ 2 # 4 /\ Len(s) = 2
    BY <1>1, Lengths
  <2>q. QED
    BY <2>1, OtherLength
<1>6. PICK y, z : y = <<":">> /\ z = <<"/">>
  OBVIOUS
<1>7. /\ IsSequence(y) /\ IsSequence(z) /\ Len(y) = 1 /\ Len(z) = 1
      /\ y[1] = ":" /\ z[1] = "/"
  BY <1>6, Tuples
<1>8. StartsWith(s, z) = FALSE
  BY <1>1, <1>7, NotFirst
<1>9. StartsWith(s, y)
  <2>1. Len(y) <= Len(s) /\ \A i \in 1..Len(y) : s[i] = y[i]
    BY <1>1, <1>7
  <2>q. QED
    BY <1>1, <1>7, <2>1, Prefix
<1>q. QED
  BY <1>1, <1>2, <1>3, <1>4, <1>5, <1>6, <1>8, <1>9 DEF IsVerb

IsVerbs(s, word, word2) ==
  /\ s = Verbs(word, word2)
  /\ s \in Seq(Token) /\ s # <<>> /\ s[1] = ":" /\ Len(s) = 4
  /\ \A w : StartsWith(s, Lit(w)) = FALSE /\ s # Lit(w) /\ s # Verb(w)
  /\ \A w, w2 : w # word \/ w2 # word2 => s # Verbs(w, w2)
  /\ StartsWith(s, <<"/">>) = FALSE

LEMMA VerbsLast ==
  ASSUME NEW word \in TrieWords, NEW word2 \in TrieWords, NEW s, s = Verbs(word, word2)
  PROVE  IsVerbs(s, word, word2)
<1>1. s \in Seq(Token) /\ Len(s) = 4 /\ s[1] = ":" /\ s[2] = word /\ s[4] = word2
  BY LongLiterals
<1>2. s # <<>>
  BY <1>1, Lengths, OtherLength
<1>3. ASSUME NEW w
      PROVE  StartsWith(s, Lit(w)) = FALSE /\ s # Lit(w) /\ s # Verb(w)
  <2>1. PICK y, z : y = Lit(w) /\ z = Verb(w)
    OBVIOUS
  <2>2. IsSequence(y) /\ Len(y) = 2 /\ Len(z) = 2 /\ y[1] = "/"
    BY <2>1, Tuples DEF Lit, Verb
  <2>3. StartsWith(s, y) = FALSE
    BY <1>1, <2>2, NotFirst
  <2>4. s # y /\ s # z
    BY <1>1, <2>2, Lengths, OtherLength
  <2>q. QED
    BY <2>1, <2>3, <2>4
<1>4. \A w, w2 : w # word \/ w2 # word2 => s # Verbs(w, w2)
  BY <1>1 DEF Verbs
<1>5. PICK z : z = <<"/">>
  OBVIOUS
<1>6. IsSequence(z) /\ Len(z) = 1 /\ z[1] = "/"
  BY <1>5, Tuples
<1>7. StartsWith(s, z) = FALSE
  BY <1>1, <1>6, NotFirst
<1>q. QED
  BY <1>1, <1>2, <1>3, <1>4, <1>5, <1>7 DEF IsVerbs

\* The literals of the trie, and what they exclude.
LEMMA Literally ==
  ASSUME NEW word \in TrieWords
  PROVE  /\ IsLit(Lit(word), word) /\ IsVerb(Verb(word), word)
         /\ \A word2 \in TrieWords : IsVerbs(Verbs(word, word2), word, word2)
         /\ \A x \in Seq(Token) : /\ BeginsLit(Lit(word) ++ x, word, x)
                                /\ BeginsUnder(Under(word) ++ x, word, x)
BY LitFirst, LitLast, UnderFirst, VerbLast, VerbsLast

-----------------------------------------------------------------------------
(* At the root.                                                            *)

BeginsBelow(path, word, elem) ==
  /\ path \in Seq(Token) /\ After(path, 4) = elem /\ StartsWith(path, Below(word))
  /\ \A w : w # word => StartsWith(path, Below(w)) = FALSE
  /\ \A w : path # Lit(w)

LEMMA BelowFirst ==
  ASSUME NEW word \in TrieWords, NEW elem \in Seq(Token)
  PROVE  BeginsBelow(Below(word) ++ elem, word, elem)
<1>1. PICK a, n, path : a = Below(word) /\ n = 4 /\ path = a ++ elem
  OBVIOUS
<1>2. a \in Seq(Token) /\ Len(a) = 4 /\ a[4] = word
  BY <1>1, LongLiterals
<1>3. /\ path \in Seq(Token) /\ Len(path) = n + Len(elem) /\ \A i \in 1..n : path[i] = a[i]
      /\ StartsWith(path, a) /\ After(path, n) = elem
  <2>1. n = Len(a)
    BY <1>1, <1>2
  <2>2. /\ a ++ elem \in Seq(Token) /\ Len(a ++ elem) = n + Len(elem)
        /\ \A i \in 1..n : (a ++ elem)[i] = a[i]
        /\ StartsWith(a ++ elem, a) /\ After(a ++ elem, n) = elem
    BY <1>2, <2>1, PrefixIs
  <2>q. QED
    BY <1>1, <2>2
<1>4. Len(elem) \in Nat
  OBVIOUS
<1>5. path[4] = word
  BY <1>1, <1>2, <1>3
<1>6. Len(path) # 2
  BY <1>1, <1>3, <1>4
<1>7. ASSUME NEW w, w # word
      PROVE  StartsWith(path, Below(w)) = FALSE
  <2>1. PICK y : y = Below(w)
    OBVIOUS
  <2>2. IsSequence(y) /\ Len(y) = 4 /\ y[4] = w
    BY <2>1, Tuples DEF Below
  <2>3. ~ \A i \in 1..Len(y) : path[i] = y[i]
    BY <1>5, <1>7, <2>2
  <2>4. StartsWith(path, y) = FALSE
    BY <1>3, <2>2, <2>3, Prefix DEF StartsWith, IsPrefix
  <2>q. QED
    BY <2>1, <2>4
<1>8. ASSUME NEW w
      PROVE  path # Lit(w)
  <2>1. Len(Lit(w)) = 2
    BY Lengths
  <2>q. QED
    BY <1>6, <2>1
<1>9. BeginsBelow(path, word, elem)
  BY <1>1, <1>3, <1>7, <1>8 DEF BeginsBelow
<1>q. QED
  BY <1>1, <1>9

\* A path below v1 is in one subtree.
InSubtree(path, word, elem) ==
  /\ path \in Seq(Token) /\ After(path, 4) = elem
  /\ path # Lit("healthz") /\ path # Lit("readyz")
  /\ StartsWith(path, Below("auth")) = (word = "auth")
  /\ StartsWith(path, Below("auditLogs")) = (word = "auditLogs")
  /\ StartsWith(path, Below("environments")) = (word = "environments")
  /\ StartsWith(path, Below("groups")) = (word = "groups")
  /\ StartsWith(path, Below("iam")) = (word = "iam")
  /\ StartsWith(path, Below("identityProviders")) = (word = "identityProviders")
  /\ StartsWith(path, Below("projects")) = (word = "projects")
  /\ StartsWith(path, Below("queryHistories")) = (word = "queryHistories")
  /\ StartsWith(path, Below("settings")) = (word = "settings")
  /\ StartsWith(path, Below("users")) = (word = "users")

LEMMA BelowIs ==
  ASSUME NEW word \in TrieWords, NEW elem \in Seq(Token), NEW path,
         path = Below(word) ++ elem
  PROVE  InSubtree(path, word, elem)
<1>1. BeginsBelow(path, word, elem)
  BY BelowFirst
<1>2. path \in Seq(Token) /\ After(path, 4) = elem /\ path # Lit("healthz") /\ path # Lit("readyz")
  BY <1>1 DEF BeginsBelow
<1>3. ASSUME NEW w
      PROVE  StartsWith(path, Below(w)) = (word = w)
  BY <1>1 DEF BeginsBelow, StartsWith, IsPrefix
<1>q. QED
  BY <1>2, <1>3 DEF InSubtree

LEMMA OneSubtree ==
  ASSUME NEW word \in TrieWords, NEW elem \in Seq(Token)
  PROVE  \E path : InSubtree(path, word, elem)
BY BelowIs

Reaches(m, to) == \E path \in Seq(Token) : ServeHTTP(m, path) = to

LEMMA SubtreesServed ==
  ASSUME NEW m, NEW elem \in Seq(Token)
  PROVE  /\ RouteAuth(m, elem) # NotFound => Reaches(m, RouteAuth(m, elem))
         /\ RouteAuth(m, elem) = NotFound => Reaches(m, RoutePassword(m, elem))
         /\ Reaches(m, RouteAudit(m, elem))
         /\ Reaches(m, RouteEnvironments(m, elem))
         /\ Reaches(m, RouteGroups(m, elem))
         /\ Reaches(m, RouteIam(m, elem))
         /\ Reaches(m, RouteIdentityProviders(m, elem))
         /\ Reaches(m, RouteProjects(m, elem))
         /\ elem = Verb("search") =>
              Reaches(m, Dispatch(m, [GET |-> "QueryHistoriesSearch"], <<>>))
         /\ Reaches(m, RouteSettings(m, elem))
         /\ Reaches(m, RouteUsers(m, elem))
<1>1. ASSUME RouteAuth(m, elem) # NotFound
      PROVE  Reaches(m, RouteAuth(m, elem))
  <2>1. PICK path : InSubtree(path, "auth", elem)
    BY OneSubtree DEF TrieWords
  <2>2. ServeHTTP(m, path) = RouteAuth(m, elem)
    BY <2>1, <1>1 DEF InSubtree, ServeHTTP, Below, Lit
  <2>q. QED
    BY <2>1, <2>2 DEF InSubtree, Reaches
<1>2. ASSUME RouteAuth(m, elem) = NotFound
      PROVE  Reaches(m, RoutePassword(m, elem))
  <2>1. PICK path : InSubtree(path, "auth", elem)
    BY OneSubtree DEF TrieWords
  <2>2. ServeHTTP(m, path) = RoutePassword(m, elem)
    BY <2>1, <1>2 DEF InSubtree, ServeHTTP, Below, Lit
  <2>q. QED
    BY <2>1, <2>2 DEF InSubtree, Reaches
<1>3. Reaches(m, RouteAudit(m, elem))
  <2>1. PICK path : InSubtree(path, "auditLogs", elem)
    BY OneSubtree DEF TrieWords
  <2>2. ServeHTTP(m, path) = RouteAudit(m, elem)
    BY <2>1 DEF InSubtree, ServeHTTP, Below, Lit
  <2>q. QED
    BY <2>1, <2>2 DEF InSubtree, Reaches
<1>4. Reaches(m, RouteEnvironments(m, elem))
  <2>1. PICK path : InSubtree(path, "environments", elem)
    BY OneSubtree DEF TrieWords
  <2>2. ServeHTTP(m, path) = RouteEnvironments(m, elem)
    BY <2>1 DEF InSubtree, ServeHTTP, Below, Lit
  <2>q. QED
    BY <2>1, <2>2 DEF InSubtree, Reaches
<1>5. Reaches(m, RouteGroups(m, elem))
  <2>1. PICK path : InSubtree(path, "groups", elem)
    BY OneSubtree DEF TrieWords
  <2>2. ServeHTTP(m, path) = RouteGroups(m, elem)
    BY <2>1 DEF InSubtree, ServeHTTP, Below, Lit
  <2>q. QED
    BY <2>1, <2>2 DEF InSubtree, Reaches
<1>6. Reaches(m, RouteIam(m, elem))
  <2>1. PICK path : InSubtree(path, "iam", elem)
    BY OneSubtree DEF TrieWords
  <2>2. ServeHTTP(m, path) = RouteIam(m, elem)
    BY <2>1 DEF InSubtree, ServeHTTP, Below, Lit
  <2>q. QED
    BY <2>1, <2>2 DEF InSubtree, Reaches
<1>7. Reaches(m, RouteIdentityProviders(m, elem))
  <2>1. PICK path : InSubtree(path, "identityProviders", elem)
    BY OneSubtree DEF TrieWords
  <2>2. ServeHTTP(m, path) = RouteIdentityProviders(m, elem)
    BY <2>1 DEF InSubtree, ServeHTTP, Below, Lit
  <2>q. QED
    BY <2>1, <2>2 DEF InSubtree, Reaches
<1>8. Reaches(m, RouteProjects(m, elem))
  <2>1. PICK path : InSubtree(path, "projects", elem)
    BY OneSubtree DEF TrieWords
  <2>2. ServeHTTP(m, path) = RouteProjects(m, elem)
    BY <2>1 DEF InSubtree, ServeHTTP, Below, Lit
  <2>q. QED
    BY <2>1, <2>2 DEF InSubtree, Reaches
<1>9. ASSUME elem = Verb("search")
      PROVE  Reaches(m, Dispatch(m, [GET |-> "QueryHistoriesSearch"], <<>>))
  <2>1. PICK path : InSubtree(path, "queryHistories", elem)
    BY OneSubtree DEF TrieWords
  <2>2. ServeHTTP(m, path) = Dispatch(m, [GET |-> "QueryHistoriesSearch"], <<>>)
    BY <2>1, <1>9 DEF InSubtree, ServeHTTP, Below, Lit, Verb
  <2>q. QED
    BY <2>1, <2>2 DEF InSubtree, Reaches
<1>10. Reaches(m, RouteSettings(m, elem))
  <2>1. PICK path : InSubtree(path, "settings", elem)
    BY OneSubtree DEF TrieWords
  <2>2. ServeHTTP(m, path) = RouteSettings(m, elem)
    BY <2>1 DEF InSubtree, ServeHTTP, Below, Lit
  <2>q. QED
    BY <2>1, <2>2 DEF InSubtree, Reaches
<1>11. Reaches(m, RouteUsers(m, elem))
  <2>1. PICK path : InSubtree(path, "users", elem)
    BY OneSubtree DEF TrieWords
  <2>2. ServeHTTP(m, path) = RouteUsers(m, elem)
    BY <2>1 DEF InSubtree, ServeHTTP, Below, Lit
  <2>q. QED
    BY <2>1, <2>2 DEF InSubtree, Reaches
<1>q. QED
  BY <1>1, <1>2, <1>3, <1>4, <1>5, <1>6, <1>7, <1>8, <1>9, <1>10, <1>11

\* k values for the placeholders of a route.
Fits(values, k) ==
  /\ values \in Seq(Seq(Token)) /\ Len(values) = k
  /\ \A i \in 1..k : IsSegment(values[i])

\* With any values, there is a path that has the router dispatch on ops.
Leads(ops, k) ==
  \A m, values : Fits(values, k) => Reaches(m, Dispatch(m, ops, values))

LEMMA FitsIs ==
  ASSUME NEW values
  PROVE  /\ Fits(values, 0) => values = <<>>
         /\ Fits(values, 1) => values = <<values[1]>> /\ IsSegment(values[1])
         /\ Fits(values, 2) =>
              values = <<values[1], values[2]>> /\ IsSegment(values[1]) /\ IsSegment(values[2])
         /\ Fits(values, 3) => /\ values = <<values[1], values[2], values[3]>>
                               /\ IsSegment(values[1]) /\ IsSegment(values[2]) /\ IsSegment(values[3])
<1>1. ASSUME Fits(values, 0)
      PROVE  values = <<>>
  BY <1>1 DEF Fits
<1>2. ASSUME Fits(values, 1)
      PROVE  values = <<values[1]>> /\ IsSegment(values[1])
  <2>1. values \in Seq(Seq(Token)) /\ Len(values) = 1 /\ IsSegment(values[1])
    BY <1>2 DEF Fits
  <2>q. QED
    BY <2>1
<1>3. ASSUME Fits(values, 2)
      PROVE  values = <<values[1], values[2]>> /\ IsSegment(values[1]) /\ IsSegment(values[2])
  <2>1. /\ values \in Seq(Seq(Token)) /\ Len(values) = 2
        /\ IsSegment(values[1]) /\ IsSegment(values[2])
    BY <1>3 DEF Fits
  <2>q. QED
    BY <2>1
<1>4. ASSUME Fits(values, 3)
      PROVE  /\ values = <<values[1], values[2], values[3]>>
             /\ IsSegment(values[1]) /\ IsSegment(values[2]) /\ IsSegment(values[3])
  <2>1. /\ values \in Seq(Seq(Token)) /\ Len(values) = 3
        /\ IsSegment(values[1]) /\ IsSegment(values[2]) /\ IsSegment(values[3])
    BY <1>4 DEF Fits
  <2>q. QED
    BY <2>1
<1>q. QED
  BY <1>1, <1>2, <1>3, <1>4

LEMMA ToLead ==
  ASSUME NEW ops
  PROVE  /\ (\A m : Reaches(m, Dispatch(m, ops, <<>>))) => Leads(ops, 0)
         /\ (\A m, v : IsSegment(v) => Reaches(m, Dispatch(m, ops, <<v>>))) => Leads(ops, 1)
         /\ (\A m, v, w : IsSegment(v) /\ IsSegment(w) => Reaches(m, Dispatch(m, ops, <<v, w>>)))
              => Leads(ops, 2)
         /\ (\A m, v, w, x : IsSegment(v) /\ IsSegment(w) /\ IsSegment(x) =>
                Reaches(m, Dispatch(m, ops, <<v, w, x>>)))
              => Leads(ops, 3)
<1>1. ASSUME \A m : Reaches(m, Dispatch(m, ops, <<>>)), NEW m, NEW values, Fits(values, 0)
      PROVE  Reaches(m, Dispatch(m, ops, values))
  BY <1>1, FitsIs
<1>2. ASSUME \A m, v : IsSegment(v) => Reaches(m, Dispatch(m, ops, <<v>>)),
             NEW m, NEW values, Fits(values, 1)
      PROVE  Reaches(m, Dispatch(m, ops, values))
  <2>1. PICK a : a = values[1]
    OBVIOUS
  <2>2. values = <<a>> /\ IsSegment(a)
    BY <1>2, <2>1, FitsIs
  <2>3. Reaches(m, Dispatch(m, ops, <<a>>))
    BY <1>2, <2>2
  <2>q. QED
    BY <2>2, <2>3
<1>3. ASSUME \A m, v, w : IsSegment(v) /\ IsSegment(w) => Reaches(m, Dispatch(m, ops, <<v, w>>)),
             NEW m, NEW values, Fits(values, 2)
      PROVE  Reaches(m, Dispatch(m, ops, values))
  <2>1. PICK a, b : a = values[1] /\ b = values[2]
    OBVIOUS
  <2>2. values = <<a, b>> /\ IsSegment(a) /\ IsSegment(b)
    BY <1>3, <2>1, FitsIs
  <2>3. Reaches(m, Dispatch(m, ops, <<a, b>>))
    BY <1>3, <2>2
  <2>q. QED
    BY <2>2, <2>3
<1>4. ASSUME \A m, v, w, x : IsSegment(v) /\ IsSegment(w) /\ IsSegment(x) =>
               Reaches(m, Dispatch(m, ops, <<v, w, x>>)),
             NEW m, NEW values, Fits(values, 3)
      PROVE  Reaches(m, Dispatch(m, ops, values))
  <2>1. PICK a, b, c : a = values[1] /\ b = values[2] /\ c = values[3]
    OBVIOUS
  <2>2. values = <<a, b, c>> /\ IsSegment(a) /\ IsSegment(b) /\ IsSegment(c)
    BY <1>4, <2>1, FitsIs
  <2>3. Reaches(m, Dispatch(m, ops, <<a, b, c>>))
    BY <1>4, <2>2
  <2>q. QED
    BY <2>2, <2>3
<1>q. QED
  BY <1>1, <1>2, <1>3, <1>4 DEF Leads

LEMMA BothVerbs ==
  /\ \E s : IsVerbs(s, "passwordReset", "confirm")
  /\ \E s : IsVerbs(s, "passwordReset", "request")
  /\ \E s : IsVerbs(s, "mfa", "regenerate")
<1>1. PICK a, b, c, d, e : /\ a = "passwordReset" /\ b = "confirm" /\ c = "request"
                          /\ d = "mfa" /\ e = "regenerate"
  OBVIOUS
<1>2. a \in TrieWords /\ b \in TrieWords /\ c \in TrieWords /\ d \in TrieWords /\ e \in TrieWords
  BY <1>1 DEF TrieWords
<1>3. /\ IsVerbs(Verbs(a, b), a, b) /\ IsVerbs(Verbs(a, c), a, c)
      /\ IsVerbs(Verbs(d, e), d, e)
  BY <1>2, Literally
<1>q. QED
  BY <1>1, <1>3

LEMMA SomewhereFound ==
  ASSUME NEW m, NEW ops, NEW got
  PROVE  Dispatch(m, ops, got) # NotFound
BY DEF Dispatch, NotFound, NotAllowed, To

LEMMA AuthLeads ==
  /\ Leads([GET |-> "AuthCsrf"], 0)
  /\ Leads([POST |-> "AuthLogin"], 0)
  /\ Leads([POST |-> "AuthLogout"], 0)
<1>1. ASSUME NEW m
      PROVE  Reaches(m, Dispatch(m, [GET |-> "AuthCsrf"], <<>>))
  <2>1. PICK elem : IsLit(elem, "csrf")
    BY Literally DEF TrieWords
  <2>2. /\ elem = Lit("csrf")
        /\ elem # Verb("login")
        /\ elem # Verb("logout")
        /\ elem \in Seq(Token)
    BY <2>1 DEF IsLit
  <2>3. RouteAuth(m, elem) = Dispatch(m, [GET |-> "AuthCsrf"], <<>>)
    BY <2>2 DEF RouteAuth, Lit, Verb
  <2>q. QED
    BY <1>1, <2>2, <2>3, SomewhereFound, SubtreesServed
<1>2. ASSUME NEW m
      PROVE  Reaches(m, Dispatch(m, [POST |-> "AuthLogin"], <<>>))
  <2>1. PICK elem : IsVerb(elem, "login")
    BY Literally DEF TrieWords
  <2>2. /\ elem # Lit("csrf")
        /\ elem = Verb("login")
        /\ elem # Verb("logout")
        /\ elem \in Seq(Token)
    BY <2>1 DEF IsVerb
  <2>3. RouteAuth(m, elem) = Dispatch(m, [POST |-> "AuthLogin"], <<>>)
    BY <2>2 DEF RouteAuth, Lit, Verb
  <2>q. QED
    BY <1>2, <2>2, <2>3, SomewhereFound, SubtreesServed
<1>3. ASSUME NEW m
      PROVE  Reaches(m, Dispatch(m, [POST |-> "AuthLogout"], <<>>))
  <2>1. PICK elem : IsVerb(elem, "logout")
    BY Literally DEF TrieWords
  <2>2. /\ elem # Lit("csrf")
        /\ elem # Verb("login")
        /\ elem = Verb("logout")
        /\ elem \in Seq(Token)
    BY <2>1 DEF IsVerb
  <2>3. RouteAuth(m, elem) = Dispatch(m, [POST |-> "AuthLogout"], <<>>)
    BY <2>2 DEF RouteAuth, Lit, Verb
  <2>q. QED
    BY <1>3, <2>2, <2>3, SomewhereFound, SubtreesServed
<1>q. QED
  BY <1>1, <1>2, <1>3, ToLead

LEMMA PasswordLeads ==
  /\ Leads([POST |-> "AuthPasswordResetConfirm"], 0)
  /\ Leads([POST |-> "AuthPasswordResetRequest"], 0)
  /\ Leads([POST |-> "AuthRefresh"], 0)
<1>1. ASSUME NEW m
      PROVE  Reaches(m, Dispatch(m, [POST |-> "AuthPasswordResetConfirm"], <<>>))
  <2>1. PICK elem : IsVerbs(elem, "passwordReset", "confirm")
    BY BothVerbs
  <2>2. /\ elem # Lit("csrf")
        /\ elem # Verb("login")
        /\ elem # Verb("logout")
        /\ elem = Verbs("passwordReset", "confirm")
        /\ elem # Verbs("passwordReset", "request")
        /\ elem # Verb("refresh")
        /\ elem \in Seq(Token)
    BY <2>1 DEF IsVerbs
  <2>3. /\ RouteAuth(m, elem) = NotFound
        /\ RoutePassword(m, elem)
             = Dispatch(m, [POST |-> "AuthPasswordResetConfirm"], <<>>)
    BY <2>2 DEF RouteAuth, RoutePassword, Lit, Verb, Verbs
  <2>q. QED
    BY <1>1, <2>2, <2>3, SomewhereFound, SubtreesServed
<1>2. ASSUME NEW m
      PROVE  Reaches(m, Dispatch(m, [POST |-> "AuthPasswordResetRequest"], <<>>))
  <2>1. PICK elem : IsVerbs(elem, "passwordReset", "request")
    BY BothVerbs
  <2>2. /\ elem # Lit("csrf")
        /\ elem # Verb("login")
        /\ elem # Verb("logout")
        /\ elem # Verbs("passwordReset", "confirm")
        /\ elem = Verbs("passwordReset", "request")
        /\ elem # Verb("refresh")
        /\ elem \in Seq(Token)
    BY <2>1 DEF IsVerbs
  <2>3. /\ RouteAuth(m, elem) = NotFound
        /\ RoutePassword(m, elem)
             = Dispatch(m, [POST |-> "AuthPasswordResetRequest"], <<>>)
    BY <2>2 DEF RouteAuth, RoutePassword, Lit, Verb, Verbs
  <2>q. QED
    BY <1>2, <2>2, <2>3, SomewhereFound, SubtreesServed
<1>3. ASSUME NEW m
      PROVE  Reaches(m, Dispatch(m, [POST |-> "AuthRefresh"], <<>>))
  <2>1. PICK elem : IsVerb(elem, "refresh")
    BY Literally DEF TrieWords
  <2>2. /\ elem # Lit("csrf")
        /\ elem # Verb("login")
        /\ elem # Verb("logout")
        /\ elem # Verbs("passwordReset", "confirm")
        /\ elem # Verbs("passwordReset", "request")
        /\ elem = Verb("refresh")
        /\ elem \in Seq(Token)
    BY <2>1 DEF IsVerb
  <2>3. /\ RouteAuth(m, elem) = NotFound
        /\ RoutePassword(m, elem)
             = Dispatch(m, [POST |-> "AuthRefresh"], <<>>)
    BY <2>2 DEF RouteAuth, RoutePassword, Lit, Verb, Verbs
  <2>q. QED
    BY <1>3, <2>2, <2>3, SomewhereFound, SubtreesServed
<1>q. QED
  BY <1>1, <1>2, <1>3, ToLead

LEMMA AuditLeads ==
  /\ Leads([POST |-> "ExportAuditLogs"], 0)
  /\ Leads([POST |-> "SearchAuditLogs"], 0)
<1>1. ASSUME NEW m
      PROVE  Reaches(m, Dispatch(m, [POST |-> "ExportAuditLogs"], <<>>))
  <2>1. PICK elem : IsVerb(elem, "export")
    BY Literally DEF TrieWords
  <2>2. /\ elem = Verb("export")
        /\ elem # Verb("search")
        /\ elem \in Seq(Token)
    BY <2>1 DEF IsVerb
  <2>3. RouteAudit(m, elem) = Dispatch(m, [POST |-> "ExportAuditLogs"], <<>>)
    BY <2>2 DEF RouteAudit, Verb
  <2>q. QED
    BY <1>1, <2>2, <2>3, SubtreesServed
<1>2. ASSUME NEW m
      PROVE  Reaches(m, Dispatch(m, [POST |-> "SearchAuditLogs"], <<>>))
  <2>1. PICK elem : IsVerb(elem, "search")
    BY Literally DEF TrieWords
  <2>2. /\ elem # Verb("export")
        /\ elem = Verb("search")
        /\ elem \in Seq(Token)
    BY <2>1 DEF IsVerb
  <2>3. RouteAudit(m, elem) = Dispatch(m, [POST |-> "SearchAuditLogs"], <<>>)
    BY <2>2 DEF RouteAudit, Verb
  <2>q. QED
    BY <1>2, <2>2, <2>3, SubtreesServed
<1>q. QED
  BY <1>1, <1>2, ToLead

LEMMA IamLeads ==
  /\ Leads([POST |-> "GetIamPolicy"], 0)
  /\ Leads([POST |-> "SetIamPolicy"], 0)
  /\ Leads([POST |-> "TestIamPermissions"], 0)
<1>1. ASSUME NEW m
      PROVE  Reaches(m, Dispatch(m, [POST |-> "GetIamPolicy"], <<>>))
  <2>1. PICK elem : IsVerb(elem, "getIamPolicy")
    BY Literally DEF TrieWords
  <2>2. /\ elem = Verb("getIamPolicy")
        /\ elem # Verb("setIamPolicy")
        /\ elem # Verb("testIamPermissions")
        /\ elem \in Seq(Token)
    BY <2>1 DEF IsVerb
  <2>3. RouteIam(m, elem) = Dispatch(m, [POST |-> "GetIamPolicy"], <<>>)
    BY <2>2 DEF RouteIam, Verb
  <2>q. QED
    BY <1>1, <2>2, <2>3, SubtreesServed
<1>2. ASSUME NEW m
      PROVE  Reaches(m, Dispatch(m, [POST |-> "SetIamPolicy"], <<>>))
  <2>1. PICK elem : IsVerb(elem, "setIamPolicy")
    BY Literally DEF TrieWords
  <2>2. /\ elem # Verb("getIamPolicy")
        /\ elem = Verb("setIamPolicy")
        /\ elem # Verb("testIamPermissions")
        /\ elem \in Seq(Token)
    BY <2>1 DEF IsVerb
  <2>3. RouteIam(m, elem) = Dispatch(m, [POST |-> "SetIamPolicy"], <<>>)
    BY <2>2 DEF RouteIam, Verb
  <2>q. QED
    BY <1>2, <2>2, <2>3, SubtreesServed
<1>3. ASSUME NEW m
      PROVE  Reaches(m, Dispatch(m, [POST |-> "TestIamPermissions"], <<>>))
  <2>1. PICK elem : IsVerb(elem, "testIamPermissions")
    BY Literally DEF TrieWords
  <2>2. /\ elem # Verb("getIamPolicy")
        /\ elem # Verb("setIamPolicy")
        /\ elem = Verb("testIamPermissions")
        /\ elem \in Seq(Token)
    BY <2>1 DEF IsVerb
  <2>3. RouteIam(m, elem) = Dispatch(m, [POST |-> "TestIamPermissions"], <<>>)
    BY <2>2 DEF RouteIam, Verb
  <2>q. QED
    BY <1>3, <2>2, <2>3, SubtreesServed
<1>q. QED
  BY <1>1, <1>2, <1>3, ToLead

LEMMA QueryHistoriesLead ==
  Leads([GET |-> "QueryHistoriesSearch"], 0)
<1>1. ASSUME NEW m
      PROVE  Reaches(m, Dispatch(m, [GET |-> "QueryHistoriesSearch"], <<>>))
  <2>1. PICK elem : IsVerb(elem, "search")
    BY Literally DEF TrieWords
  <2>2. /\ elem = Verb("search")
        /\ elem \in Seq(Token)
    BY <2>1 DEF IsVerb
  <2>q. QED
    BY <1>1, <2>2, SubtreesServed
<1>q. QED
  BY <1>1, ToLead

LEMMA EnvironmentsLead ==
  /\ Leads([GET |-> "ListEnvironments"], 0)
  /\ Leads([DELETE |-> "DeleteEnvironment", PATCH |-> "UpdateEnvironment",
            POST |-> "CreateEnvironment"], 1)
  /\ Leads([GET |-> "GetEnvironmentPolicy", PATCH |-> "UpdateEnvironmentPolicy"], 1)
<1>1. ASSUME NEW m
      PROVE  Reaches(m, Dispatch(m, [GET |-> "ListEnvironments"], <<>>))
  <2>1. PICK elem : elem = <<>>
    OBVIOUS
  <2>2. /\ elem = <<>>
        /\ StartsWith(elem, <<"/">>) = FALSE
        /\ elem \in Seq(Token)
    BY <2>1, Nothing DEF IsNothing
  <2>3. RouteEnvironments(m, elem) = Dispatch(m, [GET |-> "ListEnvironments"], <<>>)
    BY <2>2 DEF RouteEnvironments, Lit
  <2>q. QED
    BY <1>1, <2>2, <2>3, SubtreesServed
<1>2. ASSUME NEW m, NEW v, IsSegment(v)
      PROVE  Reaches(m, Dispatch(m, [DELETE |-> "DeleteEnvironment",
                                     PATCH |-> "UpdateEnvironment",
                                     POST |-> "CreateEnvironment"], <<v>>))
  <2>1. PICK rest : rest = <<>>
    OBVIOUS
  <2>2. /\ rest = <<>>
        /\ rest # Lit("policy")
    BY <2>1, Nothing DEF IsNothing
  <2>3. PICK elem, p : Holding(elem, {"/"}, v, rest) /\ p = Cut(Tail(elem), {"/"})
    BY <1>2, <2>1, ValueAlone
  <2>4. /\ elem \in Seq(Token) /\ elem # <<>> /\ StartsWith(elem, <<"/">>)
        /\ p.value = v /\ p.rest = rest
    BY <2>3 DEF Holding
  <2>5. RouteEnvironments(m, elem)
          = Dispatch(m, [DELETE |-> "DeleteEnvironment", PATCH |-> "UpdateEnvironment",
                         POST |-> "CreateEnvironment"], <<v>>)
    BY <2>2, <2>3, <2>4 DEF RouteEnvironments, Lit
  <2>q. QED
    BY <1>2, <2>4, <2>5, SubtreesServed
<1>3. ASSUME NEW m, NEW v, IsSegment(v)
      PROVE  Reaches(m, Dispatch(m, [GET |-> "GetEnvironmentPolicy",
                                     PATCH |-> "UpdateEnvironmentPolicy"], <<v>>))
  <2>1. PICK rest : IsLit(rest, "policy")
    BY <1>3, Literally DEF TrieWords
  <2>2. /\ rest # <<>>
        /\ rest = Lit("policy")
    BY <2>1 DEF IsLit
  <2>3. PICK elem, p : Holding(elem, {"/"}, v, rest) /\ p = Cut(Tail(elem), {"/"})
    BY <1>3, <2>1, ValueCut DEF IsLit
  <2>4. /\ elem \in Seq(Token) /\ elem # <<>> /\ StartsWith(elem, <<"/">>)
        /\ p.value = v /\ p.rest = rest
    BY <2>3 DEF Holding
  <2>5. RouteEnvironments(m, elem)
          = Dispatch(m, [GET |-> "GetEnvironmentPolicy",
                         PATCH |-> "UpdateEnvironmentPolicy"], <<v>>)
    BY <2>2, <2>3, <2>4 DEF RouteEnvironments, Lit
  <2>q. QED
    BY <1>3, <2>4, <2>5, SubtreesServed
<1>q. QED
  BY <1>1, <1>2, <1>3, ToLead

LEMMA GroupsLead ==
  /\ Leads([GET |-> "ListGroups", POST |-> "CreateGroup"], 0)
  /\ Leads([DELETE |-> "DeleteGroup", GET |-> "GetGroup", PATCH |-> "UpdateGroup"], 1)
  /\ Leads([GET |-> "ListGroupMembers", POST |-> "AddGroupMember"], 1)
  /\ Leads([DELETE |-> "RemoveGroupMember"], 2)
<1>1. ASSUME NEW m
      PROVE  Reaches(m, Dispatch(m, [GET |-> "ListGroups", POST |-> "CreateGroup"], <<>>))
  <2>1. PICK elem : elem = <<>>
    OBVIOUS
  <2>2. /\ elem = <<>>
        /\ StartsWith(elem, <<"/">>) = FALSE
        /\ elem \in Seq(Token)
    BY <2>1, Nothing DEF IsNothing
  <2>3. RouteGroups(m, elem)
          = Dispatch(m, [GET |-> "ListGroups", POST |-> "CreateGroup"], <<>>)
    BY <2>2 DEF RouteGroups, Lit, Under
  <2>q. QED
    BY <1>1, <2>2, <2>3, SubtreesServed
<1>2. ASSUME NEW m, NEW v, IsSegment(v)
      PROVE  Reaches(m, Dispatch(m, [DELETE |-> "DeleteGroup", GET |-> "GetGroup",
                                     PATCH |-> "UpdateGroup"], <<v>>))
  <2>1. PICK rest : rest = <<>>
    OBVIOUS
  <2>2. /\ rest = <<>>
        /\ rest # Lit("members")
        /\ StartsWith(rest, Under("members")) = FALSE
    BY <2>1, Nothing DEF IsNothing
  <2>3. PICK elem, p : Holding(elem, {"/"}, v, rest) /\ p = Cut(Tail(elem), {"/"})
    BY <1>2, <2>1, ValueAlone
  <2>4. /\ elem \in Seq(Token) /\ elem # <<>> /\ StartsWith(elem, <<"/">>)
        /\ p.value = v /\ p.rest = rest
    BY <2>3 DEF Holding
  <2>5. RouteGroups(m, elem)
          = Dispatch(m, [DELETE |-> "DeleteGroup", GET |-> "GetGroup",
                         PATCH |-> "UpdateGroup"], <<v>>)
    BY <2>2, <2>3, <2>4 DEF RouteGroups, Lit, Under
  <2>q. QED
    BY <1>2, <2>4, <2>5, SubtreesServed
<1>3. ASSUME NEW m, NEW v, IsSegment(v)
      PROVE  Reaches(m, Dispatch(m, [GET |-> "ListGroupMembers",
                                     POST |-> "AddGroupMember"], <<v>>))
  <2>1. PICK rest : IsLit(rest, "members")
    BY <1>3, Literally DEF TrieWords
  <2>2. /\ rest # <<>>
        /\ rest = Lit("members")
        /\ StartsWith(rest, Under("members")) = FALSE
    BY <2>1 DEF IsLit
  <2>3. PICK elem, p : Holding(elem, {"/"}, v, rest) /\ p = Cut(Tail(elem), {"/"})
    BY <1>3, <2>1, ValueCut DEF IsLit
  <2>4. /\ elem \in Seq(Token) /\ elem # <<>> /\ StartsWith(elem, <<"/">>)
        /\ p.value = v /\ p.rest = rest
    BY <2>3 DEF Holding
  <2>5. RouteGroups(m, elem)
          = Dispatch(m, [GET |-> "ListGroupMembers", POST |-> "AddGroupMember"], <<v>>)
    BY <2>2, <2>3, <2>4 DEF RouteGroups, Lit, Under
  <2>q. QED
    BY <1>3, <2>4, <2>5, SubtreesServed
<1>4. ASSUME NEW m, NEW v, IsSegment(v), NEW w, IsSegment(w)
      PROVE  Reaches(m, Dispatch(m, [DELETE |-> "RemoveGroupMember"], <<v, w>>))
  <2>1. PICK rest : BeginsUnder(rest, "members", w)
    BY <1>4, Literally, SegmentIs DEF TrieWords
  <2>2. /\ rest # <<>>
        /\ rest # Lit("members")
        /\ StartsWith(rest, Under("members"))
        /\ After(rest, 3) = w /\ Contains(w, "/") = FALSE
    BY <2>1, <1>4, SegmentIs DEF BeginsUnder
  <2>3. PICK elem, p : Holding(elem, {"/"}, v, rest) /\ p = Cut(Tail(elem), {"/"})
    BY <1>4, <2>1, ValueCut DEF BeginsUnder
  <2>4. /\ elem \in Seq(Token) /\ elem # <<>> /\ StartsWith(elem, <<"/">>)
        /\ p.value = v /\ p.rest = rest
    BY <2>3 DEF Holding
  <2>5. RouteGroups(m, elem) = Dispatch(m, [DELETE |-> "RemoveGroupMember"], <<v, w>>)
    BY <2>2, <2>3, <2>4 DEF RouteGroups, Lit, Under
  <2>q. QED
    BY <1>4, <2>4, <2>5, SubtreesServed
<1>q. QED
  BY <1>1, <1>2, <1>3, <1>4, ToLead

LEMMA IdentityProvidersLead ==
  /\ Leads([GET |-> "ListIdentityProviders"], 0)
  /\ Leads([DELETE |-> "DeleteIdentityProvider", GET |-> "GetIdentityProvider",
            PATCH |-> "UpdateIdentityProvider", POST |-> "CreateIdentityProvider"], 1)
  /\ Leads([POST |-> "TestIdentityProvider"], 1)
<1>1. ASSUME NEW m
      PROVE  Reaches(m, Dispatch(m, [GET |-> "ListIdentityProviders"], <<>>))
  <2>1. PICK elem : elem = <<>>
    OBVIOUS
  <2>2. /\ elem = <<>>
        /\ StartsWith(elem, <<"/">>) = FALSE
        /\ elem \in Seq(Token)
    BY <2>1, Nothing DEF IsNothing
  <2>3. RouteIdentityProviders(m, elem)
          = Dispatch(m, [GET |-> "ListIdentityProviders"], <<>>)
    BY <2>2 DEF RouteIdentityProviders, Verb
  <2>q. QED
    BY <1>1, <2>2, <2>3, SubtreesServed
<1>2. ASSUME NEW m, NEW v, IsSegment(v)
      PROVE  Reaches(m, Dispatch(m, [DELETE |-> "DeleteIdentityProvider",
                                     GET |-> "GetIdentityProvider",
                                     PATCH |-> "UpdateIdentityProvider",
                                     POST |-> "CreateIdentityProvider"], <<v>>))
  <2>1. PICK rest : rest = <<>>
    OBVIOUS
  <2>2. /\ rest = <<>>
        /\ rest # Verb("test")
    BY <2>1, Nothing DEF IsNothing
  <2>3. PICK elem, p : Holding(elem, {":"}, v, rest) /\ p = Cut(Tail(elem), {":"})
    BY <1>2, <2>1, ValueAlone
  <2>4. /\ elem \in Seq(Token) /\ elem # <<>> /\ StartsWith(elem, <<"/">>)
        /\ p.value = v /\ p.rest = rest
    BY <2>3 DEF Holding
  <2>5. RouteIdentityProviders(m, elem)
          = Dispatch(m, [DELETE |-> "DeleteIdentityProvider",
                         GET |-> "GetIdentityProvider", PATCH |-> "UpdateIdentityProvider",
                         POST |-> "CreateIdentityProvider"], <<v>>)
    BY <2>2, <2>3, <2>4 DEF RouteIdentityProviders, Verb
  <2>q. QED
    BY <1>2, <2>4, <2>5, SubtreesServed
<1>3. ASSUME NEW m, NEW v, IsSegment(v)
      PROVE  Reaches(m, Dispatch(m, [POST |-> "TestIdentityProvider"], <<v>>))
  <2>1. PICK rest : IsVerb(rest, "test")
    BY <1>3, Literally DEF TrieWords
  <2>2. /\ rest # <<>>
        /\ rest = Verb("test")
    BY <2>1 DEF IsVerb
  <2>3. PICK elem, p : Holding(elem, {":"}, v, rest) /\ p = Cut(Tail(elem), {":"})
    BY <1>3, <2>1, ValueCut DEF IsVerb
  <2>4. /\ elem \in Seq(Token) /\ elem # <<>> /\ StartsWith(elem, <<"/">>)
        /\ p.value = v /\ p.rest = rest
    BY <2>3 DEF Holding
  <2>5. RouteIdentityProviders(m, elem)
          = Dispatch(m, [POST |-> "TestIdentityProvider"], <<v>>)
    BY <2>2, <2>3, <2>4 DEF RouteIdentityProviders, Verb
  <2>q. QED
    BY <1>3, <2>4, <2>5, SubtreesServed
<1>q. QED
  BY <1>1, <1>2, <1>3, ToLead


LEMMA ProjectsLead ==
  /\ Leads([GET |-> "ListProjects", POST |-> "CreateProject"], 0)
  /\ Leads([DELETE |-> "DeleteProject", GET |-> "GetProject", PATCH |-> "UpdateProject"], 1)
  /\ Leads([POST |-> "UndeleteProject"], 1)
<1>1. ASSUME NEW m
      PROVE  Reaches(m, Dispatch(m, [GET |-> "ListProjects",
                                     POST |-> "CreateProject"], <<>>))
  <2>1. PICK elem : elem = <<>>
    OBVIOUS
  <2>2. /\ elem = <<>>
        /\ StartsWith(elem, <<"/">>) = FALSE
        /\ elem \in Seq(Token)
    BY <2>1, Nothing DEF IsNothing
  <2>3. RouteProjects(m, elem)
          = Dispatch(m, [GET |-> "ListProjects", POST |-> "CreateProject"], <<>>)
    BY <2>2 DEF RouteProjects
  <2>q. QED
    BY <1>1, <2>2, <2>3, SubtreesServed
<1>2. ASSUME NEW m, NEW v, IsSegment(v)
      PROVE  Reaches(m, Dispatch(m, [DELETE |-> "DeleteProject", GET |-> "GetProject",
                                     PATCH |-> "UpdateProject"], <<v>>))
  <2>1. PICK rest : rest = <<>>
    OBVIOUS
  <2>2. /\ rest = <<>>
        /\ StartsWith(rest, Lit("exportTasks")) = FALSE
        /\ StartsWith(rest, Lit("instances")) = FALSE
        /\ StartsWith(rest, Lit("worksheets")) = FALSE
        /\ rest # Verb("undelete")
    BY <2>1, Nothing DEF IsNothing
  <2>3. PICK elem, p : Holding(elem, {"/", ":"}, v, rest) /\ p = Cut(Tail(elem), {"/", ":"})
    BY <1>2, <2>1, ValueAlone
  <2>4. /\ elem \in Seq(Token) /\ elem # <<>> /\ StartsWith(elem, <<"/">>)
        /\ p.value = v /\ p.rest = rest
    BY <2>3 DEF Holding
  <2>5. RouteProjects(m, elem)
          = Dispatch(m, [DELETE |-> "DeleteProject", GET |-> "GetProject",
                         PATCH |-> "UpdateProject"], <<v>>)
    BY <2>2, <2>3, <2>4 DEF RouteProjects, Lit, Verb
  <2>q. QED
    BY <1>2, <2>4, <2>5, SubtreesServed
<1>3. ASSUME NEW m, NEW v, IsSegment(v)
      PROVE  Reaches(m, Dispatch(m, [POST |-> "UndeleteProject"], <<v>>))
  <2>1. PICK rest : IsVerb(rest, "undelete")
    BY <1>3, Literally DEF TrieWords
  <2>2. /\ rest # <<>>
        /\ StartsWith(rest, Lit("exportTasks")) = FALSE
        /\ StartsWith(rest, Lit("instances")) = FALSE
        /\ StartsWith(rest, Lit("worksheets")) = FALSE
        /\ rest = Verb("undelete")
    BY <2>1 DEF IsVerb
  <2>3. PICK elem, p : Holding(elem, {"/", ":"}, v, rest) /\ p = Cut(Tail(elem), {"/", ":"})
    BY <1>3, <2>1, ValueCut DEF IsVerb
  <2>4. /\ elem \in Seq(Token) /\ elem # <<>> /\ StartsWith(elem, <<"/">>)
        /\ p.value = v /\ p.rest = rest
    BY <2>3 DEF Holding
  <2>5. RouteProjects(m, elem) = Dispatch(m, [POST |-> "UndeleteProject"], <<v>>)
    BY <2>2, <2>3, <2>4 DEF RouteProjects, Lit, Verb
  <2>q. QED
    BY <1>3, <2>4, <2>5, SubtreesServed
<1>q. QED
  BY <1>1, <1>2, <1>3, ToLead

LEMMA InProjectServed ==
  ASSUME NEW m, NEW v, IsSegment(v), NEW below \in Seq(Token)
  PROVE  /\ Reaches(m, RouteExportTasks(m, below, v))
         /\ Reaches(m, RouteInstances(m, below, v))
         /\ Reaches(m, RouteWorksheets(m, below, v))
<1>1. Reaches(m, RouteExportTasks(m, below, v))
  <2>1. PICK rest : BeginsLit(rest, "exportTasks", below)
    BY Literally DEF TrieWords
  <2>2. /\ rest # <<>>
        /\ StartsWith(rest, Lit("exportTasks"))
        /\ StartsWith(rest, Lit("instances")) = FALSE
        /\ StartsWith(rest, Lit("worksheets")) = FALSE
        /\ rest # Verb("undelete")
        /\ After(rest, 2) = below
    BY <2>1 DEF BeginsLit
  <2>3. PICK elem, p : Holding(elem, {"/", ":"}, v, rest) /\ p = Cut(Tail(elem), {"/", ":"})
    BY <2>1, ValueCut DEF BeginsLit
  <2>4. /\ elem \in Seq(Token) /\ elem # <<>> /\ StartsWith(elem, <<"/">>)
        /\ p.value = v /\ p.rest = rest
    BY <2>3 DEF Holding
  <2>5. RouteProjects(m, elem) = RouteExportTasks(m, below, v)
    BY <2>2, <2>3, <2>4 DEF RouteProjects, Lit, Verb
  <2>q. QED
    BY <2>4, <2>5, SubtreesServed
<1>2. Reaches(m, RouteInstances(m, below, v))
  <2>1. PICK rest : BeginsLit(rest, "instances", below)
    BY Literally DEF TrieWords
  <2>2. /\ rest # <<>>
        /\ StartsWith(rest, Lit("exportTasks")) = FALSE
        /\ StartsWith(rest, Lit("instances"))
        /\ StartsWith(rest, Lit("worksheets")) = FALSE
        /\ rest # Verb("undelete")
        /\ After(rest, 2) = below
    BY <2>1 DEF BeginsLit
  <2>3. PICK elem, p : Holding(elem, {"/", ":"}, v, rest) /\ p = Cut(Tail(elem), {"/", ":"})
    BY <2>1, ValueCut DEF BeginsLit
  <2>4. /\ elem \in Seq(Token) /\ elem # <<>> /\ StartsWith(elem, <<"/">>)
        /\ p.value = v /\ p.rest = rest
    BY <2>3 DEF Holding
  <2>5. RouteProjects(m, elem) = RouteInstances(m, below, v)
    BY <2>2, <2>3, <2>4 DEF RouteProjects, Lit, Verb
  <2>q. QED
    BY <2>4, <2>5, SubtreesServed
<1>3. Reaches(m, RouteWorksheets(m, below, v))
  <2>1. PICK rest : BeginsLit(rest, "worksheets", below)
    BY Literally DEF TrieWords
  <2>2. /\ rest # <<>>
        /\ StartsWith(rest, Lit("exportTasks")) = FALSE
        /\ StartsWith(rest, Lit("instances")) = FALSE
        /\ StartsWith(rest, Lit("worksheets"))
        /\ rest # Verb("undelete")
        /\ After(rest, 2) = below
    BY <2>1 DEF BeginsLit
  <2>3. PICK elem, p : Holding(elem, {"/", ":"}, v, rest) /\ p = Cut(Tail(elem), {"/", ":"})
    BY <2>1, ValueCut DEF BeginsLit
  <2>4. /\ elem \in Seq(Token) /\ elem # <<>> /\ StartsWith(elem, <<"/">>)
        /\ p.value = v /\ p.rest = rest
    BY <2>3 DEF Holding
  <2>5. RouteProjects(m, elem) = RouteWorksheets(m, below, v)
    BY <2>2, <2>3, <2>4 DEF RouteProjects, Lit, Verb
  <2>q. QED
    BY <2>4, <2>5, SubtreesServed
<1>q. QED
  BY <1>1, <1>2, <1>3

LEMMA ExportTasksLead ==
  /\ Leads([GET |-> "ListExportTasks", POST |-> "CreateExportTask"], 1)
  /\ Leads([GET |-> "GetExportTask"], 2)
  /\ Leads([POST |-> "DownloadExportTask"], 2)
<1>1. ASSUME NEW m, NEW project, IsSegment(project)
      PROVE  Reaches(m, Dispatch(m, [GET |-> "ListExportTasks",
                                     POST |-> "CreateExportTask"], <<project>>))
  <2>1. PICK elem : elem = <<>>
    OBVIOUS
  <2>2. /\ elem = <<>>
        /\ StartsWith(elem, <<"/">>) = FALSE
        /\ elem \in Seq(Token)
    BY <2>1, Nothing DEF IsNothing
  <2>3. RouteExportTasks(m, elem, project)
          = Dispatch(m, [GET |-> "ListExportTasks",
                         POST |-> "CreateExportTask"], <<project>>)
    BY <2>2 DEF RouteExportTasks, Verb
  <2>q. QED
    BY <1>1, <2>2, <2>3, InProjectServed
<1>2. ASSUME NEW m, NEW project, IsSegment(project), NEW v, IsSegment(v)
      PROVE  Reaches(m, Dispatch(m, [GET |-> "GetExportTask"], <<project, v>>))
  <2>1. PICK rest : rest = <<>>
    OBVIOUS
  <2>2. /\ rest = <<>>
        /\ rest # Verb("download")
    BY <2>1, Nothing DEF IsNothing
  <2>3. PICK elem, p : Holding(elem, {":"}, v, rest) /\ p = Cut(Tail(elem), {":"})
    BY <1>2, <2>1, ValueAlone
  <2>4. /\ elem \in Seq(Token) /\ elem # <<>> /\ StartsWith(elem, <<"/">>)
        /\ p.value = v /\ p.rest = rest
    BY <2>3 DEF Holding
  <2>5. RouteExportTasks(m, elem, project)
          = Dispatch(m, [GET |-> "GetExportTask"], <<project, v>>)
    BY <2>2, <2>3, <2>4 DEF RouteExportTasks, Verb
  <2>q. QED
    BY <1>2, <2>4, <2>5, InProjectServed
<1>3. ASSUME NEW m, NEW project, IsSegment(project), NEW v, IsSegment(v)
      PROVE  Reaches(m, Dispatch(m, [POST |-> "DownloadExportTask"], <<project, v>>))
  <2>1. PICK rest : IsVerb(rest, "download")
    BY <1>3, Literally DEF TrieWords
  <2>2. /\ rest # <<>>
        /\ rest = Verb("download")
    BY <2>1 DEF IsVerb
  <2>3. PICK elem, p : Holding(elem, {":"}, v, rest) /\ p = Cut(Tail(elem), {":"})
    BY <1>3, <2>1, ValueCut DEF IsVerb
  <2>4. /\ elem \in Seq(Token) /\ elem # <<>> /\ StartsWith(elem, <<"/">>)
        /\ p.value = v /\ p.rest = rest
    BY <2>3 DEF Holding
  <2>5. RouteExportTasks(m, elem, project)
          = Dispatch(m, [POST |-> "DownloadExportTask"], <<project, v>>)
    BY <2>2, <2>3, <2>4 DEF RouteExportTasks, Verb
  <2>q. QED
    BY <1>3, <2>4, <2>5, InProjectServed
<1>q. QED
  BY <1>1, <1>2, <1>3, ToLead

LEMMA AppendsThird ==
  ASSUME NEW a, NEW b, NEW c
  PROVE  Append(<<a, b>>, c) = <<a, b, c>>
<1>1. <<a, b, c>> = Append(<<a, b>>, c)
  BY Tuples DEF ##
<1>q. QED
  BY <1>1

LEMMA InstancesLead ==
  /\ Leads([GET |-> "ListInstances", POST |-> "CreateInstance"], 1)
  /\ Leads([DELETE |-> "DeleteInstance", GET |-> "GetInstance",
            PATCH |-> "UpdateInstance"], 2)
  /\ Leads([DELETE |-> "DeleteDataSource", PATCH |-> "UpdateDataSource",
            POST |-> "CreateDataSource"], 3)
  /\ Leads([POST |-> "SyncInstance"], 2)
  /\ Leads([POST |-> "TestInstanceConnection"], 2)
<1>1. ASSUME NEW m, NEW project, IsSegment(project)
      PROVE  Reaches(m, Dispatch(m, [GET |-> "ListInstances",
                                     POST |-> "CreateInstance"], <<project>>))
  <2>1. PICK elem : elem = <<>>
    OBVIOUS
  <2>2. /\ elem = <<>>
        /\ StartsWith(elem, <<"/">>) = FALSE
        /\ elem \in Seq(Token)
    BY <2>1, Nothing DEF IsNothing
  <2>3. RouteInstances(m, elem, project)
          = Dispatch(m, [GET |-> "ListInstances", POST |-> "CreateInstance"], <<project>>)
    BY <2>2 DEF RouteInstances
  <2>q. QED
    BY <1>1, <2>2, <2>3, InProjectServed
<1>2. ASSUME NEW m, NEW project, IsSegment(project), NEW v, IsSegment(v)
      PROVE  Reaches(m, Dispatch(m, [DELETE |-> "DeleteInstance", GET |-> "GetInstance",
                                     PATCH |-> "UpdateInstance"], <<project, v>>))
  <2>1. PICK rest : rest = <<>>
    OBVIOUS
  <2>2. /\ rest = <<>>
        /\ StartsWith(rest, Under("dataSources")) = FALSE
        /\ StartsWith(rest, Lit("databases")) = FALSE
        /\ StartsWith(rest, <<":">>) = FALSE
    BY <2>1, Nothing DEF IsNothing
  <2>3. PICK elem, p : Holding(elem, {"/", ":"}, v, rest) /\ p = Cut(Tail(elem), {"/", ":"})
    BY <1>2, <2>1, ValueAlone
  <2>4. /\ elem \in Seq(Token) /\ elem # <<>> /\ StartsWith(elem, <<"/">>)
        /\ p.value = v /\ p.rest = rest
    BY <2>3 DEF Holding
  <2>5. RouteInstances(m, elem, project)
          = Dispatch(m, [DELETE |-> "DeleteInstance", GET |-> "GetInstance",
                         PATCH |-> "UpdateInstance"], <<project, v>>)
    BY <2>2, <2>3, <2>4 DEF RouteInstances, Lit, Under
  <2>q. QED
    BY <1>2, <2>4, <2>5, InProjectServed
<1>3. ASSUME NEW m, NEW project, IsSegment(project), NEW v, IsSegment(v),
             NEW w, IsSegment(w)
      PROVE  Reaches(m, Dispatch(m, [DELETE |-> "DeleteDataSource",
                                     PATCH |-> "UpdateDataSource",
                                     POST |-> "CreateDataSource"], <<project, v, w>>))
  <2>1. PICK rest : BeginsUnder(rest, "dataSources", w)
    BY <1>3, Literally, SegmentIs DEF TrieWords
  <2>2. /\ rest # <<>>
        /\ StartsWith(rest, Under("dataSources"))
        /\ StartsWith(rest, Lit("databases")) = FALSE
        /\ StartsWith(rest, <<":">>) = FALSE
        /\ After(rest, 3) = w /\ Contains(w, "/") = FALSE
        /\ Append(<<project, v>>, w) = <<project, v, w>>
    BY <2>1, <1>3, SegmentIs, AppendsThird DEF BeginsUnder
  <2>3. PICK elem, p : Holding(elem, {"/", ":"}, v, rest) /\ p = Cut(Tail(elem), {"/", ":"})
    BY <1>3, <2>1, ValueCut DEF BeginsUnder
  <2>4. /\ elem \in Seq(Token) /\ elem # <<>> /\ StartsWith(elem, <<"/">>)
        /\ p.value = v /\ p.rest = rest
    BY <2>3 DEF Holding
  <2>5. RouteInstances(m, elem, project)
          = Dispatch(m, [DELETE |-> "DeleteDataSource", PATCH |-> "UpdateDataSource",
                         POST |-> "CreateDataSource"], <<project, v, w>>)
    BY <2>2, <2>3, <2>4 DEF RouteInstances, RouteDataSources, Lit, Under
  <2>q. QED
    BY <1>3, <2>4, <2>5, InProjectServed
<1>4. ASSUME NEW m, NEW project, IsSegment(project), NEW v, IsSegment(v)
      PROVE  Reaches(m, Dispatch(m, [POST |-> "SyncInstance"], <<project, v>>))
  <2>1. PICK rest : IsVerb(rest, "sync")
    BY <1>4, Literally DEF TrieWords
  <2>2. /\ rest # <<>>
        /\ StartsWith(rest, Under("dataSources")) = FALSE
        /\ StartsWith(rest, Lit("databases")) = FALSE
        /\ StartsWith(rest, <<":">>)
        /\ rest = Verb("sync")
        /\ rest # Verb("testConnection")
    BY <2>1 DEF IsVerb
  <2>3. PICK elem, p : Holding(elem, {"/", ":"}, v, rest) /\ p = Cut(Tail(elem), {"/", ":"})
    BY <1>4, <2>1, ValueCut DEF IsVerb
  <2>4. /\ elem \in Seq(Token) /\ elem # <<>> /\ StartsWith(elem, <<"/">>)
        /\ p.value = v /\ p.rest = rest
    BY <2>3 DEF Holding
  <2>5. RouteInstances(m, elem, project)
          = Dispatch(m, [POST |-> "SyncInstance"], <<project, v>>)
    BY <2>2, <2>3, <2>4 DEF RouteInstances, RouteInstanceVerbs, Lit, Under, Verb
  <2>q. QED
    BY <1>4, <2>4, <2>5, InProjectServed
<1>5. ASSUME NEW m, NEW project, IsSegment(project), NEW v, IsSegment(v)
      PROVE  Reaches(m, Dispatch(m, [POST |-> "TestInstanceConnection"], <<project, v>>))
  <2>1. PICK rest : IsVerb(rest, "testConnection")
    BY <1>5, Literally DEF TrieWords
  <2>2. /\ rest # <<>>
        /\ StartsWith(rest, Under("dataSources")) = FALSE
        /\ StartsWith(rest, Lit("databases")) = FALSE
        /\ StartsWith(rest, <<":">>)
        /\ rest # Verb("sync")
        /\ rest = Verb("testConnection")
    BY <2>1 DEF IsVerb
  <2>3. PICK elem, p : Holding(elem, {"/", ":"}, v, rest) /\ p = Cut(Tail(elem), {"/", ":"})
    BY <1>5, <2>1, ValueCut DEF IsVerb
  <2>4. /\ elem \in Seq(Token) /\ elem # <<>> /\ StartsWith(elem, <<"/">>)
        /\ p.value = v /\ p.rest = rest
    BY <2>3 DEF Holding
  <2>5. RouteInstances(m, elem, project)
          = Dispatch(m, [POST |-> "TestInstanceConnection"], <<project, v>>)
    BY <2>2, <2>3, <2>4 DEF RouteInstances, RouteInstanceVerbs, Lit, Under, Verb
  <2>q. QED
    BY <1>5, <2>4, <2>5, InProjectServed
<1>q. QED
  BY <1>1, <1>2, <1>3, <1>4, <1>5, ToLead

LEMMA InInstanceServed ==
  ASSUME NEW m, NEW project, IsSegment(project), NEW v, IsSegment(v),
         NEW below \in Seq(Token)
  PROVE  Reaches(m, RouteDatabases(m, below, <<project, v>>))
<1>1. Reaches(m, RouteDatabases(m, below, <<project, v>>))
  <2>1. PICK rest : BeginsLit(rest, "databases", below)
    BY Literally DEF TrieWords
  <2>2. /\ rest # <<>>
        /\ StartsWith(rest, Under("dataSources")) = FALSE
        /\ StartsWith(rest, Lit("databases"))
        /\ StartsWith(rest, <<":">>) = FALSE
        /\ After(rest, 2) = below
    BY <2>1 DEF BeginsLit
  <2>3. PICK elem, p : Holding(elem, {"/", ":"}, v, rest) /\ p = Cut(Tail(elem), {"/", ":"})
    BY <2>1, ValueCut DEF BeginsLit
  <2>4. /\ elem \in Seq(Token) /\ elem # <<>> /\ StartsWith(elem, <<"/">>)
        /\ p.value = v /\ p.rest = rest
    BY <2>3 DEF Holding
  <2>5. RouteInstances(m, elem, project) = RouteDatabases(m, below, <<project, v>>)
    BY <2>2, <2>3, <2>4 DEF RouteInstances, Lit, Under
  <2>q. QED
    BY <2>4, <2>5, InProjectServed
<1>q. QED
  BY <1>1

LEMMA DatabasesLead ==
  /\ Leads([GET |-> "ListDatabases"], 2)
  /\ Leads([GET |-> "GetDatabase", PATCH |-> "UpdateDatabase"], 3)
  /\ Leads([POST |-> "SqlExport"], 3)
  /\ Leads([POST |-> "SqlQuery"], 3)
  /\ Leads([POST |-> "SyncDatabaseSchema"], 3)
<1>1. ASSUME NEW m, NEW project, IsSegment(project), NEW instance, IsSegment(instance)
      PROVE  Reaches(m, Dispatch(m, [GET |-> "ListDatabases"], <<project, instance>>))
  <2>1. PICK elem : elem = <<>>
    OBVIOUS
  <2>2. /\ elem = <<>>
        /\ StartsWith(elem, <<"/">>) = FALSE
        /\ elem \in Seq(Token)
    BY <2>1, Nothing DEF IsNothing
  <2>3. RouteDatabases(m, elem, <<project, instance>>)
          = Dispatch(m, [GET |-> "ListDatabases"], <<project, instance>>)
    BY <2>2 DEF RouteDatabases
  <2>q. QED
    BY <1>1, <2>2, <2>3, InInstanceServed
<1>2. ASSUME NEW m, NEW project, IsSegment(project), NEW instance, IsSegment(instance),
             NEW v, IsSegment(v)
      PROVE  Reaches(m, Dispatch(m, [GET |-> "GetDatabase",
                                     PATCH |-> "UpdateDatabase"], <<project, instance, v>>))
  <2>1. PICK rest : rest = <<>>
    OBVIOUS
  <2>2. /\ rest = <<>>
        /\ Append(<<project, instance>>, v) = <<project, instance, v>>
    BY <2>1, AppendsThird
  <2>3. PICK elem, p : Holding(elem, {":"}, v, rest) /\ p = Cut(Tail(elem), {":"})
    BY <1>2, <2>1, ValueAlone
  <2>4. /\ elem \in Seq(Token) /\ elem # <<>> /\ StartsWith(elem, <<"/">>)
        /\ p.value = v /\ p.rest = rest
    BY <2>3 DEF Holding
  <2>5. RouteDatabases(m, elem, <<project, instance>>)
          = Dispatch(m, [GET |-> "GetDatabase",
                         PATCH |-> "UpdateDatabase"], <<project, instance, v>>)
    BY <2>2, <2>3, <2>4 DEF RouteDatabases
  <2>q. QED
    BY <1>2, <2>4, <2>5, InInstanceServed
<1>3. ASSUME NEW m, NEW project, IsSegment(project), NEW instance, IsSegment(instance),
             NEW v, IsSegment(v)
      PROVE  Reaches(m, Dispatch(m, [POST |-> "SqlExport"], <<project, instance, v>>))
  <2>1. PICK rest : IsVerb(rest, "export")
    BY <1>3, Literally DEF TrieWords
  <2>2. /\ rest # <<>>
        /\ rest = Verb("export")
        /\ rest # Verb("query")
        /\ rest # Verb("syncSchema")
        /\ Append(<<project, instance>>, v) = <<project, instance, v>>
    BY <2>1, AppendsThird DEF IsVerb
  <2>3. PICK elem, p : Holding(elem, {":"}, v, rest) /\ p = Cut(Tail(elem), {":"})
    BY <1>3, <2>1, ValueCut DEF IsVerb
  <2>4. /\ elem \in Seq(Token) /\ elem # <<>> /\ StartsWith(elem, <<"/">>)
        /\ p.value = v /\ p.rest = rest
    BY <2>3 DEF Holding
  <2>5. RouteDatabases(m, elem, <<project, instance>>)
          = Dispatch(m, [POST |-> "SqlExport"], <<project, instance, v>>)
    BY <2>2, <2>3, <2>4 DEF RouteDatabases, RouteSql, Verb
  <2>q. QED
    BY <1>3, <2>4, <2>5, InInstanceServed
<1>4. ASSUME NEW m, NEW project, IsSegment(project), NEW instance, IsSegment(instance),
             NEW v, IsSegment(v)
      PROVE  Reaches(m, Dispatch(m, [POST |-> "SqlQuery"], <<project, instance, v>>))
  <2>1. PICK rest : IsVerb(rest, "query")
    BY <1>4, Literally DEF TrieWords
  <2>2. /\ rest # <<>>
        /\ rest # Verb("export")
        /\ rest = Verb("query")
        /\ rest # Verb("syncSchema")
        /\ Append(<<project, instance>>, v) = <<project, instance, v>>
    BY <2>1, AppendsThird DEF IsVerb
  <2>3. PICK elem, p : Holding(elem, {":"}, v, rest) /\ p = Cut(Tail(elem), {":"})
    BY <1>4, <2>1, ValueCut DEF IsVerb
  <2>4. /\ elem \in Seq(Token) /\ elem # <<>> /\ StartsWith(elem, <<"/">>)
        /\ p.value = v /\ p.rest = rest
    BY <2>3 DEF Holding
  <2>5. RouteDatabases(m, elem, <<project, instance>>)
          = Dispatch(m, [POST |-> "SqlQuery"], <<project, instance, v>>)
    BY <2>2, <2>3, <2>4 DEF RouteDatabases, RouteSql, Verb
  <2>q. QED
    BY <1>4, <2>4, <2>5, InInstanceServed
<1>5. ASSUME NEW m, NEW project, IsSegment(project), NEW instance, IsSegment(instance),
             NEW v, IsSegment(v)
      PROVE  Reaches(m, Dispatch(m, [POST |-> "SyncDatabaseSchema"], <<project, instance, v>>))
  <2>1. PICK rest : IsVerb(rest, "syncSchema")
    BY <1>5, Literally DEF TrieWords
  <2>2. /\ rest # <<>>
        /\ rest # Verb("export")
        /\ rest # Verb("query")
        /\ rest = Verb("syncSchema")
        /\ Append(<<project, instance>>, v) = <<project, instance, v>>
    BY <2>1, AppendsThird DEF IsVerb
  <2>3. PICK elem, p : Holding(elem, {":"}, v, rest) /\ p = Cut(Tail(elem), {":"})
    BY <1>5, <2>1, ValueCut DEF IsVerb
  <2>4. /\ elem \in Seq(Token) /\ elem # <<>> /\ StartsWith(elem, <<"/">>)
        /\ p.value = v /\ p.rest = rest
    BY <2>3 DEF Holding
  <2>5. RouteDatabases(m, elem, <<project, instance>>)
          = Dispatch(m, [POST |-> "SyncDatabaseSchema"], <<project, instance, v>>)
    BY <2>2, <2>3, <2>4 DEF RouteDatabases, RouteSql, Verb
  <2>q. QED
    BY <1>5, <2>4, <2>5, InInstanceServed
<1>q. QED
  BY <1>1, <1>2, <1>3, <1>4, <1>5, ToLead

LEMMA WorksheetsLead ==
  /\ Leads([POST |-> "CreateWorksheet"], 1)
  /\ Leads([GET |-> "SearchWorksheets"], 1)
  /\ Leads([DELETE |-> "DeleteWorksheet", GET |-> "GetWorksheet",
            PATCH |-> "UpdateWorksheet"], 2)
  /\ Leads([POST |-> "FavoriteWorksheet"], 2)
  /\ Leads([POST |-> "UnfavoriteWorksheet"], 2)
<1>1. ASSUME NEW m, NEW project, IsSegment(project)
      PROVE  Reaches(m, Dispatch(m, [POST |-> "CreateWorksheet"], <<project>>))
  <2>1. PICK elem : elem = <<>>
    OBVIOUS
  <2>2. /\ elem = <<>>
        /\ StartsWith(elem, <<"/">>) = FALSE
        /\ elem # Verb("search")
        /\ elem \in Seq(Token)
    BY <2>1, Nothing DEF IsNothing
  <2>3. RouteWorksheets(m, elem, project)
          = Dispatch(m, [POST |-> "CreateWorksheet"], <<project>>)
    BY <2>2 DEF RouteWorksheets, RouteWorksheetVerbs, Verb
  <2>q. QED
    BY <1>1, <2>2, <2>3, InProjectServed
<1>2. ASSUME NEW m, NEW project, IsSegment(project)
      PROVE  Reaches(m, Dispatch(m, [GET |-> "SearchWorksheets"], <<project>>))
  <2>1. PICK elem : IsVerb(elem, "search")
    BY Literally DEF TrieWords
  <2>2. /\ elem # <<>>
        /\ StartsWith(elem, <<"/">>) = FALSE
        /\ elem = Verb("search")
        /\ elem \in Seq(Token)
    BY <2>1 DEF IsVerb
  <2>3. RouteWorksheets(m, elem, project)
          = Dispatch(m, [GET |-> "SearchWorksheets"], <<project>>)
    BY <2>2 DEF RouteWorksheets, RouteWorksheetVerbs, Verb
  <2>q. QED
    BY <1>2, <2>2, <2>3, InProjectServed
<1>3. ASSUME NEW m, NEW project, IsSegment(project), NEW v, IsSegment(v)
      PROVE  Reaches(m, Dispatch(m, [DELETE |-> "DeleteWorksheet", GET |-> "GetWorksheet",
                                     PATCH |-> "UpdateWorksheet"], <<project, v>>))
  <2>1. PICK rest : rest = <<>>
    OBVIOUS
  <2>2. /\ rest = <<>>
        /\ rest # Verb("favorite")
        /\ rest # Verb("unfavorite")
    BY <2>1, Nothing DEF IsNothing
  <2>3. PICK elem, p : Holding(elem, {":"}, v, rest) /\ p = Cut(Tail(elem), {":"})
    BY <1>3, <2>1, ValueAlone
  <2>4. /\ elem \in Seq(Token) /\ elem # <<>> /\ StartsWith(elem, <<"/">>)
        /\ p.value = v /\ p.rest = rest
        /\ elem # Verb("search")
    BY <2>3 DEF Holding
  <2>5. RouteWorksheets(m, elem, project)
          = Dispatch(m, [DELETE |-> "DeleteWorksheet", GET |-> "GetWorksheet",
                         PATCH |-> "UpdateWorksheet"], <<project, v>>)
    BY <2>2, <2>3, <2>4 DEF RouteWorksheets, RouteWorksheetVerbs, Verb
  <2>q. QED
    BY <1>3, <2>4, <2>5, InProjectServed
<1>4. ASSUME NEW m, NEW project, IsSegment(project), NEW v, IsSegment(v)
      PROVE  Reaches(m, Dispatch(m, [POST |-> "FavoriteWorksheet"], <<project, v>>))
  <2>1. PICK rest : IsVerb(rest, "favorite")
    BY <1>4, Literally DEF TrieWords
  <2>2. /\ rest # <<>>
        /\ rest = Verb("favorite")
        /\ rest # Verb("unfavorite")
    BY <2>1 DEF IsVerb
  <2>3. PICK elem, p : Holding(elem, {":"}, v, rest) /\ p = Cut(Tail(elem), {":"})
    BY <1>4, <2>1, ValueCut DEF IsVerb
  <2>4. /\ elem \in Seq(Token) /\ elem # <<>> /\ StartsWith(elem, <<"/">>)
        /\ p.value = v /\ p.rest = rest
        /\ elem # Verb("search")
    BY <2>3 DEF Holding
  <2>5. RouteWorksheets(m, elem, project)
          = Dispatch(m, [POST |-> "FavoriteWorksheet"], <<project, v>>)
    BY <2>2, <2>3, <2>4 DEF RouteWorksheets, RouteWorksheetVerbs, Verb
  <2>q. QED
    BY <1>4, <2>4, <2>5, InProjectServed
<1>5. ASSUME NEW m, NEW project, IsSegment(project), NEW v, IsSegment(v)
      PROVE  Reaches(m, Dispatch(m, [POST |-> "UnfavoriteWorksheet"], <<project, v>>))
  <2>1. PICK rest : IsVerb(rest, "unfavorite")
    BY <1>5, Literally DEF TrieWords
  <2>2. /\ rest # <<>>
        /\ rest # Verb("favorite")
        /\ rest = Verb("unfavorite")
    BY <2>1 DEF IsVerb
  <2>3. PICK elem, p : Holding(elem, {":"}, v, rest) /\ p = Cut(Tail(elem), {":"})
    BY <1>5, <2>1, ValueCut DEF IsVerb
  <2>4. /\ elem \in Seq(Token) /\ elem # <<>> /\ StartsWith(elem, <<"/">>)
        /\ p.value = v /\ p.rest = rest
        /\ elem # Verb("search")
    BY <2>3 DEF Holding
  <2>5. RouteWorksheets(m, elem, project)
          = Dispatch(m, [POST |-> "UnfavoriteWorksheet"], <<project, v>>)
    BY <2>2, <2>3, <2>4 DEF RouteWorksheets, RouteWorksheetVerbs, Verb
  <2>q. QED
    BY <1>5, <2>4, <2>5, InProjectServed
<1>q. QED
  BY <1>1, <1>2, <1>3, <1>4, <1>5, ToLead


LEMMA SettingsLead ==
  Leads([GET |-> "GetSetting", PATCH |-> "UpdateSetting"], 1)
<1>1. ASSUME NEW m, NEW v, IsSegment(v)
      PROVE  Reaches(m, Dispatch(m, [GET |-> "GetSetting",
                                     PATCH |-> "UpdateSetting"], <<v>>))
  <2>1. v \in Seq(Token) /\ Contains(v, "/") = FALSE
    BY <1>1, SegmentIs
  <2>2. PICK elem : elem = Slash(v)
    OBVIOUS
  <2>3. elem \in Seq(Token) /\ StartsWith(elem, <<"/">>) /\ Tail(elem) = v
    BY <2>1, <2>2, SlashIs
  <2>4. RouteSettings(m, elem) =
          Dispatch(m, [GET |-> "GetSetting", PATCH |-> "UpdateSetting"], <<v>>)
    BY <2>1, <2>3 DEF RouteSettings
  <2>q. QED
    BY <1>1, <2>3, <2>4, SubtreesServed
<1>q. QED
  BY <1>1, ToLead

\* Below v1/users/me.
LEMMA MeServed ==
  ASSUME NEW m, NEW mine \in Seq(Token), mine # <<>>, RouteMe(m, mine) # NotFound
  PROVE  Reaches(m, RouteMe(m, mine))
<1>1. PICK elem : BeginsLit(elem, "me", mine)
  BY Literally DEF TrieWords
<1>2. /\ elem \in Seq(Token) /\ elem # <<>> /\ elem[2] = "me" /\ After(elem, 2) = mine
      /\ StartsWith(elem, Lit("me")) /\ Len(elem) = 2 + Len(mine) /\ elem # Lit("me")
  BY <1>1 DEF BeginsLit
<1>3. Len(elem) > 2 /\ Len(elem) >= 2
  <2>1. Len(mine) \in Nat /\ Len(mine) # 0
    OBVIOUS
  <2>q. QED
    BY <1>2, <2>1
<1>4. PICK name : name = Tail(elem)
  OBVIOUS
<1>5. Tail(name) = mine
  BY <1>2, <1>3, <1>4, CutTwice
<1>6. name[1] = "me"
  BY <1>2, <1>3, <1>4
<1>7. RouteUsers(m, elem) = RouteMe(m, mine)
  BY <1>2, <1>3, <1>4, <1>5, <1>6 DEF RouteUsers, Lit
<1>q. QED
  BY <1>2, <1>7, SubtreesServed

LEMMA MeLeads ==
  /\ Leads([GET |-> "ListMyFavorites"], 0)
  /\ Leads([POST |-> "RegenerateMyMfa"], 0)
  /\ Leads([POST |-> "ChangeMyPassword"], 0)
<1>1. ASSUME NEW m
      PROVE  Reaches(m, Dispatch(m, [GET |-> "ListMyFavorites"], <<>>))
  <2>1. PICK elem : IsLit(elem, "favorites")
    BY Literally DEF TrieWords
  <2>2. /\ elem = Lit("favorites")
        /\ StartsWith(elem, Lit("notifications")) = FALSE
        /\ elem # Verbs("mfa", "regenerate")
        /\ elem # Verb("password")
        /\ elem # <<>>
        /\ elem \in Seq(Token)
    BY <2>1 DEF IsLit
  <2>3. RouteMe(m, elem) = Dispatch(m, [GET |-> "ListMyFavorites"], <<>>)
    BY <2>2 DEF RouteMe, Lit, Verb, Verbs
  <2>q. QED
    BY <1>1, <2>2, <2>3, SomewhereFound, MeServed
<1>2. ASSUME NEW m
      PROVE  Reaches(m, Dispatch(m, [POST |-> "RegenerateMyMfa"], <<>>))
  <2>1. PICK elem : IsVerbs(elem, "mfa", "regenerate")
    BY BothVerbs
  <2>2. /\ elem # Lit("favorites")
        /\ StartsWith(elem, Lit("notifications")) = FALSE
        /\ elem = Verbs("mfa", "regenerate")
        /\ elem # Verb("password")
        /\ elem # <<>>
        /\ elem \in Seq(Token)
    BY <2>1 DEF IsVerbs
  <2>3. RouteMe(m, elem) = Dispatch(m, [POST |-> "RegenerateMyMfa"], <<>>)
    BY <2>2 DEF RouteMe, Lit, Verb, Verbs
  <2>q. QED
    BY <1>2, <2>2, <2>3, SomewhereFound, MeServed
<1>3. ASSUME NEW m
      PROVE  Reaches(m, Dispatch(m, [POST |-> "ChangeMyPassword"], <<>>))
  <2>1. PICK elem : IsVerb(elem, "password")
    BY Literally DEF TrieWords
  <2>2. /\ elem # Lit("favorites")
        /\ StartsWith(elem, Lit("notifications")) = FALSE
        /\ elem # Verbs("mfa", "regenerate")
        /\ elem = Verb("password")
        /\ elem # <<>>
        /\ elem \in Seq(Token)
    BY <2>1 DEF IsVerb
  <2>3. RouteMe(m, elem) = Dispatch(m, [POST |-> "ChangeMyPassword"], <<>>)
    BY <2>2 DEF RouteMe, Lit, Verb, Verbs
  <2>q. QED
    BY <1>3, <2>2, <2>3, SomewhereFound, MeServed
<1>q. QED
  BY <1>1, <1>2, <1>3, ToLead

LEMMA NotificationsServed ==
  ASSUME NEW m, NEW below \in Seq(Token), RouteNotifications(m, below) # NotFound
  PROVE  Reaches(m, RouteNotifications(m, below))
<1>1. PICK elem : BeginsLit(elem, "notifications", below)
  BY Literally DEF TrieWords
<1>2. /\ elem \in Seq(Token) /\ elem # <<>> /\ After(elem, 2) = below
      /\ StartsWith(elem, Lit("notifications")) /\ elem # Lit("favorites")
      /\ elem # Verbs("mfa", "regenerate") /\ elem # Verb("password")
  BY <1>1 DEF BeginsLit
<1>3. RouteMe(m, elem) = RouteNotifications(m, below)
  BY <1>2 DEF RouteMe, Lit, Verb, Verbs
<1>q. QED
  BY <1>2, <1>3, MeServed

LEMMA NotificationsLead ==
  /\ Leads([GET |-> "ListMyNotifications"], 0)
  /\ Leads([POST |-> "MarkAllNotificationsRead"], 0)
  /\ Leads([GET |-> "GetUnreadNotificationCount"], 0)
  /\ Leads([POST |-> "MarkNotificationRead"], 1)
<1>1. ASSUME NEW m
      PROVE  Reaches(m, Dispatch(m, [GET |-> "ListMyNotifications"], <<>>))
  <2>1. PICK elem : elem = <<>>
    OBVIOUS
  <2>2. /\ elem = <<>>
        /\ StartsWith(elem, <<"/">>) = FALSE
        /\ elem # Verb("markAllRead")
        /\ elem # Verb("unreadCount")
        /\ elem \in Seq(Token)
    BY <2>1, Nothing DEF IsNothing
  <2>3. RouteNotifications(m, elem) = Dispatch(m, [GET |-> "ListMyNotifications"], <<>>)
    BY <2>2 DEF RouteNotifications, Verb
  <2>q. QED
    BY <1>1, <2>2, <2>3, SomewhereFound, NotificationsServed
<1>2. ASSUME NEW m
      PROVE  Reaches(m, Dispatch(m, [POST |-> "MarkAllNotificationsRead"], <<>>))
  <2>1. PICK elem : IsVerb(elem, "markAllRead")
    BY Literally DEF TrieWords
  <2>2. /\ elem # <<>>
        /\ StartsWith(elem, <<"/">>) = FALSE
        /\ elem = Verb("markAllRead")
        /\ elem # Verb("unreadCount")
        /\ elem \in Seq(Token)
    BY <2>1 DEF IsVerb
  <2>3. RouteNotifications(m, elem)
          = Dispatch(m, [POST |-> "MarkAllNotificationsRead"], <<>>)
    BY <2>2 DEF RouteNotifications, Verb
  <2>q. QED
    BY <1>2, <2>2, <2>3, SomewhereFound, NotificationsServed
<1>3. ASSUME NEW m
      PROVE  Reaches(m, Dispatch(m, [GET |-> "GetUnreadNotificationCount"], <<>>))
  <2>1. PICK elem : IsVerb(elem, "unreadCount")
    BY Literally DEF TrieWords
  <2>2. /\ elem # <<>>
        /\ StartsWith(elem, <<"/">>) = FALSE
        /\ elem # Verb("markAllRead")
        /\ elem = Verb("unreadCount")
        /\ elem \in Seq(Token)
    BY <2>1 DEF IsVerb
  <2>3. RouteNotifications(m, elem)
          = Dispatch(m, [GET |-> "GetUnreadNotificationCount"], <<>>)
    BY <2>2 DEF RouteNotifications, Verb
  <2>q. QED
    BY <1>3, <2>2, <2>3, SomewhereFound, NotificationsServed
<1>4. ASSUME NEW m, NEW v, IsSegment(v)
      PROVE  Reaches(m, Dispatch(m, [POST |-> "MarkNotificationRead"], <<v>>))
  <2>1. PICK rest : IsVerb(rest, "markRead")
    BY <1>4, Literally DEF TrieWords
  <2>2. rest = Verb("markRead")
    BY <2>1 DEF IsVerb
  <2>3. PICK elem, p : Holding(elem, {":"}, v, rest) /\ p = Cut(Tail(elem), {":"})
    BY <1>4, <2>1, ValueCut DEF IsVerb
  <2>4. /\ elem \in Seq(Token) /\ elem # <<>> /\ StartsWith(elem, <<"/">>)
        /\ p.value = v /\ p.rest = rest
        /\ elem # Verb("markAllRead")
        /\ elem # Verb("unreadCount")
    BY <2>3 DEF Holding
  <2>5. RouteNotifications(m, elem) = Dispatch(m, [POST |-> "MarkNotificationRead"], <<v>>)
    BY <2>2, <2>3, <2>4 DEF RouteNotifications, Verb
  <2>q. QED
    BY <1>4, <2>4, <2>5, SomewhereFound, NotificationsServed
<1>q. QED
  BY <1>1, <1>2, <1>3, <1>4, ToLead

LEMMA NothingMine ==
  ASSUME NEW m, NEW mine \in Seq(Token), mine[1] # "/", mine[1] # ":"
  PROVE  RouteMe(m, mine) = NotFound
<1>1. PICK x, y, z, u : /\ x = Lit("favorites") /\ y = Lit("notifications")
                       /\ z = Verbs("mfa", "regenerate") /\ u = Verb("password")
  OBVIOUS
<1>2. /\ IsSequence(y) /\ Len(y) = 2 /\ y[1] = "/" /\ x[1] = "/" /\ z[1] = ":" /\ u[1] = ":"
  BY <1>1, Tuples DEF Lit, Verb, Verbs
<1>3. StartsWith(mine, y) = FALSE
  BY <1>2, NotFirst
<1>4. mine # x /\ mine # z /\ mine # u
  BY <1>2
<1>q. QED
  BY <1>1, <1>3, <1>4 DEF RouteMe, Lit, Verb, Verbs

\* v1/users/{user}: what matches nothing below v1/users/me starts over.
LEMMA UserServed ==
  ASSUME NEW m, NEW v, IsSegment(v), NEW rest, IsNothing(rest) \/ IsVerb(rest, "undelete"),
         v # <<"me">> \/ rest # <<>>
  PROVE  Reaches(m, RouteUser(m, v ++ rest))
<1>1. /\ v \in Seq(Token) /\ v # <<>> /\ Len(v) \in Nat /\ Len(v) > 0
      /\ \A i \in 1..Len(v) : v[i] # "/" /\ v[i] # ":"
  BY SegmentIs
<1>2. rest \in Seq(Token)
  <2>1. <<>> \in Seq(Token)
    OBVIOUS
  <2>q. QED
    BY <2>1 DEF IsNothing, IsVerb
<1>3. PICK name, elem : name = v ++ rest /\ elem = Slash(name)
  OBVIOUS
<1>4. /\ name \in Seq(Token) /\ Len(name) = Len(v) + Len(rest) /\ Len(rest) \in Nat
      /\ \A i \in 1..Len(v) : name[i] = v[i]
  BY <1>1, <1>2, <1>3, Joined DEF ++
<1>5. /\ elem \in Seq(Token) /\ elem # <<>> /\ elem[1] = "/" /\ StartsWith(elem, <<"/">>)
      /\ Tail(elem) = name /\ Len(elem) = Len(name) + 1
  BY <1>3, <1>4, SlashIs
<1>6. Len(elem) > 1 /\ elem[2] = name[1] /\ name[1] = v[1]
  <2>1. Len(name) > 0 /\ 1 \in 1..Len(v)
    BY <1>1, <1>4
  <2>2. Tail(elem)[1] = elem[2]
    BY <1>4, <1>5, <2>1
  <2>q. QED
    BY <1>4, <1>5, <2>1, <2>2
<1>7. PICK x : x = Lit("me")
  OBVIOUS
<1>8. IsSequence(x) /\ Len(x) = 2 /\ x[1] = "/" /\ x[2] = "me"
  BY <1>7, Tuples DEF Lit
<1>9. CASE v[1] # "me"
  <2>1. StartsWith(elem, x) = FALSE
    BY <1>5, <1>6, <1>8, <1>9, NotSecond
  <2>2. elem # x
    BY <1>6, <1>8, <1>9
  <2>3. RouteUsers(m, elem) = RouteUser(m, name)
    BY <1>5, <1>6, <1>7, <1>9, <2>1, <2>2 DEF RouteUsers, Lit
  <2>q. QED
    BY <1>3, <1>5, <2>3, SubtreesServed
<1>10. CASE v[1] = "me"
  <2>1. StartsWith(elem, x)
    <3>1. Len(x) <= Len(elem) /\ \A i \in 1..Len(x) : elem[i] = x[i]
      BY <1>5, <1>6, <1>8, <1>10
    <3>q. QED
      BY <1>5, <1>8, <3>1, Prefix
  <2>2. PICK mine : mine = Tail(name)
    OBVIOUS
  <2>3. mine \in Seq(Token) /\ Len(mine) = Len(name) - 1
    BY <1>1, <1>4, <2>2
  <2>4. CASE Len(v) > 1
    <3>1. mine # <<>> /\ mine[1] = v[2] /\ Len(name) > 1
      <4>1. Len(name) > 1 /\ 2 \in 1..Len(v)
        BY <1>1, <1>4, <2>4
      <4>2. mine[1] = name[2]
        BY <1>4, <2>2, <4>1
      <4>q. QED
        BY <1>4, <2>3, <4>1, <4>2
    <3>2. mine[1] # "/" /\ mine[1] # ":"
      BY <1>1, <2>4, <3>1
    <3>3. RouteMe(m, mine) = NotFound
      BY <2>3, <3>2, NothingMine
    <3>4. Len(elem) > 2 /\ elem # x
      BY <1>4, <1>5, <1>8, <3>1
    <3>5. RouteUsers(m, elem) = RouteUser(m, name)
      BY <1>5, <1>6, <1>7, <1>10, <2>1, <2>2, <3>3, <3>4 DEF RouteUsers, Lit
    <3>q. QED
      BY <1>3, <1>5, <3>5, SubtreesServed
  <2>5. CASE Len(v) = 1
    <3>1. v = <<"me">>
      BY <1>1, <1>10, <2>5
    <3>2. IsVerb(rest, "undelete")
      BY <3>1 DEF IsNothing
    <3>3. mine = rest
      <4>1. PICK n : n = 1
        OBVIOUS
      <4>2. After(name, n) = rest
        <5>1. n = Len(v)
          BY <2>5, <4>1
        <5>2. After(v ++ rest, n) = rest
          BY <1>1, <1>2, <5>1, PrefixIs
        <5>q. QED
          BY <1>3, <5>2
      <4>3. Tail(name) = After(name, 1)
        BY <1>4 DEF After
      <4>q. QED
        BY <2>2, <4>1, <4>2, <4>3
    <3>4. /\ rest # Lit("favorites") /\ StartsWith(rest, Lit("notifications")) = FALSE
          /\ rest # Verbs("mfa", "regenerate") /\ rest # Verb("password") /\ Len(rest) = 2
      BY <3>2 DEF IsVerb
    <3>5. RouteMe(m, mine) = NotFound
      BY <3>3, <3>4 DEF RouteMe, Lit, Verb, Verbs
    <3>6. Len(elem) > 2 /\ elem # x
      BY <1>4, <1>5, <1>8, <2>5, <3>4
    <3>7. RouteUsers(m, elem) = RouteUser(m, name)
      BY <1>5, <1>6, <1>7, <1>10, <2>1, <2>2, <3>5, <3>6 DEF RouteUsers, Lit
    <3>q. QED
      BY <1>3, <1>5, <3>7, SubtreesServed
  <2>6. Len(v) > 1 \/ Len(v) = 1
    <3>1. PICK n : n = Len(v)
      OBVIOUS
    <3>2. n \in Nat /\ n > 0
      BY <1>1, <3>1
    <3>3. n > 1 \/ n = 1
      BY <3>2
    <3>q. QED
      BY <3>1, <3>3
  <2>q. QED
    BY <2>4, <2>5, <2>6
<1>q. QED
  BY <1>9, <1>10

LEMMA UsersLead ==
  /\ Leads([GET |-> "ListUsers", POST |-> "CreateUser"], 0)
  /\ Leads([POST |-> "UndeleteUser"], 1)
  /\ \A m, v : IsSegment(v) /\ v # <<"me">> =>
       Reaches(m, Dispatch(m, [DELETE |-> "DeleteUser", GET |-> "GetUser",
                               PATCH |-> "UpdateUser"], <<v>>))
<1>1. ASSUME NEW m
      PROVE  Reaches(m, Dispatch(m, [GET |-> "ListUsers", POST |-> "CreateUser"], <<>>))
  <2>1. PICK elem : elem = <<>>
    OBVIOUS
  <2>2. /\ elem = <<>> /\ elem # Lit("me") /\ StartsWith(elem, Lit("me")) = FALSE
        /\ StartsWith(elem, <<"/">>) = FALSE /\ elem \in Seq(Token)
    BY <2>1, Nothing DEF IsNothing
  <2>3. RouteUsers(m, elem)
          = Dispatch(m, [GET |-> "ListUsers", POST |-> "CreateUser"], <<>>)
    BY <2>2 DEF RouteUsers, Lit
  <2>q. QED
    BY <2>2, <2>3, SubtreesServed
<1>2. ASSUME NEW m, NEW v, IsSegment(v)
      PROVE  Reaches(m, Dispatch(m, [POST |-> "UndeleteUser"], <<v>>))
  <2>1. PICK rest : IsVerb(rest, "undelete")
    BY Literally DEF TrieWords
  <2>2. rest \in Seq(Token) /\ rest # <<>> /\ rest[1] \in {":"} /\ rest = Verb("undelete")
    BY <2>1 DEF IsVerb
  <2>3. PICK name, p : name = v ++ rest /\ p = Cut(name, {":"})
    OBVIOUS
  <2>4. p.value = v /\ p.rest = rest
    <3>1. v \in Seq(Token) /\ \A i \in 1..Len(v) : v[i] \notin {":"}
      BY <1>2, SegmentIs
    <3>q. QED
      BY <2>2, <2>3, <3>1, CutIs
  <2>5. RouteUser(m, name) = Dispatch(m, [POST |-> "UndeleteUser"], <<v>>)
    BY <2>2, <2>3, <2>4 DEF RouteUser, Verb
  <2>q. QED
    BY <1>2, <2>1, <2>2, <2>3, <2>5, UserServed
<1>3. ASSUME NEW m, NEW v, IsSegment(v), v # <<"me">>
      PROVE  Reaches(m, Dispatch(m, [DELETE |-> "DeleteUser", GET |-> "GetUser",
                                     PATCH |-> "UpdateUser"], <<v>>))
  <2>1. PICK rest : rest = <<>>
    OBVIOUS
  <2>2. IsNothing(rest) /\ rest \in Seq(Token) /\ rest # Verb("undelete")
    BY <2>1, Nothing DEF IsNothing
  <2>3. PICK name, p : name = v ++ rest /\ p = Cut(name, {":"})
    OBVIOUS
  <2>4. p.value = v /\ p.rest = rest
    <3>1. v \in Seq(Token) /\ \A i \in 1..Len(v) : v[i] \notin {":"}
      BY <1>3, SegmentIs
    <3>2. rest = <<>> \/ rest[1] \in {":"}
      BY <2>1
    <3>q. QED
      BY <2>2, <2>3, <3>1, <3>2, CutIs
  <2>5. RouteUser(m, name) = Dispatch(m, [DELETE |-> "DeleteUser", GET |-> "GetUser",
                                          PATCH |-> "UpdateUser"], <<v>>)
    BY <2>1, <2>2, <2>3, <2>4 DEF RouteUser, Verb
  <2>q. QED
    BY <1>3, <2>2, <2>3, <2>5, UserServed
<1>q. QED
  BY <1>1, <1>2, <1>3, ToLead

\* The one path of {user} where RouteUsers does not hand the value on.
Nobody == <<"/", "v1", "/", "users", "/", "me">>

LEMMA NobodyBelow == InSubtree(Nobody, "users", Lit("me"))
<1>0. PICK path : path = Nobody
  OBVIOUS
<1>1. PICK elem, word : elem = Lit("me") /\ word = "users"
  OBVIOUS
<1>2. elem \in Seq(Token) /\ elem = <<"/", "me">>
  BY <1>1, Literally DEF TrieWords, IsLit, Lit
<1>3. path = Below(word) ++ elem
  <2>1. PICK slash, v, me : slash = "/" /\ v = "v1" /\ me = "me"
    OBVIOUS
  <2>2. PICK a, b : a = Below(word) /\ b = Below(word) ++ elem
    OBVIOUS
  <2>3. slash \in Token /\ v \in Token /\ me \in Token /\ word \in Token
    BY <1>1, <2>1 DEF Token, TrieWords
  <2>4. path = <<slash, v, slash, word, slash, me>>
    BY <1>0, <1>1, <2>1 DEF Nobody
  <2>5. /\ path \in Seq(Token) /\ Len(path) = 6 /\ path[1] = slash /\ path[2] = v
        /\ path[3] = slash /\ path[4] = word /\ path[5] = slash /\ path[6] = me
    BY <2>3, <2>4
  <2>6. a = <<slash, v, slash, word>> /\ elem = <<slash, me>>
    BY <1>1, <2>1, <2>2 DEF Below, Lit
  <2>7. /\ a \in Seq(Token) /\ Len(a) = 4 /\ a[1] = slash /\ a[2] = v /\ a[3] = slash
        /\ a[4] = word /\ Len(elem) = 2 /\ elem[1] = slash /\ elem[2] = me
    BY <2>3, <2>6
  <2>8. /\ b \in Seq(Token) /\ Len(b) = 6
        /\ \A i \in 1..4 : b[i] = a[i]
        /\ b[4 + 1] = elem[1] /\ b[4 + 2] = elem[2]
    <3>0. a \in Seq(Token) /\ elem \in Seq(Token)
      BY <1>2, <2>7
    <3>1. /\ a \o elem \in Seq(Token) /\ Len(a \o elem) = Len(a) + Len(elem)
          /\ \A i \in 1..Len(a) : (a \o elem)[i] = a[i]
          /\ \A i \in 1..Len(elem) : (a \o elem)[Len(a) + i] = elem[i]
      BY <3>0, Joined
    <3>2. b = a \o elem
      BY <2>2 DEF ++
    <3>3. /\ b \in Seq(Token) /\ Len(b) = Len(a) + Len(elem)
          /\ \A i \in 1..Len(a) : b[i] = a[i]
          /\ \A i \in 1..Len(elem) : b[Len(a) + i] = elem[i]
      BY <3>1, <3>2
    <3>q. QED
      BY <2>7, <3>3
  <2>9. /\ b[1] = a[1] /\ b[2] = a[2] /\ b[3] = a[3] /\ b[4] = a[4]
        /\ b[5] = elem[1] /\ b[6] = elem[2]
    BY <2>8
  <2>10. \A i \in 1..Len(path) : path[i] = b[i]
    BY <2>5, <2>7, <2>9
  <2>11. path = b
    BY <2>5, <2>8, <2>10, Equal
  <2>q. QED
    BY <2>2, <2>11
<1>q. QED
  BY <1>0, <1>1, <1>2, <1>3, BelowIs DEF TrieWords

\* The handler of that path gets an empty {user}.
LEMMA NobodyServed ==
  ASSUME NEW m
  PROVE  ServeHTTP(m, Nobody) = Dispatch(m, [DELETE |-> "DeleteUser", GET |-> "GetUser",
                                             PATCH |-> "UpdateUser"], << <<>> >>)
<1>1. PICK elem, path : elem = Lit("me") /\ path = Nobody
  OBVIOUS
<1>2. elem \in Seq(Token) /\ elem = <<"/", "me">>
  BY <1>1, Literally DEF TrieWords, IsLit, Lit
<1>4. InSubtree(path, "users", elem)
  BY <1>1, NobodyBelow
<1>5. ServeHTTP(m, path) = RouteUsers(m, elem)
  BY <1>4 DEF InSubtree, ServeHTTP, Below, Lit
<1>6. PICK none, p : none = <<>> /\ p = Cut(none, {":"})
  OBVIOUS
<1>7. p.value = <<>> /\ p.rest = <<>>
  BY <1>6 DEF Cut, SelectInSeq
<1>8. RouteUser(m, none) = Dispatch(m, [DELETE |-> "DeleteUser", GET |-> "GetUser",
                                        PATCH |-> "UpdateUser"], << <<>> >>)
  <2>1. p.rest # Verb("undelete")
    BY <1>7, Nothing DEF IsNothing
  <2>q. QED
    BY <1>6, <1>7, <2>1 DEF RouteUser, Verb
<1>9. RouteUsers(m, elem) = RouteUser(m, <<>>)
  <2>1. elem # <<>> /\ Len(elem) = 2
    BY <1>2
  <2>2. Tail(elem)[1] = "me"
    BY <1>2
  <2>q. QED
    BY <1>2, <2>1, <2>2 DEF RouteUsers
<1>q. QED
  BY <1>1, <1>5, <1>6, <1>8, <1>9


LEMMA ProbesLead ==
  /\ Leads([GET |-> "Healthz"], 0)
  /\ Leads([GET |-> "Readyz"], 0)
<1>1. PICK a, b : a = Lit("healthz") /\ b = Lit("readyz")
  OBVIOUS
<1>2. /\ a \in Seq(Token) /\ a = <<"/", "healthz">> /\ Len(a) = 2
      /\ b \in Seq(Token) /\ b = <<"/", "readyz">> /\ Len(b) = 2
  <2>1. a \in Seq(Token) /\ a = <<"/", "healthz">> /\ Len(a) = 2
    <3>1. "healthz" \in TrieWords
      BY DEF TrieWords
    <3>2. PICK word : word = "healthz"
      OBVIOUS
    <3>3. Lit(word) \in Seq(Token) /\ Len(Lit(word)) = 2
      BY <3>1, <3>2, Literals
    <3>q. QED
      BY <1>1, <3>2, <3>3 DEF Lit
  <2>2. b \in Seq(Token) /\ b = <<"/", "readyz">> /\ Len(b) = 2
    <3>1. "readyz" \in TrieWords
      BY DEF TrieWords
    <3>2. PICK word : word = "readyz"
      OBVIOUS
    <3>3. Lit(word) \in Seq(Token) /\ Len(Lit(word)) = 2
      BY <3>1, <3>2, Literals
    <3>q. QED
      BY <1>1, <3>2, <3>3 DEF Lit
  <2>q. QED
    BY <2>1, <2>2
<1>3. a # b
  <2>1. a[2] = "healthz" /\ b[2] = "readyz"
    BY <1>2
  <2>q. QED
    BY <2>1
<1>4. ASSUME NEW m
      PROVE  /\ ServeHTTP(m, a) = Dispatch(m, [GET |-> "Healthz"], <<>>)
             /\ ServeHTTP(m, b) = Dispatch(m, [GET |-> "Readyz"], <<>>)
  <2>1. \A word \in TrieWords : StartsWith(a, Below(word)) = FALSE /\ StartsWith(b, Below(word)) = FALSE
    <3>1. ASSUME NEW word \in TrieWords
          PROVE  StartsWith(a, Below(word)) = FALSE /\ StartsWith(b, Below(word)) = FALSE
      <4>1. PICK x : x = Below(word)
        OBVIOUS
      <4>2. IsSequence(x) /\ Len(x) = 4
        BY <4>1, LongLiterals DEF IsSequence
      <4>3. Len(x) > Len(a) /\ Len(x) > Len(b)
        BY <1>2, <4>2
      <4>q. QED
        BY <1>2, <4>1, <4>2, <4>3, TooLong
    <3>q. QED
      BY <3>1
  <2>2. /\ StartsWith(a, Below("auth")) = FALSE /\ StartsWith(b, Below("auth")) = FALSE
        /\ StartsWith(a, Below("auditLogs")) = FALSE /\ StartsWith(b, Below("auditLogs")) = FALSE
        /\ StartsWith(a, Below("environments")) = FALSE /\ StartsWith(b, Below("environments")) = FALSE
        /\ StartsWith(a, Below("groups")) = FALSE /\ StartsWith(b, Below("groups")) = FALSE
        /\ StartsWith(a, Below("iam")) = FALSE /\ StartsWith(b, Below("iam")) = FALSE
        /\ StartsWith(a, Below("identityProviders")) = FALSE
        /\ StartsWith(b, Below("identityProviders")) = FALSE
        /\ StartsWith(a, Below("projects")) = FALSE /\ StartsWith(b, Below("projects")) = FALSE
        /\ StartsWith(a, Below("queryHistories")) = FALSE
        /\ StartsWith(b, Below("queryHistories")) = FALSE
        /\ StartsWith(a, Below("settings")) = FALSE /\ StartsWith(b, Below("settings")) = FALSE
        /\ StartsWith(a, Below("users")) = FALSE /\ StartsWith(b, Below("users")) = FALSE
    BY <2>1 DEF TrieWords
  <2>3. a = <<"/", "healthz">> /\ a # <<"/", "readyz">>
    BY <1>2, <1>3
  <2>4. b = <<"/", "readyz">> /\ b # <<"/", "healthz">>
    BY <1>2, <1>3
  <2>5. ServeHTTP(m, a) = Dispatch(m, [GET |-> "Healthz"], <<>>)
    BY <2>2, <2>3 DEF ServeHTTP, Below
  <2>6. ServeHTTP(m, b) = Dispatch(m, [GET |-> "Readyz"], <<>>)
    BY <2>2, <2>4 DEF ServeHTTP, Below
  <2>q. QED
    BY <2>5, <2>6
<1>q. QED
  BY <1>2, <1>4, ToLead DEF Reaches

-----------------------------------------------------------------------------
(* What it leads to is what the route says.                                *)

\* A path that is dispatched on ops with the values is the route with the values.
LEMMA ReachedBy ==
  ASSUME NEW ops, NEW route, NEW k, Offers(ops, route, k), NEW m \in DOMAIN ops, NEW values,
         Fits(values, k), Reaches(m, Dispatch(m, ops, values))
  PROVE  /\ ServeHTTP(m, Filled(route, values)) = To(ops[m], values)
         /\ Arity(ops[m]) = k
         /\ Operation[ops[m]].method = m /\ Operation[ops[m]].route = route
<1>1. PICK path \in Seq(Token) : ServeHTTP(m, path) = Dispatch(m, ops, values)
  BY DEF Reaches
<1>2. PICK to : to = To(ops[m], values)
  OBVIOUS
<1>3. ServeHTTP(m, path) = to /\ to.kind = "operation" /\ to.op = ops[m] /\ to.args = values
  BY <1>1, <1>2 DEF Dispatch, To
<1>4. Served(m, path, to)
  BY <1>3, RouterIsSound DEF Right
<1>5. Serves(ops[m], m, route, k)
  BY DEF Offers
<1>6. Operation[ops[m]].method = m /\ Operation[ops[m]].route = route
  BY <1>5 DEF Serves
<1>7. values # << <<>> >>
  <2>1. ASSUME values = << <<>> >>
        PROVE  FALSE
    <3>1. PICK none : none = <<>>
      OBVIOUS
    <3>2. Len(values) = 1 /\ values[1] = none
      BY <2>1, <3>1
    <3>3. IsSegment(values[1])
      BY <3>2 DEF Fits
    <3>q. QED
      BY <3>1, <3>2, <3>3 DEF IsSegment
  <2>q. QED
    BY <2>1
<1>8. path = Filled(route, values) /\ Len(values) = Arity(ops[m])
  BY <1>3, <1>4, <1>6, <1>7 DEF Served
<1>9. Len(values) = k
  BY DEF Fits
<1>q. QED
  BY <1>2, <1>3, <1>6, <1>8, <1>9

\* Some values there are.
LEMMA SomeFit ==
  ASSUME NEW k \in 0..3
  PROVE  \E values : Fits(values, k) /\ values # << <<"me">> >>
<1>1. PICK word, v : word = "v1" /\ v = <<word>>
  OBVIOUS
<1>2. word \in Token /\ word # "/" /\ word # ":"
  BY <1>1 DEF Token, TrieWords
<1>3. v \in Seq(Token) /\ v # <<>> /\ Len(v) = 1 /\ v[1] = word
  BY <1>1, <1>2
<1>4. ~Contains(v, "/") /\ ~Contains(v, ":")
  BY <1>2, <1>3 DEF Contains
<1>5. IsSegment(v)
  BY <1>3, <1>4 DEF IsSegment
<1>6. PICK values : values = [i \in 1..k |-> v]
  OBVIOUS
<1>7. /\ values \in Seq(Seq(Token)) /\ Len(values) = k
      /\ \A i \in 1..k : values[i] = v
  BY <1>3, <1>6
<1>8. values # << <<"me">> >>
  <2>1. ASSUME values = << <<"me">> >>
        PROVE  FALSE
    <3>1. PICK me, w : me = "me" /\ w = <<me>>
      OBVIOUS
    <3>2. Len(values) = 1 /\ values[1] = w /\ w[1] = me
      BY <2>1, <3>1
    <3>3. k = 1 /\ w = v
      BY <1>7, <3>2
    <3>q. QED
      BY <1>1, <1>3, <3>1, <3>2, <3>3
  <2>q. QED
    BY <2>1
<1>q. QED
  BY <1>5, <1>7, <1>8 DEF Fits

\* A request for o with the values is dispatched to it, and with them but at Nobody.
Reached(o, values) ==
  LET path == Filled(Operation[o].route, values)
      to   == ServeHTTP(Operation[o].method, path)
  IN to = To(o, values) \/ (path = Nobody /\ to = To(o, << <<>> >>))

Complete(o) ==
  /\ Arity(o) \in 0..3
  /\ \A values : Fits(values, Arity(o)) => Reached(o, values)

Completes(ops) == \A m \in DOMAIN ops : Complete(ops[m])

LEMMA LeadsComplete ==
  ASSUME NEW ops, NEW route, NEW k \in 0..3, Offers(ops, route, k), Leads(ops, k)
  PROVE  Completes(ops)
<1>1. ASSUME NEW m \in DOMAIN ops
      PROVE  Arity(ops[m]) = k
  <2>1. PICK some : Fits(some, k)
    BY SomeFit
  <2>2. Reaches(m, Dispatch(m, ops, some))
    BY <2>1 DEF Leads
  <2>q. QED
    BY <1>1, <2>1, <2>2, ReachedBy
<1>2. ASSUME NEW m \in DOMAIN ops, NEW values, Fits(values, k)
      PROVE  Reached(ops[m], values)
  <2>1. Reaches(m, Dispatch(m, ops, values))
    BY <1>2 DEF Leads
  <2>2. /\ ServeHTTP(m, Filled(route, values)) = To(ops[m], values)
        /\ Operation[ops[m]].method = m /\ Operation[ops[m]].route = route
    BY <1>2, <2>1, ReachedBy
  <2>q. QED
    BY <2>2 DEF Reached
<1>q. QED
  BY <1>1, <1>2 DEF Completes, Complete

-----------------------------------------------------------------------------
(* Every operation of the table.                                           *)

\* The value that leads to Nobody.
LEMMA NobodyFilled == Filled(V1("users") ## Lit(UserHole), << <<"me">> >>) = Nobody
<1>1. PICK path, elem, v : path = Nobody /\ elem = Lit("me") /\ v = <<"me">>
  OBVIOUS
<1>0. InSubtree(path, "users", elem)
  BY <1>1, NobodyBelow
<1>2. /\ path \in Seq(Token) /\ StartsWith(path, Below("users")) /\ elem = After(path, 4)
  BY <1>0 DEF InSubtree
<1>3. At(2, V1("users"), <<>>, path, elem)
  BY <1>2, Words, BelowV1
<1>4. StartsWith(elem, <<"/">>) /\ Tail(elem) = v
  <2>1. PICK slash, me, x : slash = "/" /\ me = "me" /\ x = <<slash>>
    OBVIOUS
  <2>2. slash \in Token /\ me \in Token
    BY <2>1 DEF Token, TrieWords
  <2>3. elem = <<slash, me>> /\ v = <<me>>
    BY <1>1, <2>1 DEF Lit
  <2>4. elem \in Seq(Token) /\ Len(elem) = 2 /\ elem[1] = slash /\ elem[2] = me
    BY <2>2, <2>3
  <2>5. IsSequence(x) /\ Len(x) = 1 /\ x[1] = slash
    BY <2>1, <2>2 DEF IsSequence
  <2>6. StartsWith(elem, x)
    <3>1. Len(x) <= Len(elem) /\ \A i \in 1..Len(x) : elem[i] = x[i]
      BY <2>4, <2>5
    <3>q. QED
      BY <2>4, <2>5, <3>1, Prefix
  <2>7. PICK t : t = Tail(elem)
    OBVIOUS
  <2>8. t \in Seq(Token) /\ Len(t) = 1 /\ t[1] = me
    <3>1. /\ Tail(elem) \in Seq(Token) /\ Len(Tail(elem)) = Len(elem) - 1
          /\ \A i \in 1..(Len(elem) - 1) : Tail(elem)[i] = elem[i + 1]
      <4>1. elem # <<>>
        BY <2>3
      <4>q. QED
        BY <2>4, <4>1
    <3>2. PICK n : n = Len(elem)
      OBVIOUS
    <3>3. /\ t \in Seq(Token) /\ Len(t) = n - 1 /\ n = 2
          /\ \A i \in 1..(n - 1) : t[i] = elem[i + 1]
      BY <2>4, <2>7, <3>1, <3>2
    <3>4. Len(t) = 1
      BY <3>3
    <3>5. t[1] = elem[2]
      BY <3>3
    <3>q. QED
      BY <2>4, <3>3, <3>4, <3>5
  <2>9. t = v
    <3>1. v \in Seq(Token) /\ Len(v) = 1 /\ v[1] = me
      BY <2>2, <2>3
    <3>q. QED
      BY <2>8, <3>1, Equal
  <2>q. QED
    BY <2>1, <2>6, <2>7, <2>9
<1>5. At(3, V1("users") ## Lit(UserHole), Append(<<>>, v), path, <<>>)
  <2>1. PICK none, route : none = <<>> /\ route = V1("users")
    OBVIOUS
  <2>2. At(3, route ## Lit(UserHole), Append(none, Tail(elem)), path, <<>>)
    <3>1. At(2, route, none, path, elem)
      BY <1>3, <2>1
    <3>2. UserHole \in Placeholder /\ 2 \in 0..7 /\ 3 = 2 + 1
      BY Places
    <3>q. QED
      BY <1>4, <3>1, <3>2, AtLastParameter
  <2>q. QED
    BY <1>4, <2>1, <2>2
<1>6. path = Filled(V1("users") ## Lit(UserHole), Append(<<>>, v))
  BY <1>5, AtEnd DEF Spells
<1>q. QED
  BY <1>1, <1>6

LEMMA OneUserComplete ==
  Completes([DELETE |-> "DeleteUser", GET |-> "GetUser", PATCH |-> "UpdateUser"])
<1>1. PICK ops, route : /\ ops = [DELETE |-> "DeleteUser", GET |-> "GetUser",
                                  PATCH |-> "UpdateUser"]
                        /\ route = V1("users") ## Lit(UserHole)
  OBVIOUS
<1>2. Offers(ops, route, 1)
  BY <1>1, UserOperations
<1>3. ASSUME NEW m, NEW values, Fits(values, 1), values # << <<"me">> >>
      PROVE  Reaches(m, Dispatch(m, ops, values))
  <2>1. PICK v : v = values[1]
    OBVIOUS
  <2>2. values = <<v>> /\ IsSegment(v)
    BY <1>3, <2>1, FitsIs
  <2>3. v # <<"me">>
    BY <1>3, <2>2
  <2>4. Reaches(m, Dispatch(m, ops, <<v>>))
    BY <1>1, <2>2, <2>3, UsersLead
  <2>q. QED
    BY <2>2, <2>4
<1>4. ASSUME NEW m \in DOMAIN ops
      PROVE  /\ Arity(ops[m]) = 1 /\ Operation[ops[m]].method = m
             /\ Operation[ops[m]].route = route
  <2>1. PICK some : Fits(some, 1) /\ some # << <<"me">> >>
    BY Sizes, SomeFit
  <2>q. QED
    BY <1>2, <1>3, <1>4, <2>1, ReachedBy
<1>5. ASSUME NEW m \in DOMAIN ops, NEW values, Fits(values, 1)
      PROVE  Reached(ops[m], values)
  <2>1. CASE values # << <<"me">> >>
    <3>1. ServeHTTP(m, Filled(route, values)) = To(ops[m], values)
      BY <1>2, <1>3, <1>5, <2>1, ReachedBy
    <3>q. QED
      BY <1>4, <1>5, <3>1 DEF Reached
  <2>2. CASE values = << <<"me">> >>
    <3>1. Filled(route, values) = Nobody
      BY <1>1, <2>2, NobodyFilled
    <3>2. ServeHTTP(m, Nobody) = Dispatch(m, ops, << <<>> >>)
      BY <1>1, NobodyServed
    <3>3. ServeHTTP(m, Nobody) = To(ops[m], << <<>> >>)
      BY <1>5, <3>2 DEF Dispatch
    <3>q. QED
      BY <1>4, <1>5, <3>1, <3>3 DEF Reached
  <2>q. QED
    BY <2>1, <2>2
<1>6. Completes(ops)
  BY <1>4, <1>5 DEF Completes, Complete
<1>q. QED
  BY <1>1, <1>6

LEMMA ProbeComplete ==
  /\ Complete("Healthz") /\ Complete("Readyz")
<1>1. Completes([GET |-> "Healthz"])
  BY ProbesLead, ProbeOperations, Sizes, LeadsComplete
<1>2. Completes([GET |-> "Readyz"])
  BY ProbesLead, ProbeOperations, Sizes, LeadsComplete
<1>q. QED
  BY <1>1, <1>2 DEF Completes

LEMMA AuthComplete ==
  /\ Complete("AuthCsrf") /\ Complete("AuthLogin") /\ Complete("AuthLogout")
  /\ Complete("AuthPasswordResetConfirm") /\ Complete("AuthPasswordResetRequest")
  /\ Complete("AuthRefresh")
<1>1. Completes([GET |-> "AuthCsrf"])
  BY AuthLeads, AuthOperations, Sizes, LeadsComplete
<1>2. Completes([POST |-> "AuthLogin"])
  BY AuthLeads, AuthOperations, Sizes, LeadsComplete
<1>3. Completes([POST |-> "AuthLogout"])
  BY AuthLeads, AuthOperations, Sizes, LeadsComplete
<1>4. Completes([POST |-> "AuthPasswordResetConfirm"])
  BY PasswordLeads, AuthOperations, Sizes, LeadsComplete
<1>5. Completes([POST |-> "AuthPasswordResetRequest"])
  BY PasswordLeads, AuthOperations, Sizes, LeadsComplete
<1>6. Completes([POST |-> "AuthRefresh"])
  BY PasswordLeads, AuthOperations, Sizes, LeadsComplete
<1>q. QED
  BY <1>1, <1>2, <1>3, <1>4, <1>5, <1>6 DEF Completes

LEMMA AuditComplete ==
  /\ Complete("ExportAuditLogs") /\ Complete("SearchAuditLogs")
<1>1. Completes([POST |-> "ExportAuditLogs"])
  BY AuditLeads, AuditOperations, Sizes, LeadsComplete
<1>2. Completes([POST |-> "SearchAuditLogs"])
  BY AuditLeads, AuditOperations, Sizes, LeadsComplete
<1>q. QED
  BY <1>1, <1>2 DEF Completes

LEMMA EnvironmentComplete ==
  /\ Complete("ListEnvironments") /\ Complete("DeleteEnvironment")
  /\ Complete("UpdateEnvironment") /\ Complete("CreateEnvironment")
  /\ Complete("GetEnvironmentPolicy") /\ Complete("UpdateEnvironmentPolicy")
<1>1. Completes([GET |-> "ListEnvironments"])
  BY EnvironmentsLead, EnvironmentOperations, Sizes, LeadsComplete
<1>2. Completes([DELETE |-> "DeleteEnvironment", PATCH |-> "UpdateEnvironment",
                 POST |-> "CreateEnvironment"])
  BY EnvironmentsLead, EnvironmentOperations, Sizes, LeadsComplete
<1>3. Completes([GET |-> "GetEnvironmentPolicy", PATCH |-> "UpdateEnvironmentPolicy"])
  BY EnvironmentsLead, EnvironmentOperations, Sizes, LeadsComplete
<1>q. QED
  BY <1>1, <1>2, <1>3 DEF Completes

LEMMA GroupComplete ==
  /\ Complete("ListGroups") /\ Complete("CreateGroup") /\ Complete("DeleteGroup")
  /\ Complete("GetGroup") /\ Complete("UpdateGroup") /\ Complete("ListGroupMembers")
  /\ Complete("AddGroupMember") /\ Complete("RemoveGroupMember")
<1>1. Completes([GET |-> "ListGroups", POST |-> "CreateGroup"])
  BY GroupsLead, GroupOperations, Sizes, LeadsComplete
<1>2. Completes([DELETE |-> "DeleteGroup", GET |-> "GetGroup", PATCH |-> "UpdateGroup"])
  BY GroupsLead, GroupOperations, Sizes, LeadsComplete
<1>3. Completes([GET |-> "ListGroupMembers", POST |-> "AddGroupMember"])
  BY GroupsLead, GroupOperations, Sizes, LeadsComplete
<1>4. Completes([DELETE |-> "RemoveGroupMember"])
  BY GroupsLead, GroupOperations, Sizes, LeadsComplete
<1>q. QED
  BY <1>1, <1>2, <1>3, <1>4 DEF Completes

LEMMA IamComplete ==
  /\ Complete("GetIamPolicy") /\ Complete("SetIamPolicy")
  /\ Complete("TestIamPermissions")
<1>1. Completes([POST |-> "GetIamPolicy"])
  BY IamLeads, IamOperations, Sizes, LeadsComplete
<1>2. Completes([POST |-> "SetIamPolicy"])
  BY IamLeads, IamOperations, Sizes, LeadsComplete
<1>3. Completes([POST |-> "TestIamPermissions"])
  BY IamLeads, IamOperations, Sizes, LeadsComplete
<1>q. QED
  BY <1>1, <1>2, <1>3 DEF Completes

LEMMA IdentityProviderComplete ==
  /\ Complete("ListIdentityProviders") /\ Complete("DeleteIdentityProvider")
  /\ Complete("GetIdentityProvider") /\ Complete("UpdateIdentityProvider")
  /\ Complete("CreateIdentityProvider") /\ Complete("TestIdentityProvider")
<1>1. Completes([GET |-> "ListIdentityProviders"])
  BY IdentityProvidersLead, IdentityProviderOperations, Sizes, LeadsComplete
<1>2. Completes([DELETE |-> "DeleteIdentityProvider", GET |-> "GetIdentityProvider",
                 PATCH |-> "UpdateIdentityProvider", POST |-> "CreateIdentityProvider"])
  BY IdentityProvidersLead, IdentityProviderOperations, Sizes, LeadsComplete
<1>3. Completes([POST |-> "TestIdentityProvider"])
  BY IdentityProvidersLead, IdentityProviderOperations, Sizes, LeadsComplete
<1>q. QED
  BY <1>1, <1>2, <1>3 DEF Completes

LEMMA ProjectComplete ==
  /\ Complete("ListProjects") /\ Complete("CreateProject") /\ Complete("DeleteProject")
  /\ Complete("GetProject") /\ Complete("UpdateProject") /\ Complete("UndeleteProject")
<1>1. Completes([GET |-> "ListProjects", POST |-> "CreateProject"])
  BY ProjectsLead, ProjectOperations, Sizes, LeadsComplete
<1>2. Completes([DELETE |-> "DeleteProject", GET |-> "GetProject",
                 PATCH |-> "UpdateProject"])
  BY ProjectsLead, ProjectOperations, Sizes, LeadsComplete
<1>3. Completes([POST |-> "UndeleteProject"])
  BY ProjectsLead, ProjectOperations, Sizes, LeadsComplete
<1>q. QED
  BY <1>1, <1>2, <1>3 DEF Completes

LEMMA ExportTaskComplete ==
  /\ Complete("ListExportTasks") /\ Complete("CreateExportTask")
  /\ Complete("GetExportTask") /\ Complete("DownloadExportTask")
<1>1. Completes([GET |-> "ListExportTasks", POST |-> "CreateExportTask"])
  BY ExportTasksLead, ExportTaskOperations, Sizes, LeadsComplete
<1>2. Completes([GET |-> "GetExportTask"])
  BY ExportTasksLead, ExportTaskOperations, Sizes, LeadsComplete
<1>3. Completes([POST |-> "DownloadExportTask"])
  BY ExportTasksLead, ExportTaskOperations, Sizes, LeadsComplete
<1>q. QED
  BY <1>1, <1>2, <1>3 DEF Completes

LEMMA InstanceComplete ==
  /\ Complete("SyncInstance") /\ Complete("TestInstanceConnection")
  /\ Complete("ListInstances") /\ Complete("CreateInstance")
  /\ Complete("DeleteInstance") /\ Complete("GetInstance") /\ Complete("UpdateInstance")
<1>1. Completes([POST |-> "SyncInstance"])
  BY InstancesLead, InstanceOperations, Sizes, LeadsComplete
<1>2. Completes([POST |-> "TestInstanceConnection"])
  BY InstancesLead, InstanceOperations, Sizes, LeadsComplete
<1>3. Completes([GET |-> "ListInstances", POST |-> "CreateInstance"])
  BY InstancesLead, InstanceOperations, Sizes, LeadsComplete
<1>4. Completes([DELETE |-> "DeleteInstance", GET |-> "GetInstance",
                 PATCH |-> "UpdateInstance"])
  BY InstancesLead, InstanceOperations, Sizes, LeadsComplete
<1>q. QED
  BY <1>1, <1>2, <1>3, <1>4 DEF Completes

LEMMA DataSourceComplete ==
  /\ Complete("DeleteDataSource") /\ Complete("UpdateDataSource")
  /\ Complete("CreateDataSource")
<1>1. Completes([DELETE |-> "DeleteDataSource", PATCH |-> "UpdateDataSource",
                 POST |-> "CreateDataSource"])
  BY InstancesLead, DataSourceOperations, Sizes, LeadsComplete
<1>q. QED
  BY <1>1 DEF Completes

LEMMA DatabaseComplete ==
  /\ Complete("SqlExport") /\ Complete("SqlQuery") /\ Complete("SyncDatabaseSchema")
  /\ Complete("ListDatabases") /\ Complete("GetDatabase") /\ Complete("UpdateDatabase")
<1>1. Completes([POST |-> "SqlExport"])
  BY DatabasesLead, DatabaseOperations, Sizes, LeadsComplete
<1>2. Completes([POST |-> "SqlQuery"])
  BY DatabasesLead, DatabaseOperations, Sizes, LeadsComplete
<1>3. Completes([POST |-> "SyncDatabaseSchema"])
  BY DatabasesLead, DatabaseOperations, Sizes, LeadsComplete
<1>4. Completes([GET |-> "ListDatabases"])
  BY DatabasesLead, DatabaseOperations, Sizes, LeadsComplete
<1>5. Completes([GET |-> "GetDatabase", PATCH |-> "UpdateDatabase"])
  BY DatabasesLead, DatabaseOperations, Sizes, LeadsComplete
<1>q. QED
  BY <1>1, <1>2, <1>3, <1>4, <1>5 DEF Completes

LEMMA WorksheetComplete ==
  /\ Complete("FavoriteWorksheet") /\ Complete("UnfavoriteWorksheet")
  /\ Complete("CreateWorksheet") /\ Complete("SearchWorksheets")
  /\ Complete("DeleteWorksheet") /\ Complete("GetWorksheet")
  /\ Complete("UpdateWorksheet")
<1>1. Completes([POST |-> "FavoriteWorksheet"])
  BY WorksheetsLead, WorksheetOperations, Sizes, LeadsComplete
<1>2. Completes([POST |-> "UnfavoriteWorksheet"])
  BY WorksheetsLead, WorksheetOperations, Sizes, LeadsComplete
<1>3. Completes([POST |-> "CreateWorksheet"])
  BY WorksheetsLead, WorksheetOperations, Sizes, LeadsComplete
<1>4. Completes([GET |-> "SearchWorksheets"])
  BY WorksheetsLead, WorksheetOperations, Sizes, LeadsComplete
<1>5. Completes([DELETE |-> "DeleteWorksheet", GET |-> "GetWorksheet",
                 PATCH |-> "UpdateWorksheet"])
  BY WorksheetsLead, WorksheetOperations, Sizes, LeadsComplete
<1>q. QED
  BY <1>1, <1>2, <1>3, <1>4, <1>5 DEF Completes

LEMMA QueryHistoryComplete ==
  /\ Complete("QueryHistoriesSearch")
<1>1. Completes([GET |-> "QueryHistoriesSearch"])
  BY QueryHistoriesLead, QueryHistoryOperations, Sizes, LeadsComplete
<1>q. QED
  BY <1>1 DEF Completes

LEMMA SettingComplete ==
  /\ Complete("GetSetting") /\ Complete("UpdateSetting")
<1>1. Completes([GET |-> "GetSetting", PATCH |-> "UpdateSetting"])
  BY SettingsLead, SettingOperations, Sizes, LeadsComplete
<1>q. QED
  BY <1>1 DEF Completes

LEMMA UserComplete ==
  /\ Complete("ListMyNotifications") /\ Complete("MarkNotificationRead")
  /\ Complete("MarkAllNotificationsRead") /\ Complete("GetUnreadNotificationCount")
  /\ Complete("ListMyFavorites") /\ Complete("RegenerateMyMfa")
  /\ Complete("ChangeMyPassword") /\ Complete("DeleteUser") /\ Complete("GetUser")
  /\ Complete("UpdateUser") /\ Complete("UndeleteUser") /\ Complete("ListUsers")
  /\ Complete("CreateUser")
<1>1. Completes([GET |-> "ListMyNotifications"])
  BY NotificationsLead, UserOperations, Sizes, LeadsComplete
<1>2. Completes([POST |-> "MarkNotificationRead"])
  BY NotificationsLead, UserOperations, Sizes, LeadsComplete
<1>3. Completes([POST |-> "MarkAllNotificationsRead"])
  BY NotificationsLead, UserOperations, Sizes, LeadsComplete
<1>4. Completes([GET |-> "GetUnreadNotificationCount"])
  BY NotificationsLead, UserOperations, Sizes, LeadsComplete
<1>5. Completes([GET |-> "ListMyFavorites"])
  BY MeLeads, UserOperations, Sizes, LeadsComplete
<1>6. Completes([POST |-> "RegenerateMyMfa"])
  BY MeLeads, UserOperations, Sizes, LeadsComplete
<1>7. Completes([POST |-> "ChangeMyPassword"])
  BY MeLeads, UserOperations, Sizes, LeadsComplete
<1>8. Completes([DELETE |-> "DeleteUser", GET |-> "GetUser", PATCH |-> "UpdateUser"])
  BY OneUserComplete
<1>9. Completes([POST |-> "UndeleteUser"])
  BY UsersLead, UserOperations, Sizes, LeadsComplete
<1>10. Completes([GET |-> "ListUsers", POST |-> "CreateUser"])
  BY UsersLead, UserOperations, Sizes, LeadsComplete
<1>q. QED
  BY <1>1, <1>2, <1>3, <1>4, <1>5, <1>6, <1>7, <1>8, <1>9, <1>10 DEF Completes

LEMMA AllComplete ==
  ASSUME NEW o \in DOMAIN Operation
  PROVE  Complete(o)
<1>1. o \in {"AddGroupMember", "AuthCsrf", "AuthLogin", "AuthLogout",
            "AuthPasswordResetConfirm", "AuthPasswordResetRequest", "AuthRefresh",
            "ChangeMyPassword", "CreateDataSource", "CreateEnvironment",
            "CreateExportTask", "CreateGroup", "CreateIdentityProvider",
            "CreateInstance", "CreateProject", "CreateUser", "CreateWorksheet",
            "DeleteDataSource", "DeleteEnvironment", "DeleteGroup",
            "DeleteIdentityProvider", "DeleteInstance", "DeleteProject",
            "DeleteUser", "DeleteWorksheet", "DownloadExportTask", "ExportAuditLogs",
            "FavoriteWorksheet", "GetDatabase", "GetEnvironmentPolicy",
            "GetExportTask", "GetGroup", "GetIamPolicy", "GetIdentityProvider",
            "GetInstance", "GetProject", "GetSetting", "GetUnreadNotificationCount",
            "GetUser", "GetWorksheet", "Healthz", "ListDatabases",
            "ListEnvironments", "ListExportTasks", "ListGroupMembers", "ListGroups",
            "ListIdentityProviders", "ListInstances", "ListMyFavorites",
            "ListMyNotifications", "ListProjects", "ListUsers",
            "MarkAllNotificationsRead", "MarkNotificationRead",
            "QueryHistoriesSearch", "Readyz", "RegenerateMyMfa", "RemoveGroupMember",
            "SearchAuditLogs", "SearchWorksheets", "SetIamPolicy", "SqlExport",
            "SqlQuery", "SyncDatabaseSchema", "SyncInstance", "TestIamPermissions",
            "TestIdentityProvider", "TestInstanceConnection", "UndeleteProject",
            "UndeleteUser", "UnfavoriteWorksheet", "UpdateDataSource",
            "UpdateDatabase", "UpdateEnvironment", "UpdateEnvironmentPolicy",
            "UpdateGroup", "UpdateIdentityProvider", "UpdateInstance",
            "UpdateProject", "UpdateSetting", "UpdateUser", "UpdateWorksheet"}
  BY DEF Operation
<1>2. CASE o \in {"Healthz", "Readyz"}
  BY <1>2, ProbeComplete
<1>3. CASE o \in {"AuthCsrf", "AuthLogin", "AuthLogout", "AuthPasswordResetConfirm",
                  "AuthPasswordResetRequest", "AuthRefresh"}
  BY <1>3, AuthComplete
<1>4. CASE o \in {"ExportAuditLogs", "SearchAuditLogs"}
  BY <1>4, AuditComplete
<1>5. CASE o \in {"ListEnvironments", "DeleteEnvironment", "UpdateEnvironment",
                  "CreateEnvironment", "GetEnvironmentPolicy",
                  "UpdateEnvironmentPolicy"}
  BY <1>5, EnvironmentComplete
<1>6. CASE o \in {"ListGroups", "CreateGroup", "DeleteGroup", "GetGroup",
                  "UpdateGroup", "ListGroupMembers", "AddGroupMember",
                  "RemoveGroupMember"}
  BY <1>6, GroupComplete
<1>7. CASE o \in {"GetIamPolicy", "SetIamPolicy", "TestIamPermissions"}
  BY <1>7, IamComplete
<1>8. CASE o \in {"ListIdentityProviders", "DeleteIdentityProvider",
                  "GetIdentityProvider", "UpdateIdentityProvider",
                  "CreateIdentityProvider", "TestIdentityProvider"}
  BY <1>8, IdentityProviderComplete
<1>9. CASE o \in {"ListProjects", "CreateProject", "DeleteProject", "GetProject",
                  "UpdateProject", "UndeleteProject"}
  BY <1>9, ProjectComplete
<1>10. CASE o \in {"ListExportTasks", "CreateExportTask", "GetExportTask",
                  "DownloadExportTask"}
  BY <1>10, ExportTaskComplete
<1>11. CASE o \in {"SyncInstance", "TestInstanceConnection", "ListInstances",
                   "CreateInstance", "DeleteInstance", "GetInstance",
                   "UpdateInstance"}
  BY <1>11, InstanceComplete
<1>12. CASE o \in {"DeleteDataSource", "UpdateDataSource", "CreateDataSource"}
  BY <1>12, DataSourceComplete
<1>13. CASE o \in {"SqlExport", "SqlQuery", "SyncDatabaseSchema", "ListDatabases",
                   "GetDatabase", "UpdateDatabase"}
  BY <1>13, DatabaseComplete
<1>14. CASE o \in {"FavoriteWorksheet", "UnfavoriteWorksheet", "CreateWorksheet",
                   "SearchWorksheets", "DeleteWorksheet", "GetWorksheet",
                   "UpdateWorksheet"}
  BY <1>14, WorksheetComplete
<1>15. CASE o \in {"QueryHistoriesSearch"}
  BY <1>15, QueryHistoryComplete
<1>16. CASE o \in {"GetSetting", "UpdateSetting"}
  BY <1>16, SettingComplete
<1>17. CASE o \in {"ListMyNotifications", "MarkNotificationRead",
                   "MarkAllNotificationsRead", "GetUnreadNotificationCount",
                   "ListMyFavorites", "RegenerateMyMfa", "ChangeMyPassword",
                   "DeleteUser", "GetUser", "UpdateUser", "UndeleteUser",
                   "ListUsers", "CreateUser"}
  BY <1>17, UserComplete
<1>q. QED
  BY <1>1, <1>2, <1>3, <1>4, <1>5, <1>6, <1>7, <1>8, <1>9, <1>10,
     <1>11, <1>12, <1>13, <1>14, <1>15, <1>16, <1>17

\* Whatever the operation and whatever segments of a path stand in the placeholders of its
\* route, the router takes the path of that route and the method of the operation to that
\* operation, with those segments as its arguments, and to no other; but for
\* v1/users/me, which is handed on as a user without a name.  oas_router_gen.go tries one
\* branch and never comes back: a branch that swallows the paths of another one (a literal
\* taken for a value, or a separator that ends a value too early) is what this theorem
\* excludes.
THEOREM RouterIsComplete ==
  ASSUME NEW o \in DOMAIN Operation, NEW values, Fits(values, Arity(o)),
         NEW path, path = Filled(Operation[o].route, values)
  PROVE  \/ ServeHTTP(Operation[o].method, path) = To(o, values)
         \/ path = Nobody /\ ServeHTTP(Operation[o].method, path) = To(o, << <<>> >>)
BY AllComplete DEF Complete, Reached
=============================================================================
