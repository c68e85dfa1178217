-------------------------- MODULE ScoreboardProofs --------------------------
(***************************************************************************)
(* Theorems about the score table, for any number of places, players, names*)
(* and results: the table owns the names it points to, stays in order, and *)
(* holds the best of the results it was computed from, whatever games      *)
(* overlap, get killed or lose the file; games that run one by one lose no *)
(* result.                                                                 *)
(***************************************************************************)
EXTENDS Scoreboard, TLAPS, FiniteSetTheorems, WellFoundedInduction, SequenceTheorems

----------------------------------------------------------------------------
(* Least and greatest numbers *)

\* A set of naturals that is not empty has a least element: the order of the
\* naturals is well-founded.
LEMMA LeastNatural ==
    ASSUME NEW S \in SUBSET Nat, S # {}
    PROVE  \E n \in S : \A m \in S : n <= m
<1> DEFINE Less == {p \in Nat \X Nat : p[1] < p[2]}
<1>1. IsWellFoundedOn(Less, Nat)
  BY NatLessThanWellFounded, Zenon DEF OpToRel
<1>2. PICK n \in S : \A m \in S : ~ (<<m, n>> \in Less)
  <2> HIDE DEF Less
  <2> QED
    BY <1>1, WFMin
<1>3. ASSUME NEW m \in S
      PROVE  n <= m
  <2>1. ~ (m < n)
    BY <1>2
  <2> QED
    BY <2>1
<1> QED
  BY <1>3

\* A set of naturals with an upper bound has a greatest element.
LEMMA GreatestNatural ==
    ASSUME NEW S \in SUBSET Nat, S # {}, NEW b \in Nat, \A n \in S : n <= b
    PROVE  \E n \in S : \A m \in S : m <= n
<1> DEFINE Below == {b - n : n \in S}
<1>1. Below \in SUBSET Nat /\ Below # {}
  <2>1. \A n \in S : b - n \in Nat
    OBVIOUS
  <2> QED
    BY <2>1
<1>2. PICK n \in S : \A m \in S : b - n <= b - m
  <2> HIDE DEF Below
  <2>1. PICK x \in Below : \A y \in Below : x <= y
    BY <1>1, LeastNatural
  <2> QED
    BY <2>1 DEF Below
<1>3. \A m \in S : m <= n
  BY <1>2
<1> QED
  BY <1>3

----------------------------------------------------------------------------
(* Tables *)

\* What holds of every table, whatever names are entered.
Sound(t) ==
    /\ t.names \in [Places -> Address]
    /\ t.scores \in [Places -> Nat]
    /\ IsFiniteSet(DOMAIN t.heap) /\ DOMAIN t.heap \subseteq Address
    /\ \A a \in DOMAIN t.heap : t.heap[a] \in Seq(Token)
    /\ \A p \in Places :
         /\ t.names[p] \in DOMAIN t.heap
         /\ \A q \in Places : t.names[p] = t.names[q] => p = q

\* No name in it has a tab.
Plain(t) == \A a \in DOMAIN t.heap : Len(t.heap[a]) = 1

\* The lines of a file the program has written.
Lines(f) == f \in Seq(Seq(Token)) /\ \A i \in 1 .. Len(f) : Len(f[i]) >= 2

\* Its first lines are those of a table in order without tabs.
PlainLines(f) ==
    /\ Len(f) >= LEN
    /\ \A p \in Places : Len(f[p]) = 3 /\ f[p][1].num = p /\ f[p][3].num \in Nat
    /\ Ordered([p \in Places |-> f[p][3].num])

LEMMA TokenTypes == \A n \in Nat : Number(n) \in Token
  BY DEF Number, Token

LEMMA DefaultType == \A p \in Places : DefaultScore(p) \in Nat
  BY LenAssumption DEF DefaultScore, Places

LEMMA InitTableSound == Sound(InitTable) /\ Ordered(InitTable.scores)
<1>1. IsFiniteSet(Places)
  BY LenAssumption, FS_Interval DEF Places
<1>2. Places \subseteq Address
  BY LenAssumption DEF Places, Address
<1>3. Default \in Seq(Token)
  BY DefaultAssumption
<1>4. Sound(InitTable)
  BY <1>1, <1>2, <1>3, DefaultType DEF Sound, InitTable
<1>5. \A p, q \in Places : p < q => DefaultScore(p) >= DefaultScore(q)
  BY LenAssumption DEF DefaultScore, Places
<1> QED
  BY <1>4, <1>5, DefaultType DEF Ordered, InitTable

\* The lines of a table: numbers, name and score.
LEMMA LineType ==
    ASSUME NEW p \in Nat, NEW name \in Seq(Token), NEW score \in Nat
    PROVE  /\ LineOf(p, name, score) \in Seq(Token)
           /\ Len(LineOf(p, name, score)) = Len(name) + 2
           /\ LineOf(p, name, score)[1].num = p
           /\ Len(name) = 1 => LineOf(p, name, score)[3].num = score
<1>1. Number(p) \in Token /\ Number(score) \in Token
  BY TokenTypes
<1>2. Number(p).num = p /\ Number(score).num = score
  BY DEF Number
<1> HIDE DEF Number
<1>3. <<Number(p)>> \in Seq(Token) /\ <<Number(score)>> \in Seq(Token)
  BY <1>1
<1>4. <<Number(p)>> \o name \in Seq(Token)
      /\ Len(<<Number(p)>> \o name) = Len(name) + 1
      /\ (<<Number(p)>> \o name)[1] = Number(p)
  BY <1>3, ConcatProperties
<1> QED
  BY <1>2, <1>3, <1>4, ConcatProperties DEF LineOf

\* A save writes one line for each place; of a table without tabs, in order.
LEMMA SavedLines ==
    ASSUME NEW t, Sound(t),
           NEW f, f = LinesOf(t.names, t.scores, t.heap)
    PROVE  /\ Lines(f) /\ Len(f) = LEN
           /\ Plain(t) /\ Ordered(t.scores) => PlainLines(f)
<1>1. \A p \in Places :
        /\ p \in Nat /\ t.heap[t.names[p]] \in Seq(Token) /\ t.scores[p] \in Nat
        /\ f[p] = LineOf(p, t.heap[t.names[p]], t.scores[p])
  BY LenAssumption DEF Sound, LinesOf, Places
<1>2. ASSUME NEW p \in Places
      PROVE  /\ f[p] \in Seq(Token)
             /\ Len(f[p]) = Len(t.heap[t.names[p]]) + 2
             /\ f[p][1].num = p
             /\ Len(t.heap[t.names[p]]) = 1 => f[p][3].num = t.scores[p]
  <2> DEFINE name == t.heap[t.names[p]]
             score == t.scores[p]
  <2>1. /\ p \in Nat /\ name \in Seq(Token) /\ score \in Nat
        /\ f[p] = LineOf(p, name, score)
    BY <1>1
  <2>n. p \in Nat
    BY <2>1
  <2>m. name \in Seq(Token)
    BY <2>1
  <2>s. score \in Nat
    BY <2>1
  <2> HIDE DEF name, score
  <2>2. /\ LineOf(p, name, score) \in Seq(Token)
        /\ Len(LineOf(p, name, score)) = Len(name) + 2
        /\ LineOf(p, name, score)[1].num = p
        /\ Len(name) = 1 => LineOf(p, name, score)[3].num = score
    <3>1. LineOf(p, name, score) \in Seq(Token)
      BY <2>n, <2>m, <2>s, LineType
    <3>2. Len(LineOf(p, name, score)) = Len(name) + 2
      BY <2>n, <2>m, <2>s, LineType
    <3>3. LineOf(p, name, score)[1].num = p
      BY <2>n, <2>m, <2>s, LineType
    <3>4. Len(name) = 1 => LineOf(p, name, score)[3].num = score
      BY <2>n, <2>m, <2>s, LineType
    <3> QED
      BY <3>1, <3>2, <3>3, <3>4
  <2>3. /\ f[p] \in Seq(Token)
        /\ Len(f[p]) = Len(name) + 2
        /\ f[p][1].num = p
        /\ Len(name) = 1 => f[p][3].num = score
    BY <2>1, <2>2
  <2> QED
    BY <2>3 DEF name, score
<1>3. f \in Seq(Seq(Token)) /\ Len(f) = LEN
  <2>1. f = [p \in 1 .. LEN |-> f[p]]
    BY DEF LinesOf, Places
  <2> QED
    BY <1>2, <2>1, LenAssumption, IsASeq DEF Places
<1>4. Lines(f)
  <2>1. \A p \in Places : Len(t.heap[t.names[p]]) \in Nat
    BY <1>1, LenProperties
  <2>2. \A p \in Places : Len(f[p]) >= 2
    <3>1. ASSUME NEW p \in Places
          PROVE  Len(f[p]) >= 2
      BY <1>2, <2>1
    <3> QED
      BY <3>1
  <2> QED
    BY <1>3, <2>2 DEF Lines, Places
<1>5. ASSUME Plain(t), Ordered(t.scores)
      PROVE  PlainLines(f)
  <2>1. \A p \in Places : Len(t.heap[t.names[p]]) = 1
    BY <1>5 DEF Plain, Sound
  <2>2. \A p \in Places : f[p][3].num = t.scores[p] /\ Len(f[p]) = 3 /\ f[p][1].num = p
    <3>1. ASSUME NEW p \in Places
          PROVE  f[p][3].num = t.scores[p] /\ Len(f[p]) = 3 /\ f[p][1].num = p
      <4>1. Len(f[p]) = Len(t.heap[t.names[p]]) + 2 /\ f[p][1].num = p
        BY <1>2
      <4>2. f[p][3].num = t.scores[p]
        BY <1>2, <2>1
      <4>3. Len(t.heap[t.names[p]]) = 1
        BY <2>1
      <4> QED
        BY <4>1, <4>2, <4>3
    <3> QED
      BY <3>1
  <2>3. Ordered([p \in Places |-> f[p][3].num])
    BY <1>5, <2>2 DEF Ordered
  <2> QED
    <3>1. \A p \in Places : f[p][3].num \in Nat
      BY <1>1, <2>2
    <3> QED
      BY <1>3, <2>2, <2>3, <3>1, LenAssumption DEF PlainLines
<1> QED
  BY <1>3, <1>4, <1>5

----------------------------------------------------------------------------
(* scoreboard_load *)

\* The line that is taken for a place is one of the lines accepted for it.
LEMMA LineForFound ==
    ASSUME NEW f, Lines(f), NEW p \in Places, LineFor(p, f) # 0
    PROVE  LET i == LineFor(p, f)
           IN  i \in 1 .. Len(f) /\ i <= LEN /\ Accepted(f[i]) /\ f[i][1].num = p
<1> DEFINE found == {i \in 1 .. Len(f) :
                        i <= LEN /\ Accepted(f[i]) /\ f[i][1].num = p}
<1>1. Len(f) \in Nat
  BY LenProperties DEF Lines
<1>2. LineFor(p, f) = IF found = {} THEN 0
                      ELSE CHOOSE i \in found : \A j \in found : j <= i
  BY DEF LineFor
<1>3. found # {}
  BY <1>2
<1>4. found \in SUBSET Nat /\ \A i \in found : i <= Len(f)
  BY <1>1
<1>5. \E i \in found : \A j \in found : j <= i
  <2> HIDE DEF found
  <2> QED
    BY <1>1, <1>3, <1>4, GreatestNatural
<1>6. LineFor(p, f) \in found
  <2> HIDE DEF found
  <2> QED
    BY <1>2, <1>3, <1>5
<1> QED
  BY <1>6

\* Of a plain file, line p.
LEMMA LineForPlain ==
    ASSUME NEW f, Lines(f), PlainLines(f), NEW p \in Places
    PROVE  LineFor(p, f) = p
<1> DEFINE found == {i \in 1 .. Len(f) :
                        i <= LEN /\ Accepted(f[i]) /\ f[i][1].num = p}
<1>1. Len(f) \in Nat /\ Len(f) >= LEN
  BY LenProperties DEF Lines, PlainLines
<1>2. \A i \in Places : i \in 1 .. Len(f) /\ i <= LEN /\ i \in Nat
  BY <1>1, LenAssumption DEF Places
<1>3. \A i \in 1 .. Len(f) : i <= LEN => i \in Places
  BY <1>1, LenAssumption DEF Places
<1>4. \A i \in Places : Len(f[i]) = 3 /\ f[i][1].num = i /\ f[i][3].num >= 0
  BY DEF PlainLines
<1>5. p \in found
  BY <1>2, <1>4 DEF Accepted
<1>6. \A i \in found : i = p
  BY <1>3, <1>4
<1>7. found = {p}
  BY <1>5, <1>6
<1>8. LineFor(p, f) = CHOOSE i \in found : \A j \in found : j <= i
  BY <1>7 DEF LineFor
<1> HIDE DEF found
<1> QED
  BY <1>2, <1>7, <1>8

LEMMA LoadSound ==
    ASSUME NEW f, Lines(f)
    PROVE  /\ Sound(Load(InitTable, f))
           /\ Plain(Load(InitTable, f))
           /\ PlainLines(f) => Ordered(Load(InitTable, f).scores)
<1> DEFINE line(p) == LineFor(p, f)
           loaded == {p \in Places : line(p) # 0}
           copies == {LEN + p : p \in loaded}
           t == Load(InitTable, f)
<1>1. /\ t.names = [p \in Places |-> IF p \in loaded THEN LEN + p ELSE p]
      /\ t.scores = [p \in Places |->
                       IF p \in loaded THEN f[line(p)][3].num ELSE DefaultScore(p)]
      /\ t.heap = [a \in Places \cup copies |->
                     IF a <= LEN THEN InitTable.heap[a] ELSE <<f[line(a - LEN)][2]>>]
  BY DEF Load, InitTable
<1>2. ASSUME NEW p \in loaded
      PROVE  /\ f[line(p)][2] \in Token
             /\ f[line(p)][3].num \in Nat
  <2>1. /\ line(p) \in 1 .. Len(f) /\ Len(f[line(p)]) >= 3
        /\ f[line(p)][3].num >= 0
    BY LineForFound DEF Accepted
  <2>2. f[line(p)] \in Seq(Token)
    BY <2>1, ElementOfSeq DEF Lines
  <2>3. f[line(p)][2] \in Token /\ f[line(p)][3] \in Token
    BY <2>1, <2>2, ElementOfSeq, LenProperties
  <2> QED
    BY <2>1, <2>3 DEF Token
<1>3. loaded \subseteq Places /\ IsFiniteSet(Places)
  BY LenAssumption, FS_Interval DEF Places
<1>4. IsFiniteSet(Places \cup copies)
  <2>1. Places \cup copies \in SUBSET Nat
    BY <1>3, LenAssumption DEF Places
  <2>2. \A a \in Places \cup copies : a <= LEN + LEN
    BY <1>3, LenAssumption DEF Places
  <2>3. LEN + LEN \in Nat
    BY LenAssumption
  <2> HIDE DEF copies
  <2> QED
    BY <2>1, <2>2, <2>3, FS_BoundedSetOfNaturals
<1>5. \A a \in Places \cup copies : a <= LEN \/ (a - LEN \in loaded /\ a > LEN)
  BY <1>3, LenAssumption DEF Places
<1>6. \A a \in Places \cup copies : t.heap[a] \in Seq(Token)
  <2>1. Default \in Seq(Token)
    BY DefaultAssumption
  <2>2. ASSUME NEW a \in Places \cup copies
        PROVE  t.heap[a] \in Seq(Token)
    <3>1. CASE a <= LEN
      <4>1. a \in Places
        BY <1>3, <3>1, LenAssumption DEF Places
      <4> QED
        BY <1>1, <2>1, <3>1, <4>1 DEF InitTable
    <3>2. CASE ~ (a <= LEN)
      <4>1. f[line(a - LEN)][2] \in Token
        BY <1>2, <1>5, <3>2
      <4>2. t.heap[a] = <<f[line(a - LEN)][2]>>
        BY <1>1, <3>2
      <4> QED
        BY <4>1, <4>2
    <3> QED
      BY <3>1, <3>2
  <2> QED
    BY <2>2
<1>7. \A p \in Places :
        /\ t.names[p] \in Places \cup copies
        /\ \A q \in Places : t.names[p] = t.names[q] => p = q
  BY <1>1, <1>3, LenAssumption DEF Places
<1>8. Sound(t)
  <2>1. t.scores \in [Places -> Nat]
    BY <1>1, <1>2, DefaultType
  <2>2. DOMAIN t.heap = Places \cup copies
    BY <1>1
  <2>3. Places \cup copies \subseteq Address
    BY <1>3, LenAssumption DEF Places, Address
  <2>4. t.names \in [Places -> Address]
    BY <1>1, <1>7, <2>3
  <2> HIDE DEF t, copies
  <2> QED
    BY <1>4, <1>6, <1>7, <2>1, <2>2, <2>3, <2>4 DEF Sound
<1>9. Plain(t)
  <2>1. Len(Default) = 1
    BY DefaultAssumption
  <2>2. ASSUME NEW a \in Places \cup copies
        PROVE  Len(t.heap[a]) = 1
    <3>1. CASE a <= LEN
      <4>1. a \in Places
        BY <1>3, <3>1, LenAssumption DEF Places
      <4> QED
        BY <1>1, <2>1, <3>1, <4>1 DEF InitTable
    <3>2. CASE ~ (a <= LEN)
      <4>1. t.heap[a] = <<f[line(a - LEN)][2]>>
        BY <1>1, <3>2
      <4> QED
        BY <4>1
    <3> QED
      BY <3>1, <3>2
  <2>3. DOMAIN t.heap = Places \cup copies
    BY <1>1
  <2> HIDE DEF t, copies
  <2> QED
    BY <2>2, <2>3 DEF Plain
<1>10. ASSUME PlainLines(f)
       PROVE  Ordered(t.scores)
  <2>1. \A p \in Places : line(p) = p
    BY <1>10, LineForPlain
  <2>2. loaded = Places
    BY <2>1, LenAssumption DEF Places
  <2>3. t.scores = [p \in Places |-> f[p][3].num]
    BY <1>1, <2>1, <2>2
  <2> QED
    BY <1>10, <2>3 DEF PlainLines
<1> QED
  BY <1>8, <1>9, <1>10

----------------------------------------------------------------------------
(* scoreboard_insert *)

\* There is always an address that is not in use: one of 1 .. n + 1, if n are.
LEMMA FreshAddress ==
    ASSUME NEW hp, IsFiniteSet(DOMAIN hp)
    PROVE  Fresh(hp) \in Address \ DOMAIN hp
<1> DEFINE n == Cardinality(DOMAIN hp)
<1>1. n \in Nat
  BY FS_CardinalityType
<1>2. IsFiniteSet(1 .. n + 1) /\ Cardinality(1 .. n + 1) = n + 1
  BY <1>1, FS_Interval
<1>3. \E a \in 1 .. n + 1 : a \notin DOMAIN hp
  <2>1. SUFFICES ASSUME 1 .. n + 1 \subseteq DOMAIN hp
                 PROVE  FALSE
    OBVIOUS
  <2>2. Cardinality(1 .. n + 1) <= n
    BY <2>1, FS_Subset
  <2> QED
    BY <1>1, <1>2, <2>2
<1>4. Fresh(hp) \in 1 .. n + 1 /\ Fresh(hp) \notin DOMAIN hp
  BY <1>3 DEF Fresh
<1> QED
  BY <1>1, <1>4 DEF Address

\* The search finds the first place whose score is not greater.
LEMMA PlaceFound ==
    ASSUME NEW sc \in [Places -> Nat], NEW score \in Nat,
           ~ \A p \in Places : score < sc[p]
    PROVE  LET place == PlaceOf(sc, score)
           IN  /\ place \in Places /\ score >= sc[place]
               /\ \A q \in 1 .. place - 1 : score < sc[q]
<1> DEFINE fits == {p \in Places : score >= sc[p]}
<1>1. fits \in SUBSET Nat /\ fits # {}
  BY LenAssumption DEF Places
<1>2. PICK p \in fits : \A q \in fits : p <= q
  <2> HIDE DEF fits
  <2> QED
    BY <1>1, LeastNatural
<1>3. \A q \in 1 .. p - 1 : q \in Places /\ q \notin fits
  BY <1>2, LenAssumption DEF Places
<1>4. p \in Places /\ score >= sc[p] /\ \A q \in 1 .. p - 1 : score < sc[q]
  BY <1>3
<1> QED
  BY <1>4 DEF PlaceOf

LEMMA InsertSound ==
    ASSUME NEW t, Sound(t), NEW name \in Seq(Token), NEW score \in Nat
    PROVE  /\ Sound(Insert(t, name, score))
           /\ Plain(t) /\ Len(name) = 1 => Plain(Insert(t, name, score))
           /\ Ordered(t.scores) => Ordered(Insert(t, name, score).scores)
<1>1. CASE \A p \in Places : score < t.scores[p]
  BY <1>1 DEF Insert
<1>2. CASE ~ \A p \in Places : score < t.scores[p]
  <2> DEFINE place == PlaceOf(t.scores, score)
             left == Without(t.heap, t.names[LEN])
             new == Fresh(left)
             Shift(old, x) == [p \in Places |->
                IF p < place THEN old[p] ELSE IF p = place THEN x ELSE old[p - 1]]
             u == Insert(t, name, score)
  <2>1. /\ u.names = Shift(t.names, new)
        /\ u.scores = Shift(t.scores, score)
        /\ u.heap = With(left, new, name)
    BY <1>2 DEF Insert
  <2>2. /\ place \in Places /\ score >= t.scores[place]
        /\ \A q \in 1 .. place - 1 : score < t.scores[q]
    BY <1>2, PlaceFound DEF Sound
  <2>3. /\ DOMAIN left = DOMAIN t.heap \ {t.names[LEN]}
        /\ \A a \in DOMAIN left : left[a] = t.heap[a]
    BY DEF Without
  <2>4. IsFiniteSet(DOMAIN left)
    <3>1. IsFiniteSet(DOMAIN t.heap)
      BY DEF Sound
    <3>2. IsFiniteSet(DOMAIN t.heap \ {t.names[LEN]})
      BY <3>1, FS_RemoveElement
    <3> QED
      BY <2>3, <3>2
  <2>5. new \in Address \ DOMAIN left
    BY <2>4, FreshAddress
  <2>6. /\ DOMAIN u.heap = DOMAIN left \cup {new}
        /\ u.heap[new] = name
        /\ \A a \in DOMAIN left : u.heap[a] = t.heap[a]
    BY <2>1, <2>3, <2>5 DEF With
  <2>7. LEN \in Places /\ \A p \in Places : p > place => p - 1 \in Places /\ p - 1 # LEN
    BY <2>2, LenAssumption DEF Places
  <2>8. \A p \in Places :
           /\ p < place => u.names[p] = t.names[p] /\ u.scores[p] = t.scores[p]
           /\ p = place => u.names[p] = new /\ u.scores[p] = score
           /\ p > place => u.names[p] = t.names[p - 1] /\ u.scores[p] = t.scores[p - 1]
    BY <2>1, <2>2, LenAssumption DEF Places
  <2>9. \A p \in Places : p < place \/ p = place \/ p > place
    BY <2>2, LenAssumption DEF Places
  <2> HIDE DEF u, new, left, place
  <2>10. \A p \in Places : p # LEN => t.names[p] \in DOMAIN left
    BY <2>3, <2>7 DEF Sound
  <2>11. \A p \in Places :
            /\ p < place => u.names[p] \in DOMAIN left
            /\ p > place => u.names[p] \in DOMAIN left
    BY <2>2, <2>7, <2>8, <2>10, LenAssumption DEF Places
  <2>12. Sound(u)
    <3>1. u.names \in [Places -> Address]
      <4>1. \A p \in Places : u.names[p] \in Address
        BY <2>3, <2>5, <2>8, <2>9, <2>11 DEF Sound
      <4> QED
        BY <2>1, <4>1
    <3>2. u.scores \in [Places -> Nat]
      <4>1. \A p \in Places : u.scores[p] \in Nat
        BY <2>7, <2>8, <2>9 DEF Sound
      <4> QED
        BY <2>1, <4>1
    <3>3. IsFiniteSet(DOMAIN u.heap)
      BY <2>4, <2>6, FS_AddElement
    <3>4. DOMAIN u.heap \subseteq Address
      BY <2>3, <2>5, <2>6 DEF Sound
    <3>5. \A a \in DOMAIN u.heap : u.heap[a] \in Seq(Token)
      BY <2>3, <2>6 DEF Sound
    <3>6. \A p \in Places : u.names[p] \in DOMAIN u.heap
      BY <2>6, <2>8, <2>9, <2>11
    <3>7. ASSUME NEW p \in Places, NEW q \in Places, p < q
          PROVE  u.names[p] # u.names[q]
      <4>1. \A r, s \in Places : r < s => t.names[r] # t.names[s]
        BY LenAssumption DEF Sound, Places
      <4>2. CASE q < place
        BY <2>2, <2>8, <3>7, <4>1, <4>2, LenAssumption DEF Places
      <4>3. CASE q = place
        BY <2>2, <2>5, <2>8, <2>11, <3>7, <4>3, LenAssumption DEF Places
      <4>4. CASE q > place /\ p < place
        <5>1. q - 1 \in Places /\ p < q - 1
          BY <2>2, <2>7, <4>4, LenAssumption DEF Places
        <5> QED
          BY <2>8, <4>1, <4>4, <5>1
      <4>5. CASE q > place /\ p = place
        BY <2>5, <2>8, <2>11, <4>5
      <4>6. CASE q > place /\ p > place
        <5>1. q - 1 \in Places /\ p - 1 \in Places /\ p - 1 < q - 1
          BY <2>2, <2>7, <3>7, <4>6, LenAssumption DEF Places
        <5> QED
          BY <2>8, <4>1, <4>6, <5>1
      <4> QED
        BY <2>9, <4>2, <4>3, <4>4, <4>5, <4>6
    <3>8. \A p, q \in Places : u.names[p] = u.names[q] => p = q
      <4>1. \A p, q \in Places : p < q \/ p = q \/ q < p
        BY LenAssumption DEF Places
      <4> QED
        BY <3>7, <4>1
    <3> QED
      BY <3>1, <3>2, <3>3, <3>4, <3>5, <3>6, <3>8 DEF Sound
  <2>13. Plain(t) /\ Len(name) = 1 => Plain(u)
    BY <2>3, <2>6 DEF Plain
  <2>14. ASSUME Ordered(t.scores)
         PROVE  Ordered(u.scores)
    <3>1. \A p \in Places : t.scores[p] \in Nat /\ DefaultScore(p) \in Nat
      BY DefaultType DEF Sound
    <3>2. ASSUME NEW p \in Places
          PROVE  u.scores[p] >= t.scores[p]
      <4>1. CASE p < place
        BY <2>8, <3>1, <4>1
      <4>2. CASE p = place
        BY <2>2, <2>8, <4>2
      <4>3. CASE p > place
        <5>1. p - 1 \in Places /\ p - 1 < p
          BY <2>2, <2>7, <4>3, LenAssumption DEF Places
        <5>2. t.scores[p - 1] >= t.scores[p]
          BY <2>14, <5>1 DEF Ordered
        <5> QED
          BY <2>8, <4>3, <5>2
      <4> QED
        BY <2>9, <4>1, <4>2, <4>3
    <3>3. ASSUME NEW p \in Places, NEW q \in Places, p < q
          PROVE  u.scores[p] >= u.scores[q]
      <4>1. CASE q < place
        BY <2>2, <2>8, <2>14, <3>3, <4>1, LenAssumption DEF Ordered, Places
      <4>2. CASE q = place
        <5>1. p \in 1 .. place - 1
          BY <2>2, <3>3, <4>2, LenAssumption DEF Places
        <5>2. u.scores[p] = t.scores[p] /\ score < t.scores[p]
          BY <2>2, <2>8, <3>3, <4>2, <5>1
        <5> QED
          BY <2>8, <3>1, <4>2, <5>2
      <4>3. CASE q > place /\ p >= place
        <5>1. p = place => u.scores[p] >= t.scores[q - 1]
          <6>1. q - 1 >= place /\ q - 1 \in Places
            BY <2>2, <2>7, <4>3, LenAssumption DEF Places
          <6>2. t.scores[place] >= t.scores[q - 1]
            BY <2>2, <2>14, <3>1, <6>1, LenAssumption DEF Ordered, Places
          <6> QED
            BY <2>2, <2>8, <3>1, <6>1, <6>2
        <5>2. p > place => u.scores[p] >= t.scores[q - 1]
          <6>1. p > place => p - 1 < q - 1 /\ p - 1 \in Places /\ q - 1 \in Places
            BY <2>2, <2>7, <3>3, <4>3, LenAssumption DEF Places
          <6> QED
            BY <2>8, <2>14, <3>1, <6>1 DEF Ordered
        <5> QED
          BY <2>2, <2>8, <4>3, <5>1, <5>2, LenAssumption DEF Places
      <4>4. CASE q > place /\ p < place
        <5>1. p \in 1 .. place - 1 /\ q - 1 \in Places /\ q - 1 > p
          BY <2>2, <2>7, <3>3, <4>4, LenAssumption DEF Places
        <5> QED
          BY <2>8, <2>14, <4>4, <5>1 DEF Ordered
      <4> QED
        BY <2>2, <2>9, <4>1, <4>2, <4>3, <4>4, LenAssumption DEF Places
    <3>4. \A p \in Places : u.scores[p] >= DefaultScore(p)
      <4>1. \A p \in Places : u.scores[p] \in Nat
        BY <2>12 DEF Sound
      <4> QED
        BY <2>14, <3>1, <3>2, <4>1 DEF Ordered
    <3> QED
      BY <3>3, <3>4 DEF Ordered
  <2> QED
    BY <2>12, <2>13, <2>14 DEF u
<1> QED
  BY <1>1, <1>2

----------------------------------------------------------------------------
(* The games *)

\* Lines stay lines when older ones follow them, and the first ones count.
LEMMA LinesFollowed ==
    ASSUME NEW a, Lines(a), Len(a) = LEN, NEW b, Lines(b)
    PROVE  Lines(a \o b) /\ (PlainLines(a) => PlainLines(a \o b))
<1>1. /\ a \in Seq(Seq(Token)) /\ b \in Seq(Seq(Token))
      /\ a \o b \in Seq(Seq(Token))
      /\ Len(a) \in Nat /\ Len(b) \in Nat /\ Len(a \o b) = Len(a) + Len(b)
      /\ \A i \in 1 .. Len(a) + Len(b) :
            (a \o b)[i] = IF i <= Len(a) THEN a[i] ELSE b[i - Len(a)]
  <2>1. a \in Seq(Seq(Token)) /\ b \in Seq(Seq(Token))
    BY DEF Lines
  <2>2. Len(a) \in Nat /\ Len(b) \in Nat
    BY <2>1, LenProperties
  <2>3. a \o b \in Seq(Seq(Token)) /\ Len(a \o b) = Len(a) + Len(b)
    BY <2>1, ConcatProperties
  <2>4. \A i \in 1 .. Len(a) + Len(b) :
          (a \o b)[i] = IF i <= Len(a) THEN a[i] ELSE b[i - Len(a)]
    BY <2>1, ConcatProperties
  <2> QED
    BY <2>1, <2>2, <2>3, <2>4
<1>2. Lines(a \o b)
  <2>1. ASSUME NEW i \in 1 .. Len(a) + Len(b)
        PROVE  Len((a \o b)[i]) >= 2
    <3>1. CASE i <= Len(a)
      BY <1>1, <3>1 DEF Lines
    <3>2. CASE ~ (i <= Len(a))
      <4>1. i - Len(a) \in 1 .. Len(b)
        BY <1>1, <3>2
      <4> QED
        BY <1>1, <3>2, <4>1 DEF Lines
    <3> QED
      BY <3>1, <3>2
  <2> QED
    BY <1>1, <2>1 DEF Lines
<1>3. \A p \in Places : (a \o b)[p] = a[p]
  BY <1>1, LenAssumption DEF Places
<1>4. Len(a \o b) >= LEN
  BY <1>1, LenAssumption
<1>5. [p \in Places |-> (a \o b)[p][3].num] = [p \in Places |-> a[p][3].num]
  BY <1>3
<1> QED
  BY <1>2, <1>3, <1>4, <1>5 DEF PlainLines

LEMMA LinesEnd ==
    ASSUME NEW f, Lines(f), NEW k \in 0 .. Len(f)
    PROVE  Lines(SubSeq(f, k + 1, Len(f)))
<1>1. /\ f \in Seq(Seq(Token)) /\ Len(f) \in Nat /\ k \in Nat /\ k <= Len(f)
  BY LenProperties DEF Lines
<1> DEFINE e == SubSeq(f, k + 1, Len(f))
<1>2. /\ e \in Seq(Seq(Token)) /\ Len(e) = Len(f) - k
      /\ \A i \in 1 .. Len(f) - k : e[i] = f[k + i]
  BY <1>1
<1>3. \A i \in 1 .. Len(f) - k : k + i \in 1 .. Len(f)
  BY <1>1
<1> HIDE DEF e
<1>4. Lines(e)
  BY <1>2, <1>3 DEF Lines
<1> QED
  BY <1>4 DEF e

LEMMA LinesEmpty == Lines(Empty)
  BY DEF Lines, Empty

\* The invariant that is inductive: the tables and the file stay sound, and
\* without tabs in the names they stay plain and in order.
Counters ==
    /\ pc \in [Games -> {"idle", "play", "save"}]
    /\ linked \in [Games -> BOOLEAN]
    /\ started \in 0 .. MaxGames
    /\ known \in [Games -> Seq(Nat)] /\ fknown \in Seq(Nat) /\ ended \in Seq(Nat)
    /\ serial \in BOOLEAN /\ tabbed \in BOOLEAN

Tables ==
    /\ DOMAIN names = Games /\ DOMAIN scores = Games /\ DOMAIN heap = Games
    /\ \A g \in Games :
         /\ Sound(Table(g))
         /\ ~tabbed => Plain(Table(g)) /\ Ordered(scores[g])

File == Lines(file) /\ (~tabbed /\ file # Empty => PlainLines(file))

IInv == Counters /\ Tables /\ File

LEMMA IInvInit == Init => IInv
<1> SUFFICES ASSUME Init PROVE IInv
  OBVIOUS
<1>1. Counters
  <2>1. <<>> \in Seq(Nat)
    OBVIOUS
  <2>2. known \in [Games -> Seq(Nat)] /\ fknown \in Seq(Nat) /\ ended \in Seq(Nat)
    BY <2>1 DEF Init
  <2>3. serial \in BOOLEAN /\ tabbed \in BOOLEAN
    BY DEF Init
  <2> QED
    BY <2>2, <2>3, BoundAssumption DEF Init, Counters
<1>2. \A g \in Games : Table(g) = InitTable /\ scores[g] = InitTable.scores
  BY DEF Init, Table, InitTable
<1>3. Plain(InitTable)
  BY DefaultAssumption DEF Plain, InitTable
<1>4. DOMAIN names = Games /\ DOMAIN scores = Games /\ DOMAIN heap = Games
  BY DEF Init
<1>5. Tables
  BY <1>2, <1>3, <1>4, InitTableSound DEF Tables
<1>6. File
  BY LinesEmpty DEF Init, File
<1> QED
  BY <1>1, <1>5, <1>6 DEF IInv

\* One game's table is set to a sound one.
LEMMA TableSet ==
    ASSUME IInv, NEW g \in Games, NEW t, SetTable(g, t), Sound(t),
           ~tabbed' => ~tabbed /\ Plain(t) /\ Ordered(t.scores)
    PROVE  Tables'
<1>1. /\ DOMAIN names' = Games /\ DOMAIN scores' = Games /\ DOMAIN heap' = Games
  BY DEF IInv, Tables, SetTable
<1>2. /\ names'[g] = t.names /\ scores'[g] = t.scores /\ heap'[g] = t.heap
      /\ \A h \in Games \ {g} :
           names'[h] = names[h] /\ scores'[h] = scores[h] /\ heap'[h] = heap[h]
  BY DEF IInv, Tables, SetTable
<1>3. ASSUME NEW h \in Games
      PROVE  /\ Sound(Table(h))'
             /\ ~tabbed' => Plain(Table(h))' /\ Ordered(scores[h])'
  <2>1. CASE h = g
    <3>1. /\ Table(h)'.names = t.names /\ Table(h)'.scores = t.scores
          /\ Table(h)'.heap = t.heap
      BY <1>2, <2>1 DEF Table
    <3>2. Sound(Table(h)')
      BY <3>1 DEF Sound
    <3>3. ~tabbed' => Plain(Table(h)')
      BY <3>1 DEF Plain
    <3> QED
      BY <1>2, <2>1, <3>2, <3>3
  <2>2. CASE h # g
    <3>1. Table(h)' = Table(h) /\ scores'[h] = scores[h]
      BY <1>2, <2>2 DEF Table
    <3> QED
      BY <3>1 DEF IInv, Tables
  <2> QED
    BY <2>1, <2>2
<1> QED
  BY <1>1, <1>3 DEF Tables

\* The tables stay as they are.
LEMMA TablesKept ==
    ASSUME IInv, UNCHANGED table, ~tabbed' => ~tabbed
    PROVE  Tables'
<1>1. \A h \in Games : Table(h)' = Table(h) /\ scores'[h] = scores[h]
  BY DEF table, Table
<1>2. /\ DOMAIN names' = Games /\ DOMAIN scores' = Games /\ DOMAIN heap' = Games
  BY DEF IInv, Tables, table
<1> QED
  BY <1>1, <1>2 DEF IInv, Tables

LEMMA InitTablePlain == Sound(InitTable) /\ Plain(InitTable) /\ Ordered(InitTable.scores)
  BY InitTableSound, DefaultAssumption DEF Plain, InitTable

\* A process that ends leaves the tables in their first state.
LEMMA ExitTables ==
    ASSUME IInv, NEW g \in Games, Exit(g), ~tabbed' => ~tabbed
    PROVE  Tables'
  BY InitTablePlain, TableSet DEF Exit

LEMMA NamesType == \A name \in Names \cup {Default} : name \in Seq(Token)
  BY NamesAssumption, DefaultAssumption

LEMMA IInvStart ==
    ASSUME IInv, NEW g \in Games, Start(g)
    PROVE  IInv'
<1>1. Counters'
  BY BoundAssumption DEF IInv, Counters, Start
<1>2. Lines(file)
  BY DEF IInv, File
<1>3. ~tabbed => Ordered(Load(InitTable, file).scores)
  <2>1. CASE file = Empty
    <3>1. \A p \in Places : LineFor(p, file) = 0
      BY <2>1 DEF LineFor, Empty
    <3>2. Load(InitTable, file).scores = [p \in Places |-> InitTable.scores[p]]
      BY <3>1 DEF Load
    <3>3. Load(InitTable, file).scores = InitTable.scores
      BY <3>2 DEF InitTable
    <3> QED
      BY <3>3, InitTableSound
  <2>2. CASE file # Empty
    BY <1>2, <2>2, LoadSound DEF IInv, File
  <2> QED
    BY <2>1, <2>2
<1>4. Tables'
  <2>1. Sound(Load(InitTable, file)) /\ Plain(Load(InitTable, file))
    BY <1>2, LoadSound
  <2>2. SetTable(g, Load(InitTable, file)) /\ tabbed' = tabbed
    BY DEF Start
  <2> QED
    BY <1>3, <2>1, <2>2, TableSet
<1>5. File'
  BY DEF IInv, File, Start, Lines, PlainLines
<1> QED
  BY <1>1, <1>4, <1>5 DEF IInv

LEMMA IInvFinish ==
    ASSUME IInv, NEW g \in Games,
           NEW name \in Names \cup {Default}, NEW score \in Results,
           Finish(g, name, score)
    PROVE  IInv'
<1>1. name \in Seq(Token) /\ score \in Nat
  BY NamesType, ResultsAssumption
<1>2. Counters'
  BY <1>1 DEF IInv, Counters, Finish, Note
<1>3. Tables'
  <2>1. Sound(Table(g)) /\ (~tabbed => Plain(Table(g)) /\ Ordered(Table(g).scores))
    BY DEF IInv, Tables, Table
  <2>2. ~tabbed' => ~tabbed /\ Len(name) = 1
    BY DEF Finish, Note
  <2>3. SetTable(g, Insert(Table(g), name, score))
    BY DEF Finish
  <2>4. /\ Sound(Insert(Table(g), name, score))
        /\ ~tabbed' => /\ Plain(Insert(Table(g), name, score))
                       /\ Ordered(Insert(Table(g), name, score).scores)
    BY <1>1, <2>1, <2>2, InsertSound
  <2> QED
    BY <2>2, <2>3, <2>4, TableSet
<1>4. File'
  BY LinesEmpty DEF File, Finish
<1> QED
  BY <1>2, <1>3, <1>4 DEF IInv

LEMMA IInvSaveFails ==
    ASSUME IInv, NEW g \in Games,
           NEW name \in Names \cup {Default}, NEW score \in Results,
           SaveFails(g, name, score)
    PROVE  IInv'
<1>1. score \in Nat
  BY ResultsAssumption
<1>2. Counters'
  <2>1. ended' \in Seq(Nat)
    BY <1>1 DEF IInv, Counters, SaveFails, Note
  <2>2. known' \in [Games -> Seq(Nat)]
    BY DEF IInv, Counters, SaveFails, Exit
  <2>3. serial' \in BOOLEAN /\ tabbed' \in BOOLEAN
    BY DEF IInv, Counters, SaveFails, Note
  <2> QED
    BY <2>1, <2>2, <2>3 DEF IInv, Counters, SaveFails, Exit
<1>3. ~tabbed' => ~tabbed
  BY DEF SaveFails, Note
<1>4. Tables'
  BY <1>3, ExitTables DEF SaveFails
<1>5. File'
  BY <1>3 DEF IInv, File, SaveFails, Lines, PlainLines
<1> QED
  BY <1>2, <1>4, <1>5 DEF IInv

LEMMA IInvWrite ==
    ASSUME IInv, NEW g \in Games, Write(g)
    PROVE  IInv'
<1>1. Counters'
  <2>1. known' \in [Games -> Seq(Nat)] /\ fknown' \in Seq(Nat) /\ ended' \in Seq(Nat)
    <3>1. fknown' = known[g] \/ fknown' = fknown
      BY DEF Write
    <3>2. known' \in [Games -> Seq(Nat)]
      BY DEF IInv, Counters, Write, Exit
    <3>3. ended' = ended
      BY DEF Write
    <3> QED
      BY <3>1, <3>2, <3>3 DEF IInv, Counters
  <2>2. serial' \in BOOLEAN /\ tabbed' \in BOOLEAN
    BY DEF IInv, Counters, Write
  <2> QED
    BY <2>1, <2>2 DEF IInv, Counters, Write, Exit
<1>2. tabbed' = tabbed
  BY DEF Write
<1>3. Tables'
  BY <1>2, ExitTables DEF Write
<1>4. File'
  <2>1. CASE linked[g]
    <3> DEFINE f == LinesOf(names[g], scores[g], heap[g])
               t == Table(g)
    <3>1. PICK k \in 0 .. Len(file) : file' = f \o SubSeq(file, k + 1, Len(file))
      BY <2>1 DEF Write
    <3>2. f = LinesOf(t.names, t.scores, t.heap) /\ t.scores = scores[g]
      BY DEF Table
    <3>3. Sound(t) /\ (~tabbed => Plain(t) /\ Ordered(t.scores))
      BY DEF IInv, Tables, Table
    <3> HIDE DEF f, t
    <3>4. Lines(f) /\ Len(f) = LEN /\ (~tabbed => PlainLines(f))
      BY <3>2, <3>3, SavedLines
    <3>5. Lines(SubSeq(file, k + 1, Len(file)))
      BY LinesEnd DEF IInv, File
    <3>6. Lines(file') /\ (~tabbed => PlainLines(file'))
      BY <3>1, <3>4, <3>5, LinesFollowed
    <3> QED
      BY <1>2, <3>6 DEF File
  <2>2. CASE ~linked[g]
    BY <1>2, <2>2 DEF IInv, File, Write, Lines, PlainLines
  <2> QED
    BY <2>1, <2>2
<1> QED
  BY <1>1, <1>3, <1>4 DEF IInv

LEMMA IInvKill ==
    ASSUME IInv, NEW g \in Games, Kill(g)
    PROVE  IInv'
<1>1. Counters'
  BY DEF IInv, Counters, Kill, Exit
<1>2. tabbed' = tabbed
  BY DEF Kill
<1>3. Tables'
  BY <1>2, ExitTables DEF Kill
<1>4. File'
  BY DEF IInv, File, Kill, Lines, PlainLines
<1> QED
  BY <1>1, <1>3, <1>4 DEF IInv

LEMMA IInvRemove == ASSUME IInv, Remove PROVE IInv'
<1>1. Counters'
  <2>1. <<>> \in Seq(Nat)
    OBVIOUS
  <2> QED
    BY <2>1 DEF IInv, Counters, Remove
<1>2. Tables'
  BY TablesKept DEF Remove
<1>3. File'
  BY LinesEmpty DEF File, Remove
<1> QED
  BY <1>1, <1>2, <1>3 DEF IInv

LEMMA IInvUnchanged == ASSUME IInv, UNCHANGED vars PROVE IInv'
<1>1. Tables'
  BY TablesKept DEF vars, history
<1> QED
  BY <1>1 DEF IInv, Counters, File, Lines, PlainLines, vars, history

LEMMA IInvSpec == Spec => []IInv
<1>1. IInv /\ [Next]_vars => IInv'
  <2> SUFFICES ASSUME IInv, [Next]_vars PROVE IInv'
    OBVIOUS
  <2>1. ASSUME NEW g \in Games, Game(g) PROVE IInv'
    BY <2>1, IInvStart, IInvFinish, IInvSaveFails, IInvWrite, IInvKill DEF Game
  <2> QED
    BY <2>1, IInvRemove, IInvUnchanged DEF Next
<1> QED
  BY <1>1, IInvInit, PTL DEF Spec

----------------------------------------------------------------------------
(* What a table is the best of *)

AtLeast(sc, s) == {p \in Places : sc[p] >= s}
DefaultsFrom(s) == {p \in Places : DefaultScore(p) >= s}
Among(results, s) == {i \in 1 .. Len(results) : results[i] >= s}

\* BestOf for any score: with BestOf it is inductive.
BestFrom(sc, results, s) ==
    LET better == Cardinality(DefaultsFrom(s)) + Cardinality(Among(results, s))
    IN  Cardinality(AtLeast(sc, s)) = IF better < LEN THEN better ELSE LEN

LEMMA BestOfIs ==
    ASSUME NEW sc, NEW results
    PROVE  BestOf(sc, results) <=>
             \A s \in Results \cup {DefaultScore(p) : p \in Places} : BestFrom(sc, results, s)
  BY DEF BestOf, BestFrom, AtLeast, DefaultsFrom, Among

LEMMA ScoresAreNatural ==
    \A s \in Results \cup {DefaultScore(p) : p \in Places} : s \in Nat
<1>1. ASSUME NEW p \in Places
      PROVE  DefaultScore(p) \in Nat
  BY LenAssumption DEF Places, DefaultScore
<1> QED
  BY <1>1, ResultsAssumption

\* In a table in order, the scores that are high enough stand at the top.
LEMMA OnTop ==
    ASSUME NEW sc \in [Places -> Nat], Ordered(sc), NEW s \in Nat
    PROVE  /\ Cardinality(AtLeast(sc, s)) \in 0 .. LEN
           /\ AtLeast(sc, s) = 1 .. Cardinality(AtLeast(sc, s))
<1> DEFINE S == AtLeast(sc, s)
<1>1. S \in SUBSET Nat /\ LEN \in Nat /\ \A p \in S : p \in Nat /\ 1 <= p /\ p <= LEN
  BY LenAssumption DEF AtLeast, Places
<1>2. CASE S = {}
  <2>1. Cardinality(S) = 0
    BY <1>2, FS_EmptySet
  <2> QED
    BY <1>1, <1>2, <2>1
<1>3. CASE S # {}
  <2>1. PICK m \in S : \A p \in S : p <= m
    <3> HIDE DEF S
    <3> QED
      BY <1>1, <1>3, GreatestNatural
  <2>2. m \in 1 .. LEN /\ sc[m] >= s
    BY <1>1 DEF AtLeast
  <2>3. ASSUME NEW p \in 1 .. m
        PROVE  p \in S
    <3>1. p \in Places /\ m \in Places
      BY <2>2, LenAssumption DEF Places
    <3>2. p = m \/ sc[p] >= sc[m]
      BY <2>2, <3>1 DEF Ordered
    <3>3. sc[p] \in Nat /\ sc[m] \in Nat
      BY <3>1
    <3> QED
      BY <2>2, <3>1, <3>2, <3>3 DEF AtLeast
  <2> HIDE DEF S
  <2>4. S = 1 .. m
    <3>1. \A p \in S : p \in 1 .. m
      BY <1>1, <2>1, <2>2
    <3> QED
      BY <2>3, <3>1
  <2>5. Cardinality(S) = m
    BY <2>2, <2>4, FS_Interval
  <2> QED
    BY <2>2, <2>4, <2>5 DEF S
<1> QED
  BY <1>2, <1>3

\* The first scores are the best of nothing.
LEMMA BestAtFirst ==
    ASSUME NEW s \in Nat
    PROVE  BestFrom(InitTable.scores, <<>>, s)
<1>1. /\ InitTable.scores \in [Places -> Nat] /\ Ordered(InitTable.scores)
      /\ \A p \in Places : InitTable.scores[p] = DefaultScore(p)
  BY InitTableSound DEF InitTable, Sound
<1>2. AtLeast(InitTable.scores, s) = DefaultsFrom(s)
  BY <1>1 DEF AtLeast, DefaultsFrom
<1>3. Cardinality(DefaultsFrom(s)) \in 0 .. LEN
  BY <1>1, <1>2, OnTop
<1>4. Among(<<>>, s) = {}
  BY DEF Among
<1>5. Cardinality(Among(<<>>, s)) = 0
  BY <1>4, FS_EmptySet
<1> QED
  BY <1>2, <1>3, <1>5, LenAssumption DEF BestFrom

\* A result more that is high enough, or not.
LEMMA OneMore ==
    ASSUME NEW results \in Seq(Nat), NEW score \in Nat, NEW s \in Nat
    PROVE  /\ Cardinality(Among(results, s)) \in Nat
           /\ Cardinality(Among(Append(results, score), s)) =
                Cardinality(Among(results, s)) + (IF score >= s THEN 1 ELSE 0)
<1> DEFINE n == Len(results)
           A == Among(results, s)
           B == Among(Append(results, score), s)
<1>1. /\ n \in Nat /\ Len(Append(results, score)) = n + 1
      /\ \A i \in 1 .. n : Append(results, score)[i] = results[i]
      /\ Append(results, score)[n + 1] = score
  BY AppendProperties, LenProperties
<1>2. A \subseteq 1 .. n /\ n + 1 \notin A /\ IsFiniteSet(1 .. n)
  BY <1>1, FS_Interval DEF Among
<1>3. IsFiniteSet(A) /\ Cardinality(A) \in Nat
  BY <1>2, FS_Subset, FS_CardinalityType
<1>4. B = A \cup (IF score >= s THEN {n + 1} ELSE {})
  <2>1. \A i \in 1 .. n + 1 : i = n + 1 \/ i \in 1 .. n
    BY <1>1
  <2>2. \A i : i \in B <=> i \in 1 .. n + 1 /\ Append(results, score)[i] >= s
    BY <1>1 DEF Among
  <2>3. \A i : i \in A <=> i \in 1 .. n /\ results[i] >= s
    BY DEF Among
  <2> HIDE DEF A, B
  <2>4. \A i : i \in B <=> i \in A \/ (i = n + 1 /\ score >= s)
    BY <1>1, <2>1, <2>2, <2>3
  <2> QED
    BY <2>4
<1>5. CASE score >= s
  BY <1>2, <1>3, <1>4, <1>5, FS_AddElement
<1>6. CASE ~ (score >= s)
  BY <1>3, <1>4, <1>6
<1> QED
  BY <1>3, <1>5, <1>6

\* scoreboard_insert keeps the best.
LEMMA InsertBest ==
    ASSUME NEW t, Sound(t), Ordered(t.scores), NEW name \in Seq(Token),
           NEW score \in Nat, NEW results \in Seq(Nat), NEW s \in Nat,
           BestFrom(t.scores, results, s)
    PROVE  BestFrom(Insert(t, name, score).scores, Append(results, score), s)
<1> DEFINE sc == t.scores
           new == Insert(t, name, score).scores
           c == Cardinality(AtLeast(sc, s))
           d == Cardinality(AtLeast(new, s))
           D == Cardinality(DefaultsFrom(s))
           R == Cardinality(Among(results, s))
<1>1. sc \in [Places -> Nat] /\ c \in 0 .. LEN /\ AtLeast(sc, s) = 1 .. c
  BY OnTop DEF Sound
<1>2. new \in [Places -> Nat] /\ d \in 0 .. LEN /\ AtLeast(new, s) = 1 .. d
  BY InsertSound, OnTop DEF Sound
<1>3. D \in Nat /\ R \in Nat
  <2>1. IsFiniteSet(Places)
    BY LenAssumption, FS_Interval DEF Places
  <2> QED
    BY <2>1, FS_Subset, FS_CardinalityType, OneMore DEF DefaultsFrom
<1>4. Cardinality(Among(Append(results, score), s)) = R + (IF score >= s THEN 1 ELSE 0)
  BY OneMore
<1>5. c = IF D + R < LEN THEN D + R ELSE LEN
  BY DEF BestFrom
<1>6. d = IF score >= s THEN IF c < LEN THEN c + 1 ELSE LEN ELSE c
  <2>1. CASE \A p \in Places : score < sc[p]
    <3>1. new = sc
      BY <2>1 DEF Insert
    <3>2. score >= s => LEN \in AtLeast(sc, s)
      <4>1. LEN \in Places
        BY LenAssumption DEF Places
      <4>2. sc[LEN] \in Nat /\ score < sc[LEN]
        BY <1>1, <2>1, <4>1
      <4> QED
        BY <4>1, <4>2 DEF AtLeast
    <3>3. score >= s => c = LEN
      BY <1>1, <3>2, LenAssumption
    <3> QED
      BY <3>1, <3>3, LenAssumption, <1>1
  <2>2. CASE ~ \A p \in Places : score < sc[p]
    <3> DEFINE place == PlaceOf(sc, score)
    <3>1. place \in Places /\ score >= sc[place] /\ \A q \in 1 .. place - 1 : score < sc[q]
      BY <1>1, <2>2, PlaceFound
    <3>2. new = [p \in Places |->
                    IF p < place THEN sc[p] ELSE IF p = place THEN score ELSE sc[p - 1]]
      BY <2>2 DEF Insert
    <3>3. \A p \in Places : p \in 1 .. c <=> sc[p] >= s
      BY <1>1 DEF AtLeast
    <3>4. \A p \in Places : p \in 1 .. d <=> new[p] >= s
      BY <1>2 DEF AtLeast
    <3>5. \A p, q \in Places : p < q => sc[p] >= sc[q]
      BY DEF Ordered
    <3> HIDE DEF sc, new, c, d, place
    <3>6. CASE score >= s
      <4>1. \A p \in Places : p < place => sc[p] >= s
        BY <1>1, <3>1, <3>6, LenAssumption DEF Places
      <4>2. place <= c + 1
        <5>1. CASE place = 1
          BY <5>1, <1>1
        <5>2. CASE place # 1
          <6>1. place - 1 \in Places /\ place - 1 < place
            BY <3>1, <5>2, LenAssumption DEF Places
          <6>2. place - 1 \in 1 .. c
            BY <3>3, <4>1, <6>1
          <6> QED
            BY <3>1, <6>2, <1>1, LenAssumption DEF Places
        <5> QED
          BY <5>1, <5>2
      <4>3. \A p \in Places : new[p] >= s <=> p <= c + 1
        <5> TAKE p \in Places
        <5>1. CASE p < place
          BY <3>1, <3>2, <4>1, <4>2, <5>1, <1>1, LenAssumption DEF Places
        <5>2. CASE p = place
          <6>1. new[p] = score
            BY <3>2, <5>2
          <6> QED
            BY <3>6, <4>2, <5>2, <6>1
        <5>3. CASE p > place
          <6>1. p - 1 \in Places /\ new[p] = sc[p - 1]
            BY <3>1, <3>2, <5>3, LenAssumption DEF Places
          <6>2. sc[p - 1] >= s <=> p - 1 \in 1 .. c
            BY <3>3, <6>1
          <6> QED
            BY <6>1, <6>2, <1>1, LenAssumption DEF Places
        <5> QED
          BY <3>1, <5>1, <5>2, <5>3, LenAssumption DEF Places
      <4>4. \A p \in Places : p <= d <=> p <= c + 1
        BY <3>4, <4>3, <1>2, LenAssumption DEF Places
      <4>5. CASE c < LEN
        <5>1. c + 1 \in Places /\ (d < LEN => d + 1 \in Places)
          BY <1>1, <1>2, <4>5, LenAssumption DEF Places
        <5>2. c + 1 <= d
          BY <1>1, <4>4, <5>1
        <5>3. d <= c + 1
          <6>1. d \in Places
            BY <1>1, <1>2, <5>2, LenAssumption DEF Places
          <6> QED
            BY <1>2, <4>4, <6>1
        <5> QED
          BY <1>1, <1>2, <3>6, <4>5, <5>2, <5>3, LenAssumption
      <4>6. CASE ~ (c < LEN)
        <5>1. LEN \in Places
          BY LenAssumption DEF Places
        <5> QED
          BY <1>1, <1>2, <3>6, <4>4, <4>6, <5>1, LenAssumption
      <4> QED
        BY <4>5, <4>6
    <3>7. CASE ~ (score >= s)
      <4>1. \A p \in Places : new[p] >= s <=> sc[p] >= s
        <5> TAKE p \in Places
        <5>1. CASE p < place
          BY <3>2, <5>1
        <5>2. CASE p >= place
          <6>1. sc[place] < s /\ ~ (sc[p] >= s)
            <7>1. p = place \/ sc[place] >= sc[p]
              BY <3>1, <3>5, <5>2, LenAssumption DEF Places
            <7>2. sc[place] \in Nat /\ sc[p] \in Nat
              BY <1>1, <3>1
            <7> QED
              BY <3>1, <3>7, <7>1, <7>2
          <6>2. CASE p = place
            BY <3>2, <3>7, <6>1, <6>2
          <6>3. CASE p # place
            <7>1. p - 1 \in Places /\ new[p] = sc[p - 1]
              BY <3>1, <3>2, <5>2, <6>3, LenAssumption DEF Places
            <7>2. p - 1 = place \/ sc[place] >= sc[p - 1]
              BY <3>1, <3>5, <5>2, <6>3, <7>1, LenAssumption DEF Places
            <7>3. sc[place] \in Nat /\ sc[p - 1] \in Nat
              BY <1>1, <3>1, <7>1
            <7> QED
              BY <6>1, <7>1, <7>2, <7>3
          <6> QED
            BY <6>2, <6>3
        <5> QED
          BY <3>1, <5>1, <5>2, LenAssumption DEF Places
      <4>2. \A p \in Places : p <= d <=> p <= c
        BY <3>3, <3>4, <4>1, <1>1, <1>2, LenAssumption DEF Places
      <4>3. (c < LEN => c + 1 \in Places) /\ (d < LEN => d + 1 \in Places)
        BY <1>1, <1>2, LenAssumption DEF Places
      <4>4. (c > 0 => c \in Places) /\ (d > 0 => d \in Places)
        BY <1>1, <1>2, LenAssumption DEF Places
      <4> QED
        BY <1>1, <1>2, <3>7, <4>2, <4>3, <4>4, LenAssumption
    <3> QED
      BY <3>6, <3>7
  <2> QED
    BY <2>1, <2>2
<1> HIDE DEF c, d, D, R
<1>7. d = IF D + (R + (IF score >= s THEN 1 ELSE 0)) < LEN
          THEN D + (R + (IF score >= s THEN 1 ELSE 0)) ELSE LEN
  BY <1>3, <1>5, <1>6, LenAssumption
<1> QED
  BY <1>4, <1>7 DEF BestFrom, d, D, R

\* scoreboard_load of a file that scoreboard_save has written gives its table.
LEMMA LoadedScores ==
    ASSUME Lines(file), file # Empty => PlainLines(file)
    PROVE  Load(InitTable, file).scores =
             IF file = Empty THEN InitTable.scores ELSE Saved
<1>1. CASE file = Empty
  <2>1. \A p \in Places : LineFor(p, file) = 0
    BY <1>1 DEF LineFor, Empty
  <2>2. Load(InitTable, file).scores = [p \in Places |-> InitTable.scores[p]]
    BY <2>1 DEF Load
  <2>3. InitTable.scores = [p \in Places |-> InitTable.scores[p]]
    BY DEF InitTable
  <2> QED
    BY <1>1, <2>2, <2>3
<1>2. CASE file # Empty
  <2>1. \A p \in Places : LineFor(p, file) = p /\ p # 0
    BY <1>2, LineForPlain, LenAssumption DEF Places
  <2>2. Load(InitTable, file).scores = [p \in Places |-> file[p][3].num]
    BY <2>1 DEF Load
  <2> QED
    BY <1>2, <2>2 DEF Saved
<1> QED
  BY <1>1, <1>2

\* What scoreboard_save writes are the scores of the table.
LEMMA SavedScores ==
    ASSUME NEW t, Sound(t), Plain(t), NEW f, f = LinesOf(t.names, t.scores, t.heap)
    PROVE  \A p \in Places : f[p][3].num = t.scores[p]
<1>1. ASSUME NEW p \in Places
      PROVE  f[p][3].num = t.scores[p]
  <2> DEFINE name == t.heap[t.names[p]]
             score == t.scores[p]
  <2>1. p \in Nat
    BY LenAssumption DEF Places
  <2>2. name \in Seq(Token)
    BY DEF Sound
  <2>3. Len(name) = 1
    BY DEF Sound, Plain
  <2>4. score \in Nat
    BY DEF Sound
  <2>5. f[p] = LineOf(p, name, score)
    BY DEF LinesOf
  <2> HIDE DEF name, score
  <2>6. Len(name) = 1 => LineOf(p, name, score)[3].num = score
    BY <2>1, <2>2, <2>4, LineType
  <2>7. f[p][3].num = score
    BY <2>3, <2>5, <2>6
  <2> QED
    BY <2>7 DEF score
<1> QED
  BY <1>1

\* The invariant: a file that is empty holds no result, and tables and file are
\* the best of what they were computed from, whatever score one looks for.
Best(sc, results) == \A s \in Nat : BestFrom(sc, results, s)

Computed ==
    /\ file = Empty => fknown = <<>>
    /\ ~tabbed => /\ \A g \in Games : pc[g] # "idle" => Best(scores[g], known[g])
                  /\ file # Empty => Best(Saved, fknown)

LEMMA ComputedStart ==
    ASSUME IInv, Computed, NEW g \in Games, Start(g)
    PROVE  Computed'
<1>1. UNCHANGED <<file, fknown, tabbed>> /\ Saved' = Saved
  BY DEF Start, Saved
<1>2. /\ pc' = [pc EXCEPT ![g] = "play"] /\ known' = [known EXCEPT ![g] = fknown]
      /\ scores' = [scores EXCEPT ![g] = Load(InitTable, file).scores]
  BY DEF Start, SetTable
<1>3. pc \in [Games -> {"idle", "play", "save"}] /\ DOMAIN known = Games /\ DOMAIN scores = Games
  BY DEF IInv, Counters, Tables
<1>4. ~tabbed => Best(Load(InitTable, file).scores, fknown)
  <2>1. Lines(file) /\ (~tabbed => (file # Empty => PlainLines(file)))
    BY DEF IInv, File
  <2>2. Best(InitTable.scores, <<>>)
    BY BestAtFirst DEF Best
  <2>3. ~tabbed => Load(InitTable, file).scores =
                     IF file = Empty THEN InitTable.scores ELSE Saved
    BY <2>1, LoadedScores
  <2> QED
    BY <2>2, <2>3 DEF Computed
<1>5. ASSUME NEW h \in Games, pc'[h] # "idle", ~tabbed
      PROVE  Best(scores'[h], known'[h])
  <2>1. CASE h = g
    BY <1>2, <1>3, <1>4, <1>5, <2>1
  <2>2. CASE h # g
    BY <1>2, <1>3, <1>5, <2>2 DEF Computed
  <2> QED
    BY <2>1, <2>2
<1> QED
  BY <1>1, <1>5 DEF Computed

LEMMA ComputedFinish ==
    ASSUME IInv, Computed, NEW g \in Games,
           NEW name \in Names \cup {Default}, NEW score \in Results,
           Finish(g, name, score)
    PROVE  Computed'
<1>1. file' = Empty /\ fknown' = <<>> /\ (~tabbed' => ~tabbed)
  BY DEF Finish, Note
<1>2. /\ pc' = [pc EXCEPT ![g] = "save"] /\ known' = [known EXCEPT ![g] = Append(@, score)]
      /\ scores' = [scores EXCEPT ![g] = Insert(Table(g), name, score).scores]
      /\ pc[g] = "play"
  BY DEF Finish, SetTable
<1>3. /\ pc \in [Games -> {"idle", "play", "save"}] /\ known \in [Games -> Seq(Nat)] /\ DOMAIN scores = Games
      /\ name \in Seq(Token) /\ score \in Nat
  BY NamesType, ResultsAssumption DEF IInv, Counters, Tables
<1>4. ~tabbed => Best(Insert(Table(g), name, score).scores, Append(known[g], score))
  <2>1. Sound(Table(g)) /\ Table(g).scores = scores[g]
    BY DEF IInv, Tables, Table
  <2>2. ~tabbed => Ordered(Table(g).scores) /\ Best(Table(g).scores, known[g])
    BY <1>2, <2>1 DEF IInv, Tables, Computed
  <2>3. known[g] \in Seq(Nat)
    BY <1>3
  <2> QED
    BY <1>3, <2>1, <2>2, <2>3, InsertBest DEF Best
<1>5. ASSUME NEW h \in Games, pc'[h] # "idle", ~tabbed
      PROVE  Best(scores'[h], known'[h])
  <2>1. CASE h = g
    BY <1>2, <1>3, <1>4, <1>5, <2>1
  <2>2. CASE h # g
    BY <1>2, <1>3, <1>5, <2>2 DEF Computed
  <2> QED
    BY <2>1, <2>2
<1> QED
  BY <1>1, <1>5 DEF Computed

\* A game that exits asks nothing more of its table.
LEMMA ComputedExit ==
    ASSUME IInv, Computed, NEW g \in Games, Exit(g), ~tabbed' => ~tabbed
    PROVE  ~tabbed' => \A h \in Games : pc'[h] # "idle" => Best(scores'[h], known'[h])
<1>1. /\ pc' = [pc EXCEPT ![g] = "idle"] /\ known' = [known EXCEPT ![g] = <<>>]
      /\ scores' = [scores EXCEPT ![g] = InitTable.scores]
  BY DEF Exit, SetTable
<1>2. pc \in [Games -> {"idle", "play", "save"}] /\ DOMAIN known = Games /\ DOMAIN scores = Games
  BY DEF IInv, Counters, Tables
<1>3. ASSUME NEW h \in Games, pc'[h] # "idle"
      PROVE  h # g /\ pc'[h] = pc[h] /\ scores'[h] = scores[h] /\ known'[h] = known[h]
  BY <1>1, <1>2, <1>3
<1> QED
  BY <1>3 DEF Computed

LEMMA ComputedWrite ==
    ASSUME IInv, Computed, NEW g \in Games, Write(g)
    PROVE  Computed'
<1>1. tabbed' = tabbed /\ pc[g] = "save"
  BY DEF Write
<1>2. ~tabbed' => \A h \in Games : pc'[h] # "idle" => Best(scores'[h], known'[h])
  BY <1>1, ComputedExit DEF Write
<1>3. CASE linked[g]
  <2> DEFINE t == Table(g)
             f == LinesOf(t.names, t.scores, t.heap)
  <2>1. PICK k \in 0 .. Len(file) : file' = f \o SubSeq(file, k + 1, Len(file))
    BY <1>3 DEF Write, Table
  <2>2. t.scores = scores[g] /\ Sound(t) /\ (~tabbed => Plain(t)) /\ fknown' = known[g]
    BY <1>3 DEF IInv, Tables, Table, Write
  <2> DEFINE b == SubSeq(file, k + 1, Len(file))
  <2>3. Lines(b)
    BY LinesEnd DEF IInv, File
  <2> HIDE DEF t, b
  <2>4. f = LinesOf(t.names, t.scores, t.heap) /\ file' = f \o b
    BY <2>1 DEF b
  <2> HIDE DEF f
  <2>5. file' # Empty /\ \A p \in Places : file'[p] = f[p]
    <3>1. Lines(f) /\ Len(f) = LEN
      BY <2>2, <2>4, SavedLines
    <3>2. f \in Seq(Seq(Token)) /\ b \in Seq(Seq(Token)) /\ Len(b) \in Nat
      BY <2>3, <3>1, LenProperties DEF Lines
    <3>3. /\ Len(f \o b) = LEN + Len(b)
          /\ \A p \in 1 .. LEN + Len(b) :
                (f \o b)[p] = IF p <= LEN THEN f[p] ELSE b[p - LEN]
      BY <3>1, <3>2, ConcatProperties
    <3> QED
      BY <2>4, <3>2, <3>3, LenAssumption DEF Empty, Places
  <2>6. ~tabbed => Saved' = scores[g]
    <3>1. ASSUME ~tabbed
          PROVE  \A p \in Places : file'[p][3].num = t.scores[p]
      <4>1. Sound(t) /\ Plain(t) /\ f = LinesOf(t.names, t.scores, t.heap)
        BY <2>2, <2>4, <3>1
      <4>2. \A p \in Places : f[p][3].num = t.scores[p]
        BY <4>1, SavedScores
      <4> QED
        BY <2>5, <4>2
    <3>2. t.scores = [p \in Places |-> t.scores[p]]
      BY <2>2 DEF Sound
    <3> QED
      BY <2>2, <3>1, <3>2 DEF Saved
  <2> QED
    BY <1>1, <1>2, <2>2, <2>5, <2>6 DEF Computed
<1>4. CASE ~linked[g]
  <2>1. UNCHANGED <<file, fknown>> /\ Saved' = Saved
    BY <1>4 DEF Write, Saved
  <2> QED
    BY <1>1, <1>2, <2>1 DEF Computed
<1> QED
  BY <1>3, <1>4

LEMMA ComputedEnd ==
    ASSUME IInv, Computed, NEW g \in Games, Exit(g), UNCHANGED <<file, fknown>>,
           ~tabbed' => ~tabbed
    PROVE  Computed'
<1>1. Saved' = Saved
  BY DEF Saved
<1> QED
  BY <1>1, ComputedExit DEF Computed

LEMMA ComputedRemove == ASSUME IInv, Computed, Remove PROVE Computed'
  BY DEF Computed, Remove, table

LEMMA ComputedSpec == Spec => []Computed
<1>1. Init => Computed
  BY DEF Init, Computed
<1>2. IInv /\ Computed /\ [Next]_vars => Computed'
  <2> SUFFICES ASSUME IInv, Computed, [Next]_vars PROVE Computed'
    OBVIOUS
  <2>1. ASSUME NEW g \in Games, Game(g) PROVE Computed'
    <3>1. CASE Start(g)
      BY <3>1, ComputedStart
    <3>2. ASSUME NEW name \in Names \cup {Default}, NEW score \in Results,
                 Finish(g, name, score) \/ SaveFails(g, name, score)
          PROVE  Computed'
      BY <3>2, ComputedFinish, ComputedEnd DEF SaveFails, Note
    <3>3. CASE Write(g)
      BY <3>3, ComputedWrite
    <3>4. CASE Kill(g)
      BY <3>4, ComputedEnd DEF Kill
    <3> QED
      BY <2>1, <3>1, <3>2, <3>3, <3>4 DEF Game
  <2>2. CASE UNCHANGED vars
    BY <2>2 DEF Computed, Saved, vars, table, history
  <2> QED
    BY <2>1, <2>2, ComputedRemove DEF Next
<1> QED
  BY <1>1, <1>2, IInvSpec, PTL DEF Spec

\* As long as games run one by one, the one that runs knows every result so
\* far, and what it saves reaches the file.
Alone ==
    serial =>
        /\ \A g, h \in Games : pc[g] # "idle" /\ pc[h] # "idle" => g = h
        /\ \A g \in Games : pc[g] # "idle" => known[g] = ended
        /\ \A g \in Games : pc[g] = "save" => linked[g]
        /\ (\A g \in Games : pc[g] # "save") => fknown = ended

LEMMA AloneStep == ASSUME IInv, Alone, [Next]_vars PROVE Alone'
<1> SUFFICES ASSUME serial' PROVE Alone'
  BY DEF Alone
<1>1. pc \in [Games -> {"idle", "play", "save"}] /\ DOMAIN known = Games /\ linked \in [Games -> BOOLEAN]
  BY DEF IInv, Counters
<1>2. ASSUME NEW g \in Games, Start(g) PROVE Alone'
  <2>1. /\ serial /\ \A h \in Games : pc[h] = "idle"
        /\ pc' = [pc EXCEPT ![g] = "play"] /\ known' = [known EXCEPT ![g] = fknown]
        /\ UNCHANGED <<linked, fknown, ended>>
    BY <1>2 DEF Start
  <2>2. fknown = ended
    BY <2>1 DEF Alone
  <2>3. \A h \in Games : pc'[h] = IF h = g THEN "play" ELSE "idle"
    BY <1>1, <2>1
  <2> QED
    BY <1>1, <2>1, <2>2, <2>3 DEF Alone
<1>3. ASSUME NEW g \in Games, NEW name \in Names \cup {Default}, NEW score \in Results,
             Finish(g, name, score)
      PROVE  Alone'
  <2>1. /\ serial /\ pc[g] = "play"
        /\ pc' = [pc EXCEPT ![g] = "save"] /\ known' = [known EXCEPT ![g] = Append(@, score)]
        /\ linked' = [linked EXCEPT ![g] = TRUE] /\ ended' = Append(ended, score)
    BY <1>3 DEF Finish, Note
  <2>2. known[g] = ended /\ \A h \in Games : h # g => pc[h] = "idle"
    BY <2>1 DEF Alone
  <2>3. \A h \in Games : pc'[h] = IF h = g THEN "save" ELSE "idle"
    BY <1>1, <2>1, <2>2
  <2> QED
    BY <1>1, <2>1, <2>2, <2>3 DEF Alone
<1>4. ASSUME NEW g \in Games, Write(g) PROVE Alone'
  <2>1. serial /\ pc[g] = "save" /\ pc' = [pc EXCEPT ![g] = "idle"] /\ ended' = ended
    BY <1>4 DEF Write, Exit
  <2>2. linked[g] /\ known[g] = ended /\ \A h \in Games : h # g => pc[h] = "idle"
    BY <2>1 DEF Alone
  <2>3. fknown' = known[g]
    BY <1>4, <2>2 DEF Write
  <2>4. \A h \in Games : pc'[h] = "idle"
    BY <1>1, <2>1, <2>2
  <2> QED
    BY <2>1, <2>2, <2>3, <2>4 DEF Alone
<1>5. ASSUME NEW g \in Games, Kill(g) PROVE Alone'
  <2>1. /\ serial /\ pc[g] = "play" /\ pc' = [pc EXCEPT ![g] = "idle"]
        /\ UNCHANGED <<ended, fknown>>
    BY <1>5 DEF Kill, Exit
  <2>2. \A h \in Games : h # g => pc[h] = "idle"
    BY <2>1 DEF Alone
  <2>3. fknown = ended
    BY <2>1, <2>2 DEF Alone
  <2>4. \A h \in Games : pc'[h] = "idle"
    BY <1>1, <2>1, <2>2
  <2> QED
    BY <2>1, <2>3, <2>4 DEF Alone
<1>6. CASE UNCHANGED vars
  BY <1>6 DEF Alone, vars, history
<1>7. \A g \in Games : \A name, score : ~ SaveFails(g, name, score)
  BY DEF SaveFails
<1>8. ~ Remove
  BY DEF Remove
<1> QED
  BY <1>2, <1>3, <1>4, <1>5, <1>6, <1>7, <1>8 DEF Next, Game

LEMMA AloneSpec == Spec => []Alone
<1>1. Init => Alone
  BY DEF Init, Alone
<1> QED
  BY <1>1, AloneStep, IInvSpec, PTL DEF Spec

----------------------------------------------------------------------------
(* Theorems *)

\* Tables, file and counters keep their types.
THEOREM TypeCorrect == Spec => []TypeOK
<1>1. IInv => TypeOK
  <2> SUFFICES ASSUME IInv PROVE TypeOK
    OBVIOUS
  <2>1. ASSUME NEW g \in Games
        PROVE  /\ names[g] \in [Places -> Address]
               /\ scores[g] \in [Places -> Nat]
               /\ \A a \in DOMAIN heap[g] : a \in Address /\ heap[g][a] \in Seq(Token)
    BY DEF IInv, Tables, Sound, Table
  <2>2. \A i \in 1 .. Len(file) : file[i] \in Seq(Token) /\ Len(file[i]) >= 2
    BY ElementOfSeq DEF IInv, File, Lines
  <2> QED
    BY <2>1, <2>2 DEF IInv, Counters, TypeOK
<1> QED
  BY <1>1, IInvSpec, PTL

\* No name is freed twice or used after it was freed, whatever is loaded and
\* inserted.
THEOREM NamesOwned == Spec => []OwnedOnce
<1>1. IInv => OwnedOnce
  BY DEF IInv, Tables, Sound, Table, OwnedOnce
<1> QED
  BY <1>1, IInvSpec, PTL

\* Without tabs in the names, tables and file are in descending order and above
\* the first scores.
THEOREM AlwaysRanked == Spec => []Ranked
<1>1. IInv => Ranked
  BY DEF IInv, Tables, File, PlainLines, Ranked, Saved
<1> QED
  BY <1>1, IInvSpec, PTL

\* A table is the best of the results it was computed from, over any number of
\* loads, insertions and saves, whatever games overlap, get killed or lose the
\* file: no result is in it twice, and the tables of two games that save at
\* once are never mixed.
THEOREM TablesAreBest == Spec => []BestOfKnown
<1>1. Computed => BestOfKnown
  <2>1. \A sc, results : Best(sc, results) => BestOf(sc, results)
    BY BestOfIs, ScoresAreNatural DEF Best
  <2> QED
    BY <2>1 DEF Computed, BestOfKnown
<1> QED
  BY <1>1, ComputedSpec, PTL

\* Games that are played one by one lose no result, those that are killed while
\* they play included.
THEOREM OneByOneLosesNothing == Spec => []SerialBest
<1>1. Computed /\ Alone => SerialBest
  <2> SUFFICES ASSUME Computed, Alone, serial, ~tabbed, ended # <<>>,
                      \A g \in Games : pc[g] # "save"
               PROVE  file # Empty /\ BestOf(Saved, ended)
    BY DEF SerialBest
  <2>1. fknown = ended
    BY DEF Alone
  <2>2. file # Empty /\ Best(Saved, ended)
    BY <2>1 DEF Computed
  <2> QED
    BY <2>2, BestOfIs, ScoresAreNatural DEF Best
<1> QED
  BY <1>1, ComputedSpec, AloneSpec, PTL
=============================================================================
