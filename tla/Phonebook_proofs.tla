------------------------- MODULE Phonebook_proofs ---------------------------
(***************************************************************************)
(* Proofs about Phonebook, for any names, endpoints, rows and rosters, any  *)
(* number of contacts and any threshold: a route has one slot, what is      *)
(* shown is what a press of the button would call, an open cycle is         *)
(* watched, the selection survives what sources do, pruning takes only who  *)
(* is stale, and a call goes where it was asked to go.                      *)
(***************************************************************************)
EXTENDS Phonebook, FiniteSetTheorems, SequenceTheorems, WellFoundedInduction, TLAPS

-----------------------------------------------------------------------------
(* Numbers, and recursive functions over 0..n. *)

\* The constants as the provers want them.
LEMMA Sizes ==
  /\ Threshold \in Nat /\ MaxContacts \in Nat /\ MaxContacts > 0 /\ MaxMissing \in Nat
  /\ Threshold <= MaxMissing
  /\ Self \notin Names /\ None \notin Names /\ None # Self /\ HaNames \subseteq Names
  BY PhonebookAssumption

\* A set of numbers that is not empty has a least one.
LEMMA LeastNumber ==
  ASSUME NEW I, I \subseteq Nat, I # {}
  PROVE  Min(I) \in I /\ \A j \in I : Min(I) <= j
<1> DEFINE Before == {p \in Nat \X Nat : p[1] < p[2]}
<1>1. IsWellFoundedOn(Before, Nat)
  BY NatLessThanWellFounded, Zenon DEF OpToRel
<1>2. PICK i \in I : \A j \in I : ~ (<<j, i>> \in Before)
  <2> HIDE DEF Before
  <2> QED
    BY <1>1, WFMin, Zenon
<1>3. \A j \in I : i <= j
  <2> SUFFICES ASSUME NEW j \in I
               PROVE  i <= j
    OBVIOUS
  <2>1. i \in Nat /\ j \in Nat /\ (j < i => <<j, i>> \in Before)
    OBVIOUS
  <2> QED
    BY <1>2, <2>1
<1> QED
  BY <1>3, Zenon DEF Min

\* What holds at the start and is kept by each step holds all the way.
LEMMA Induction ==
  ASSUME NEW n \in Nat, NEW P, 0 \in P, \A k \in 1..n : k - 1 \in P => k \in P
  PROVE  \A k \in 0..n : k \in P
<1> SUFFICES ASSUME NEW j \in 0..n, j \notin P
             PROVE  FALSE
  OBVIOUS
<1> DEFINE Bad == {k \in 0..n : k \notin P}
<1>1. Min(Bad) \in Bad /\ \A k \in Bad : Min(Bad) <= k
  <2>1. Bad \subseteq Nat /\ Bad # {}
    OBVIOUS
  <2> HIDE DEF Bad
  <2> QED
    BY <2>1, LeastNumber
<1> DEFINE k == Min(Bad)
<1>2. k \in 1..n /\ k \notin P /\ k - 1 \in 0..n
  <2>1. k \in Bad
    BY <1>1
  <2> HIDE DEF k
  <2> QED
    BY <2>1
<1>3. k - 1 \notin Bad
  <2>1. k - 1 \in Bad => k <= k - 1
    BY <1>1
  <2> HIDE DEF k, Bad
  <2> QED
    BY <1>2, <2>1
<1> HIDE DEF k
<1> QED
  BY <1>2, <1>3

\* f takes the steps F, the first from b, and stays in S.
IsRun(f, n, S, b, F) ==
    f \in [0..n -> S] /\ f[0] = b /\ \A k \in 1..n : f[k] = F[k][f[k - 1]]

\* Steps that stay in a set can be taken one after the other: what a recursive
\* function over 0..n needs to exist.
LEMMA Iteration ==
  ASSUME NEW n \in Nat, NEW S, NEW b \in S, NEW F \in [1..n -> [S -> S]]
  PROVE  \E f : IsRun(f, n, S, b, F)
<1> DEFINE P == {m \in 0..n : \E f : IsRun(f, m, S, b, F)}
<1>1. 0 \in P
  <2>1. IsRun([k \in 0..0 |-> b], 0, S, b, F)
    BY DEF IsRun
  <2> QED
    BY <2>1
<1>2. ASSUME NEW m \in 1..n, m - 1 \in P
      PROVE  m \in P
  <2>1. PICK f : IsRun(f, m - 1, S, b, F)
    BY <1>2
  <2>2. m - 1 \in 0..n /\ f \in [0..(m - 1) -> S] /\ F[m][f[m - 1]] \in S
    BY <2>1 DEF IsRun
  <2> DEFINE g == [k \in 0..m |-> IF k = m THEN F[m][f[m - 1]] ELSE f[k]]
  <2>3. g \in [0..m -> S] /\ g[0] = b
    BY <2>1, <2>2 DEF IsRun
  <2>4. ASSUME NEW k \in 1..m
        PROVE  g[k] = F[k][g[k - 1]]
    <3>1. k - 1 \in 0..(m - 1) /\ k - 1 # m /\ g[k - 1] = f[k - 1]
      OBVIOUS
    <3>2. CASE k = m
      BY <3>1, <3>2
    <3>3. CASE k # m
      BY <2>1, <3>1, <3>3 DEF IsRun
    <3> QED
      BY <3>2, <3>3
  <2> HIDE DEF g
  <2>5. IsRun(g, m, S, b, F)
    BY <2>3, <2>4 DEF IsRun
  <2> QED
    BY <2>5
<1>3. n \in P
  <2>1. \A k \in 1..n : k - 1 \in P => k \in P
    BY <1>2
  <2>2. n \in 0..n
    OBVIOUS
  <2> HIDE DEF P
  <2> QED
    BY <1>1, <2>1, <2>2, Induction, Zenon
<1> QED
  BY <1>3

-----------------------------------------------------------------------------
(* A phone, its slots and its cursor. *)

\* A route has one slot.
OneSlot(s) == \A i, j \in DOMAIN s : s[i].route = s[j].route => i = j

\* A phone whose contacts fit, with one slot for each route, and whose cursor denotes
\* one of them, if there is one.
Phones ==
    {p \in PhoneType : /\ Len(p.entries) <= MaxContacts /\ OneSlot(p.entries)
                       /\ p.cursor <= Len(p.entries) \/ p.cursor = 1}

\* What is shown and what is dialled is the same, but for the selected contact.
SameDialPlan(p, q) ==
    /\ q.pending = p.pending /\ q.call = p.call /\ q.tried = p.tried /\ q.redial = p.redial
    /\ q.reason = p.reason /\ q.last = p.last /\ q.asked = p.asked /\ q.refused = p.refused
    /\ q.shown = p.shown

\* All but the contacts and the cursor is the same.
SameRest(p, q) ==
    /\ q.active = p.active /\ q.late = p.late /\ q.seen = p.seen /\ q.ha = p.ha
    /\ q.picked = p.picked /\ q.looping = p.looping /\ SameDialPlan(p, q)

\* The contacts of q are among those of p, and whoever was selected and is
\* still there is selected.
Stays(p, q) ==
    /\ Routes(q) \subseteq Routes(p)
    /\ Selected(p).route \in Routes(q) => Selected(q).route = Selected(p).route

\* The first of some places, 0 if there is none.
First(I) == IF I # {} THEN Min(I) ELSE 0

\* It is one of them.
LEMMA FirstPlace ==
  ASSUME NEW n \in Nat, NEW I, I \subseteq 1..n
  PROVE  /\ First(I) \in 0..n /\ (First(I) # 0 => First(I) \in I)
         /\ First(I) = 0 => \A i : i \notin I
<1>1. CASE I = {}
  BY <1>1, SMT DEF First
<1>2. CASE I # {}
  <2>1. I \subseteq Nat
    OBVIOUS
  <2>2. Min(I) \in I
    BY <1>2, <2>1, LeastNumber, Zenon
  <2>3. First(I) = Min(I)
    BY <1>2, Zenon DEF First
  <2>4. \A m \in I : m \in 0..n /\ m # 0
    OBVIOUS
  <2> QED
    BY <2>2, <2>3, <2>4, Zenon
<1> QED
  BY <1>1, <1>2, Zenon

\* A phone's fields have their types.
LEMMA PhoneFields ==
  ASSUME NEW p \in Phones
  PROVE  /\ p \in PhoneType /\ p.entries \in Seq(Contact) /\ Len(p.entries) \in Nat
         /\ DOMAIN p.entries = 1..Len(p.entries) /\ Len(p.entries) <= MaxContacts
         /\ OneSlot(p.entries) /\ p.cursor \in Nat /\ p.cursor >= 1 /\ p.cursor <= MaxContacts
         /\ (p.cursor <= Len(p.entries) \/ p.cursor = 1)
         /\ \A i \in DOMAIN p.entries : p.entries[i] \in Contact
         /\ (p.entries # <<>> => p.cursor \in DOMAIN p.entries /\ Len(p.entries) > 0)
  BY Sizes DEF Phones, PhoneType

\* A phone with other contacts and another cursor.
With(p, s, c) == [p EXCEPT !.entries = s, !.cursor = c]

\* It is a phone, and the rest of it is the same.
LEMMA Rearranged ==
  ASSUME NEW p \in Phones, NEW s \in Seq(Contact), Len(s) <= MaxContacts, OneSlot(s),
         NEW c \in 1..MaxContacts, c <= Len(s) \/ c = 1
  PROVE  LET q == With(p, s, c) IN
         q \in Phones /\ q.entries = s /\ q.cursor = c /\ SameRest(p, q)
<1> DEFINE r == [p EXCEPT !.entries = s]
           q == [r EXCEPT !.cursor = c]
<1>1. p \in PhoneType
  BY DEF Phones
<1>2. r \in PhoneType /\ r.entries = s /\ SameRest(p, r)
  <2>1. r \in PhoneType
    BY <1>1 DEF PhoneType
  <2>2. r.entries = s
    BY <1>1 DEF PhoneType
  <2>3. SameRest(p, r)
    BY <1>1 DEF PhoneType, SameRest, SameDialPlan
  <2> QED
    BY <2>1, <2>2, <2>3
<1> HIDE DEF r
<1>3. q \in PhoneType /\ q.entries = s /\ q.cursor = c /\ SameRest(r, q)
  <2>1. q \in PhoneType
    BY <1>2 DEF PhoneType
  <2>2. q.entries = s /\ q.cursor = c
    BY <1>2 DEF PhoneType
  <2>3. SameRest(r, q)
    BY <1>2 DEF PhoneType, SameRest, SameDialPlan
  <2> QED
    BY <2>1, <2>2, <2>3
<1>4. SameRest(p, q)
  <2> HIDE DEF q
  <2> QED
    BY <1>2, <1>3 DEF SameRest, SameDialPlan
<1>5. q \in Phones
  <2> HIDE DEF q
  <2> QED
    BY <1>3 DEF Phones
<1>6. With(p, s, c) = q
  BY DEF With, r
<1> HIDE DEF q
<1> QED
  BY <1>3, <1>4, <1>5, <1>6, <1>2

\* The same with the cursor where it was.
LEMMA Refilled ==
  ASSUME NEW p \in Phones, NEW s \in Seq(Contact), Len(s) <= MaxContacts, OneSlot(s),
         p.cursor <= Len(s) \/ p.cursor = 1
  PROVE  LET q == [p EXCEPT !.entries = s] IN
         q \in Phones /\ q.entries = s /\ q.cursor = p.cursor /\ SameRest(p, q)
<1> DEFINE q == [p EXCEPT !.entries = s]
<1>1. p \in PhoneType
  BY DEF Phones
<1>2. q \in PhoneType
  BY <1>1 DEF PhoneType
<1>3. q.entries = s /\ q.cursor = p.cursor
  BY <1>1 DEF PhoneType
<1>4. SameRest(p, q)
  BY <1>1 DEF PhoneType, SameRest, SameDialPlan
<1>5. q \in Phones
  <2> HIDE DEF q
  <2> QED
    BY <1>2, <1>3 DEF Phones
<1> QED
  BY <1>3, <1>4, <1>5

\* Phonebook::find.
LEMMA FindFacts ==
  ASSUME NEW p \in Phones, NEW x
  PROVE  /\ Find(p, x) \in 0..Len(p.entries)
         /\ Find(p, x) = 0 =>
              \A i \in DOMAIN p.entries : p.entries[i].name # x /\ p.entries[i].route # x
         /\ Find(p, x) # 0 => LET e == p.entries[Find(p, x)] IN e.name = x \/ e.route = x
         /\ Find(p, x) # 0 => Find(p, x) \in DOMAIN p.entries
<1> DEFINE I == {i \in 1..Len(p.entries) : p.entries[i].name = x \/ p.entries[i].route = x}
<1>1. Find(p, x) = First(I)
  BY Zenon DEF Find, SelectInSeq, First
<1>2. Len(p.entries) \in Nat /\ I \subseteq 1..Len(p.entries)
  BY PhoneFields
<1>3. \A i \in 1..Len(p.entries) : i \in I <=> p.entries[i].name = x \/ p.entries[i].route = x
  OBVIOUS
<1> DEFINE m == Find(p, x)
<1>4. m \in 0..Len(p.entries) /\ (m = 0 => \A i : i \notin I) /\ (m # 0 => m \in I)
  <2> HIDE DEF I
  <2> QED
    BY <1>1, <1>2, FirstPlace, Zenon
<1> HIDE DEF I, m
<1>5. DOMAIN p.entries = 1..Len(p.entries)
  BY PhoneFields
<1>6. m = 0 => \A i \in DOMAIN p.entries : p.entries[i].name # x /\ p.entries[i].route # x
  BY <1>3, <1>4, <1>5
<1>7. m # 0 => LET e == p.entries[m] IN (e.name = x \/ e.route = x) /\ m \in DOMAIN p.entries
  BY <1>2, <1>3, <1>4, <1>5
<1> QED
  BY <1>4, <1>6, <1>7 DEF m

\* Phonebook::select.
LEMMA SelectEffect ==
  ASSUME NEW p \in Phones, NEW x
  PROVE  LET q == Select(p, x) IN
         /\ q \in Phones /\ q.entries = p.entries /\ SameRest(p, q)
         /\ q.cursor = IF Find(p, x) = 0 THEN p.cursor ELSE Find(p, x)
<1>1. CASE Find(p, x) = 0
  BY <1>1 DEF Select, SameRest, SameDialPlan
<1>2. CASE Find(p, x) # 0
  <2> DEFINE c == Find(p, x)
             q == Select(p, x)
  <2>1. c \in 1..Len(p.entries) /\ c \in 1..MaxContacts /\ p.entries \in Seq(Contact)
        /\ Len(p.entries) <= MaxContacts /\ OneSlot(p.entries) /\ c <= Len(p.entries)
    BY <1>2, FindFacts, PhoneFields, Sizes
  <2>2. q = [p EXCEPT !.cursor = c] /\ p \in PhoneType
    BY <1>2 DEF Select, Phones
  <2>3. q \in PhoneType
    BY <2>1, <2>2 DEF PhoneType
  <2>4. q.entries = p.entries /\ q.cursor = c
    BY <2>2 DEF PhoneType
  <2>5. SameRest(p, q)
    BY <2>2 DEF PhoneType, SameRest, SameDialPlan
  <2>6. q \in Phones
    <3> HIDE DEF q, c
    <3> QED
      BY <2>1, <2>3, <2>4 DEF Phones
  <2> QED
    BY <1>2, <2>4, <2>5, <2>6
<1> QED
  BY <1>1, <1>2

\* A sequence without one of its elements.
LEMMA RemoveAtFacts ==
  ASSUME NEW T, NEW s \in Seq(T), NEW i \in DOMAIN s
  PROVE  LET r == RemoveAt(s, i) IN
         /\ r \in Seq(T) /\ Len(r) = Len(s) - 1 /\ DOMAIN r = 1..(Len(s) - 1)
         /\ \A j \in 1..(Len(s) - 1) : r[j] = IF j < i THEN s[j] ELSE s[j + 1]
<1> DEFINE u == SubSeq(s, 1, i - 1)
           v == SubSeq(s, i + 1, Len(s))
<1>1. Len(s) \in Nat /\ i \in 1..Len(s) /\ \A j \in 1..Len(s) : s[j] \in T
  OBVIOUS
<1>2. u \in Seq(T) /\ Len(u) = i - 1 /\ \A j \in 1..(i - 1) : u[j] = s[j]
  <2>1. 1 \in Int /\ i - 1 \in Int /\ \A j \in 1..(i - 1) : s[j] \in T
    BY <1>1
  <2>2. /\ u \in Seq(T) /\ Len(u) = IF 1 <= i - 1 THEN i - 1 - 1 + 1 ELSE 0
        /\ \A j \in 1..(i - 1 - 1 + 1) : u[j] = s[1 + j - 1]
    <3> HIDE <1>1
    <3> QED
      BY <2>1, SubSeqProperties
  <2> HIDE DEF u
  <2> QED
    BY <1>1, <2>2
<1>3. v \in Seq(T) /\ Len(v) = Len(s) - i /\ \A j \in 1..(Len(s) - i) : v[j] = s[i + j]
  <2>1. i + 1 \in Int /\ Len(s) \in Int /\ \A j \in (i + 1)..Len(s) : s[j] \in T
    BY <1>1
  <2>2. /\ v \in Seq(T) /\ Len(v) = IF i + 1 <= Len(s) THEN Len(s) - (i + 1) + 1 ELSE 0
        /\ \A j \in 1..(Len(s) - (i + 1) + 1) : v[j] = s[(i + 1) + j - 1]
    BY <2>1, SubSeqProperties
  <2> HIDE DEF v
  <2> QED
    BY <1>1, <2>2
<1> DEFINE r == u \o v
<1>4. /\ r \in Seq(T) /\ Len(r) = Len(u) + Len(v)
      /\ \A j \in 1..(Len(u) + Len(v)) : r[j] = IF j <= Len(u) THEN u[j] ELSE v[j - Len(u)]
  <2> HIDE DEF u, v
  <2> QED
    BY <1>2, <1>3, ConcatProperties, Zenon
<1>5. RemoveAt(s, i) = r
  BY DEF RemoveAt
<1> HIDE DEF r, u, v
<1>6. Len(r) = Len(s) - 1 /\ DOMAIN r = 1..(Len(s) - 1)
  BY <1>1, <1>2, <1>3, <1>4
<1>7. ASSUME NEW j \in 1..(Len(s) - 1)
      PROVE  r[j] = IF j < i THEN s[j] ELSE s[j + 1]
  <2>1. r[j] = IF j <= i - 1 THEN u[j] ELSE v[j - (i - 1)]
    <3>1. j \in 1..(Len(u) + Len(v))
      BY <1>1, <1>2, <1>3
    <3>2. r[j] = IF j <= Len(u) THEN u[j] ELSE v[j - Len(u)]
      BY <1>4, <3>1
    <3> QED
      BY <1>2, <3>2
  <2>2. CASE j < i
    BY <1>1, <1>2, <2>1, <2>2
  <2>3. CASE ~ (j < i)
    <3>1. j - (i - 1) \in 1..(Len(s) - i) /\ i + (j - (i - 1)) = j + 1
      BY <1>1, <2>3
    <3> QED
      BY <1>1, <1>3, <2>1, <2>3, <3>1
  <2> QED
    BY <2>2, <2>3
<1> QED
  BY <1>4, <1>5, <1>6, <1>7

\* Removing an element keeps the slots apart.
LEMMA RemoveKeepsSlots ==
  ASSUME NEW s \in Seq(Contact), NEW i \in DOMAIN s, OneSlot(s)
  PROVE  LET r == RemoveAt(s, i) IN
         /\ OneSlot(r) /\ Range(r) \subseteq Range(s)
         /\ \A k \in DOMAIN s : k # i => s[k] \in Range(r)
         /\ \A j \in DOMAIN r : r[j].route # s[i].route
<1> DEFINE r == RemoveAt(s, i)
           at(j) == IF j < i THEN j ELSE j + 1
<1>1. /\ r \in Seq(Contact) /\ DOMAIN r = 1..(Len(s) - 1)
      /\ \A j \in 1..(Len(s) - 1) : r[j] = IF j < i THEN s[j] ELSE s[j + 1]
  BY RemoveAtFacts, Zenon
<1>2. Len(s) \in Nat /\ DOMAIN s = 1..Len(s) /\ i \in 1..Len(s)
  OBVIOUS
<1> HIDE DEF r
<1>3. \A j \in DOMAIN r : at(j) \in DOMAIN s /\ at(j) # i /\ r[j] = s[at(j)]
  BY <1>1, <1>2
<1>4. \A j, k \in DOMAIN r : at(j) = at(k) => j = k
  BY <1>1, <1>2
<1>5. OneSlot(r) /\ \A j \in DOMAIN r : r[j].route # s[i].route
  <2> HIDE DEF at
  <2> QED
    BY <1>3, <1>4 DEF OneSlot
<1>6. Range(r) \subseteq Range(s)
  <2> HIDE DEF at
  <2> QED
    BY <1>3 DEF Range
<1>7. ASSUME NEW k \in DOMAIN s, k # i
      PROVE  s[k] \in Range(r)
  <2>1. CASE k < i
    BY <1>1, <1>2, <1>7, <2>1 DEF Range
  <2>2. CASE k > i
    <3>1. k - 1 \in DOMAIN r /\ r[k - 1] = s[k]
      BY <1>1, <1>2, <2>2
    <3> QED
      BY <3>1 DEF Range
  <2> QED
    BY <1>2, <1>7, <2>1, <2>2
<1> QED
  BY <1>5, <1>6, <1>7 DEF r

\* The contact that the cursor denotes.
LEMMA SelectedFacts ==
  ASSUME NEW p \in Phones
  PROVE  /\ (\E i : i \in DOMAIN p.entries) =>
              /\ p.cursor \in DOMAIN p.entries /\ Selected(p) = p.entries[p.cursor]
              /\ Selected(p) \in Contact /\ p.entries # <<>>
         /\ p.entries = <<>> => /\ Selected(p).name = None /\ Selected(p).route = None
                                /\ Selected(p).ep = None
         /\ p.entries # <<>> => \E i : i \in DOMAIN p.entries
         /\ None \notin Routes(p)
<1>1. /\ p.entries \in Seq(Contact) /\ Len(p.entries) \in Nat
      /\ DOMAIN p.entries = 1..Len(p.entries)
      /\ p.cursor \in Nat /\ p.cursor >= 1 /\ (p.cursor <= Len(p.entries) \/ p.cursor = 1)
  BY PhoneFields
<1>2. ASSUME NEW i \in DOMAIN p.entries
      PROVE  /\ p.cursor \in DOMAIN p.entries /\ Selected(p) = p.entries[p.cursor]
             /\ Selected(p) \in Contact /\ p.entries # <<>>
  <2>1. p.cursor \in DOMAIN p.entries /\ p.entries # <<>>
    BY <1>1
  <2>2. Selected(p) = p.entries[p.cursor]
    BY <2>1 DEF Selected
  <2> QED
    BY <1>1, <2>1, <2>2
<1>3. p.entries = <<>> => /\ Selected(p).name = None /\ Selected(p).route = None
                          /\ Selected(p).ep = None
  BY DEF Selected
<1>4. p.entries # <<>> => \E i : i \in DOMAIN p.entries
  BY <1>1
<1>5. None \notin Routes(p)
  <2> SUFFICES ASSUME NEW i \in DOMAIN p.entries, p.entries[i].route = None
               PROVE  FALSE
    BY DEF Routes
  <2>1. p.entries[i] \in Contact
    BY <1>1
  <2> QED
    BY <2>1, Sizes DEF Contact
<1> QED
  BY <1>2, <1>3, <1>4, <1>5

\* Phonebook::remove: the cursor follows.
LEMMA RemoveOneEffect ==
  ASSUME NEW p \in Phones, NEW x
  PROVE  LET q == RemoveOne(p, x) IN
         /\ q \in Phones /\ SameRest(p, q) /\ Stays(p, q)
         /\ q = p \/ Len(q.entries) < Len(p.entries)
         /\ Range(q.entries) \subseteq Range(p.entries)
         /\ \A e \in Range(p.entries) : e.name # x => e \in Range(q.entries)
<1> DEFINE q == RemoveOne(p, x)
           s == p.entries
           I == {j \in 1..Len(s) : s[j].name = x}
           i == First(I)
           rest == RemoveAt(s, i)
           c == IF i < p.cursor THEN p.cursor - 1 ELSE IF p.cursor > Len(rest) THEN 1 ELSE p.cursor
<1>1. q = IF i = 0 THEN p ELSE [p EXCEPT !.entries = rest, !.cursor = c]
  BY Zenon DEF RemoveOne, SelectInSeq, First
<1>2. /\ s \in Seq(Contact) /\ Len(s) \in Nat /\ DOMAIN s = 1..Len(s) /\ Len(s) <= MaxContacts
      /\ OneSlot(s) /\ p.cursor \in Nat /\ p.cursor >= 1 /\ p.cursor <= MaxContacts
      /\ (p.cursor <= Len(s) \/ p.cursor = 1)
  BY PhoneFields
<1>3. i \in 0..Len(s) /\ (i # 0 => i \in I) /\ (i = 0 => \A j : j \notin I)
  <2>1. I \subseteq 1..Len(s)
    OBVIOUS
  <2> HIDE DEF I
  <2> QED
    BY <1>2, <2>1, FirstPlace, Zenon
<1>4. CASE i = 0
  <2>1. q = p
    BY <1>1, <1>4
  <2> QED
    BY <2>1 DEF SameRest, SameDialPlan, Stays
<1>5. CASE i # 0
  <2>1. i \in DOMAIN s /\ s[i].name = x
    BY <1>2, <1>3, <1>5
  <2> HIDE DEF I, i
  <2>2. /\ rest \in Seq(Contact) /\ Len(rest) = Len(s) - 1 /\ DOMAIN rest = 1..(Len(s) - 1)
        /\ \A j \in 1..(Len(s) - 1) : rest[j] = IF j < i THEN s[j] ELSE s[j + 1]
    BY <1>2, <2>1, RemoveAtFacts, Zenon
  <2>3. /\ OneSlot(rest) /\ Range(rest) \subseteq Range(s)
        /\ \A k \in DOMAIN s : k # i => s[k] \in Range(rest)
        /\ \A j \in DOMAIN rest : rest[j].route # s[i].route
    BY <1>2, <2>1, RemoveKeepsSlots, Zenon
  <2>4. q = With(p, rest, c)
    BY <1>1, <1>5 DEF With
  <2> HIDE DEF rest, q
  <2>5. c \in 1..MaxContacts /\ (c <= Len(rest) \/ c = 1) /\ Len(rest) <= MaxContacts
    BY <1>2, <2>1, <2>2, Sizes
  <2>6. q \in Phones /\ q.entries = rest /\ q.cursor = c /\ SameRest(p, q)
    <3> HIDE DEF c
    <3> QED
      BY <2>2, <2>3, <2>4, <2>5, Rearranged, Zenon
  <2>7. ASSUME Selected(p).route \in Routes(q)
        PROVE  Selected(q).route = Selected(p).route
    <3>1. p.cursor \in DOMAIN s /\ Selected(p) = s[p.cursor]
      BY <2>1, SelectedFacts
    <3>2. p.cursor # i
      <4>1. PICK j \in DOMAIN rest : rest[j].route = Selected(p).route
        BY <2>6, <2>7 DEF Routes
      <4> QED
        BY <2>3, <3>1, <4>1
    <3>3. c \in DOMAIN rest /\ rest[c] = s[p.cursor]
      <4>1. CASE i < p.cursor
        BY <1>2, <2>1, <2>2, <3>1, <4>1
      <4>2. CASE p.cursor < i
        BY <1>2, <2>1, <2>2, <3>1, <4>2
      <4> QED
        BY <1>2, <2>1, <3>2, <4>1, <4>2
    <3>4. Selected(q) = rest[c]
      <4> HIDE DEF c
      <4> QED
        BY <2>6, <3>3, SelectedFacts
    <3> QED
      BY <3>1, <3>3, <3>4
  <2>8. Routes(q) \subseteq Routes(p)
    <3>1. \A j \in DOMAIN rest : \E k \in DOMAIN s : rest[j] = s[k]
      BY <2>3 DEF Range
    <3> HIDE DEF c
    <3> QED
      BY <2>6, <3>1 DEF Routes
  <2>9. \A e \in Range(s) : e.name # x => e \in Range(rest)
    BY <2>1, <2>3 DEF Range
  <2>10. Len(q.entries) < Len(p.entries)
    BY <1>2, <2>2, <2>6
  <2> HIDE DEF c
  <2> QED
    BY <2>3, <2>6, <2>7, <2>8, <2>9, <2>10 DEF q, Stays
<1> QED
  BY <1>4, <1>5

-----------------------------------------------------------------------------
(* Contacts that are added. *)

\* The contacts of p keep their places and routes, and new ones come after.
KeepsPlaces(p, q) ==
    /\ q \in Phones /\ SameRest(p, q) /\ q.cursor = p.cursor
    /\ \A i \in DOMAIN p.entries : i \in DOMAIN q.entries /\ q.entries[i].route = p.entries[i].route

\* It is a preorder.
LEMMA PlacesTransitive ==
  ASSUME NEW p, NEW q, NEW r, KeepsPlaces(p, q), KeepsPlaces(q, r)
  PROVE  KeepsPlaces(p, r)
<1>1. SameRest(p, r)
  BY DEF KeepsPlaces, SameRest, SameDialPlan
<1> QED
  BY <1>1 DEF KeepsPlaces

\* A list with a slot more at the end.
LEMMA AppendSlot ==
  ASSUME NEW s \in Seq(Contact), OneSlot(s), NEW e \in Contact,
         \A i \in DOMAIN s : s[i].route # e.route
  PROVE  LET t == Append(s, e) IN
         /\ t \in Seq(Contact) /\ Len(t) = Len(s) + 1 /\ OneSlot(t)
         /\ \A i \in DOMAIN s : i \in DOMAIN t /\ t[i] = s[i]
<1> DEFINE t == Append(s, e)
<1>1. /\ Len(s) \in Nat /\ DOMAIN s = 1..Len(s)
      /\ t \in Seq(Contact) /\ Len(t) = Len(s) + 1 /\ DOMAIN t = 1..(Len(s) + 1)
      /\ \A i \in 1..Len(s) : t[i] = s[i]
      /\ t[Len(s) + 1] = e
  OBVIOUS
<1> HIDE DEF t
<1>2. OneSlot(t)
  <2> SUFFICES ASSUME NEW i \in DOMAIN t, NEW j \in DOMAIN t, t[i].route = t[j].route
               PROVE  i = j
    BY DEF OneSlot
  <2>1. CASE i \in 1..Len(s) /\ j \in 1..Len(s)
    BY <1>1, <2>1 DEF OneSlot
  <2>2. CASE i = Len(s) + 1 \/ j = Len(s) + 1
    BY <1>1, <2>2
  <2> QED
    BY <1>1, <2>1, <2>2
<1>3. \A i \in DOMAIN s : i \in DOMAIN t /\ t[i] = s[i]
  BY <1>1
<1> QED
  BY <1>1, <1>2, <1>3 DEF t

\* A list with a slot whose contact is replaced by one of the same route.
LEMMA UpdateSlot ==
  ASSUME NEW s \in Seq(Contact), OneSlot(s), NEW i \in DOMAIN s, NEW e \in Contact,
         e.route = s[i].route
  PROVE  LET t == [s EXCEPT ![i] = e] IN
         /\ t \in Seq(Contact) /\ Len(t) = Len(s) /\ OneSlot(t)
         /\ \A j \in DOMAIN s : j \in DOMAIN t /\ t[j].route = s[j].route
<1> DEFINE t == [s EXCEPT ![i] = e]
<1>1. /\ Len(s) \in Nat /\ DOMAIN s = 1..Len(s)
      /\ t \in Seq(Contact) /\ Len(t) = Len(s) /\ DOMAIN t = 1..Len(s)
      /\ \A j \in 1..Len(s) : t[j].route = s[j].route
  OBVIOUS
<1> HIDE DEF t
<1>2. OneSlot(t)
  BY <1>1 DEF OneSlot
<1> QED
  BY <1>1, <1>2 DEF t

\* A contact more.
LEMMA AppendKeeps ==
  ASSUME NEW p \in Phones, NEW e \in Contact, e.route \notin Routes(p),
         Len(p.entries) < MaxContacts
  PROVE  KeepsPlaces(p, [p EXCEPT !.entries = Append(@, e)])
<1> DEFINE s == p.entries
           t == Append(s, e)
           q == [p EXCEPT !.entries = t]
<1>1. /\ s \in Seq(Contact) /\ Len(s) \in Nat /\ OneSlot(s)
      /\ p.cursor \in Nat /\ (p.cursor <= Len(s) \/ p.cursor = 1)
  BY PhoneFields
<1>2. \A i \in DOMAIN s : s[i].route # e.route
  BY DEF Routes
<1>3. /\ t \in Seq(Contact) /\ Len(t) = Len(s) + 1 /\ OneSlot(t)
      /\ \A i \in DOMAIN s : i \in DOMAIN t /\ t[i] = s[i]
  BY <1>1, <1>2, AppendSlot
<1> HIDE DEF t
<1>4. q \in Phones /\ q.entries = t /\ q.cursor = p.cursor /\ SameRest(p, q)
  <2>1. Len(t) <= MaxContacts /\ (p.cursor <= Len(t) \/ p.cursor = 1)
    BY <1>1, <1>3, Sizes
  <2> QED
    BY <1>3, <2>1, Refilled, Zenon
<1>5. KeepsPlaces(p, q)
  <2> HIDE DEF q
  <2> QED
    BY <1>3, <1>4 DEF KeepsPlaces
<1> QED
  BY <1>5 DEF t

\* A contact that keeps its route.
LEMMA UpdateKeeps ==
  ASSUME NEW p \in Phones, NEW i \in DOMAIN p.entries, NEW e \in Contact,
         e.route = p.entries[i].route
  PROVE  KeepsPlaces(p, [p EXCEPT !.entries = [p.entries EXCEPT ![i] = e]])
<1> DEFINE s == p.entries
           t == [s EXCEPT ![i] = e]
           q == [p EXCEPT !.entries = t]
<1>1. /\ s \in Seq(Contact) /\ Len(s) \in Nat /\ Len(s) <= MaxContacts /\ OneSlot(s)
      /\ p.cursor \in Nat /\ (p.cursor <= Len(s) \/ p.cursor = 1)
  BY PhoneFields
<1>2. /\ t \in Seq(Contact) /\ Len(t) = Len(s) /\ OneSlot(t)
      /\ \A j \in DOMAIN s : j \in DOMAIN t /\ t[j].route = s[j].route
  BY <1>1, UpdateSlot
<1> HIDE DEF t
<1>3. q \in Phones /\ q.entries = t /\ q.cursor = p.cursor /\ SameRest(p, q)
  <2>1. Len(t) <= MaxContacts /\ (p.cursor <= Len(t) \/ p.cursor = 1)
    BY <1>1, <1>2
  <2> QED
    BY <1>2, <2>1, Refilled, Zenon
<1>4. KeepsPlaces(p, q)
  <2> HIDE DEF q
  <2> QED
    BY <1>2, <1>3 DEF KeepsPlaces
<1> QED
  BY <1>4 DEF t

\* Whoever is selected stays selected when places are kept.
LEMMA PlacesKeepSelection ==
  ASSUME NEW p \in Phones, NEW q, KeepsPlaces(p, q)
  PROVE  (\E i : i \in DOMAIN p.entries) => Selected(q).route = Selected(p).route
<1> SUFFICES ASSUME NEW i \in DOMAIN p.entries
             PROVE  Selected(q).route = Selected(p).route
  OBVIOUS
<1>1. p.cursor \in DOMAIN p.entries /\ Selected(p) = p.entries[p.cursor]
  BY SelectedFacts
<1>2. /\ q \in Phones /\ q.cursor = p.cursor /\ p.cursor \in DOMAIN q.entries
      /\ q.entries[p.cursor].route = p.entries[p.cursor].route
  BY <1>1 DEF KeepsPlaces
<1>3. Selected(q) = q.entries[q.cursor]
  BY <1>2, SelectedFacts
<1> QED
  BY <1>1, <1>2, <1>3

\* A row makes a slot, or renames one, or changes nothing.
LEMMA MergeKeeps ==
  ASSUME NEW p \in Phones, NEW row \in CsvRow, row.name \in Names
  PROVE  KeepsPlaces(p, Merge(p, row))
<1> DEFINE s == p.entries
           I == {j \in 1..Len(s) : s[j].route = row.route}
           i == First(I)
           fresh == [name |-> row.name, route |-> row.route, ep |-> row.ep, miss |-> 0]
           m == Merge(p, row)
<1>1. m = IF i = 0 /\ Len(s) < MaxContacts
          THEN [p EXCEPT !.entries = Append(@, fresh)]
          ELSE IF i # 0 /\ row.ep # None
          THEN [p EXCEPT !.entries[i].name = row.name, !.entries[i].ep = row.ep]
          ELSE p
  BY Zenon DEF Merge, SelectInSeq, First
<1>2. s \in Seq(Contact) /\ Len(s) \in Nat /\ DOMAIN s = 1..Len(s) /\ p \in PhoneType
  BY PhoneFields
<1>3. i \in 0..Len(s) /\ (i # 0 => i \in I) /\ (i = 0 => \A j : j \notin I)
  <2>1. I \subseteq 1..Len(s)
    OBVIOUS
  <2> HIDE DEF I
  <2> QED
    BY <1>2, <2>1, FirstPlace, Zenon
<1>4. CASE i = 0 /\ Len(s) < MaxContacts
  <2>1. fresh \in Contact
    BY Sizes DEF CsvRow, Contact
  <2>2. fresh.route \notin Routes(p)
    BY <1>2, <1>3, <1>4 DEF Routes
  <2>3. m = [p EXCEPT !.entries = Append(@, fresh)]
    BY <1>1, <1>4
  <2> HIDE DEF fresh, I, i, m
  <2>4. KeepsPlaces(p, [p EXCEPT !.entries = Append(@, fresh)])
    BY <1>4, <2>1, <2>2, AppendKeeps, Zenon
  <2> QED
    BY <2>3, <2>4 DEF m
<1>5. CASE i # 0 /\ row.ep # None
  <2>1. i \in DOMAIN s /\ s[i].route = row.route /\ s[i] \in Contact
    <3>1. \A j \in I : j \in DOMAIN s /\ s[j].route = row.route /\ s[j] \in Contact
      BY <1>2
    <3> HIDE DEF I
    <3> QED
      BY <1>3, <1>5, <3>1, Zenon
  <2>2. m = [p EXCEPT !.entries[i].name = row.name, !.entries[i].ep = row.ep]
    BY <1>1, <1>5
  <2> HIDE DEF I, i, m
  <2> DEFINE d == [s[i] EXCEPT !.name = row.name]
             q == [p EXCEPT !.entries = [s EXCEPT ![i] = d]]
             e == [q.entries[i] EXCEPT !.ep = row.ep]
             r == [q EXCEPT !.entries = [q.entries EXCEPT ![i] = e]]
  <2>3. d \in Contact /\ d.route = s[i].route
    BY <2>1 DEF Contact, CsvRow
  <2>5. KeepsPlaces(p, q)
    <3> HIDE DEF d
    <3> QED
      BY <2>1, <2>3, UpdateKeeps, Zenon
  <2>6. q.entries = [s EXCEPT ![i] = d] /\ q \in PhoneType
    <3>1. q.entries = [s EXCEPT ![i] = d]
      <4> HIDE DEF d
      <4> QED
        BY <1>2 DEF PhoneType
    <3> QED
      BY <2>5, <3>1 DEF KeepsPlaces, Phones
  <2>7. i \in DOMAIN q.entries /\ q.entries[i] = d /\ q \in Phones
    BY <2>1, <2>5, <2>6 DEF KeepsPlaces
  <2>4. e \in Contact /\ e.route = s[i].route
    <3> HIDE DEF d, q
    <3> QED
      BY <2>3, <2>7 DEF Contact, CsvRow
  <2>8. KeepsPlaces(q, r)
    <3> HIDE DEF e, d, q
    <3>1. e.route = q.entries[i].route
      BY <2>3, <2>4, <2>7
    <3> QED
      BY <2>4, <2>7, <3>1, UpdateKeeps, Zenon
  <2>9. m = r
    BY <2>2
  <2> HIDE DEF q, r
  <2>10. KeepsPlaces(p, r)
    BY <2>5, <2>8, PlacesTransitive
  <2> QED
    BY <2>9, <2>10 DEF m
<1>6. CASE ~ (i = 0 /\ Len(s) < MaxContacts) /\ ~ (i # 0 /\ row.ep # None)
  <2>1. m = p
    BY <1>1, <1>6
  <2> QED
    BY <2>1 DEF KeepsPlaces, SameRest, SameDialPlan
<1> QED
  BY <1>4, <1>5, <1>6

\* A row that cannot be read, or names the phone itself, is passed over.
LEMMA AddOneKeeps ==
  ASSUME NEW p \in Phones, NEW row \in CsvRow
  PROVE  KeepsPlaces(p, AddOne(p, row))
<1>1. CASE ~ row.valid \/ row.name = Self
  BY <1>1 DEF AddOne, KeepsPlaces, SameRest, SameDialPlan
<1>2. CASE ~ (~ row.valid \/ row.name = Self)
  <2>1. row.name \in Names
    BY <1>2 DEF CsvRow
  <2>2. AddOne(p, row) = Merge(p, row)
    BY <1>2, Zenon DEF AddOne
  <2> QED
    BY <2>1, <2>2, MergeKeeps
<1> QED
  BY <1>1, <1>2

\* Phonebook::add_batch.
LEMMA AddBatchKeeps ==
  ASSUME NEW p \in Phones, NEW rows \in Seq(CsvRow)
  PROVE  KeepsPlaces(p, AddBatch(p, rows))
<1> DEFINE last == IF Len(rows) < MaxContacts THEN Len(rows) ELSE MaxContacts
           added[k \in 0..last] == IF k = 0 THEN p ELSE AddOne(added[k - 1], rows[k])
           S == {q \in Phones : KeepsPlaces(p, q)}
           F == [k \in 1..last |-> [q \in S |-> AddOne(q, rows[k])]]
<1>1. last \in Nat /\ \A k \in 1..last : rows[k] \in CsvRow
  BY Sizes
<1>2. p \in S
  BY DEF KeepsPlaces, SameRest, SameDialPlan
<1> HIDE DEF last
<1>3. \A q \in S : \A k \in 1..last : AddOne(q, rows[k]) \in S
  <2> SUFFICES ASSUME NEW q \in S, NEW k \in 1..last
               PROVE  AddOne(q, rows[k]) \in S
    OBVIOUS
  <2>1. KeepsPlaces(q, AddOne(q, rows[k]))
    BY <1>1, AddOneKeeps
  <2>2. KeepsPlaces(p, AddOne(q, rows[k]))
    BY <2>1, PlacesTransitive
  <2> QED
    BY <2>1, <2>2 DEF KeepsPlaces
<1> HIDE DEF S
<1>4. F \in [1..last -> [S -> S]]
  BY <1>3
<1> HIDE DEF F
<1>5. PICK f : IsRun(f, last, S, p, F)
  BY <1>1, <1>2, <1>4, Iteration, Zenon
<1>6. f = [k \in 0..last |-> IF k = 0 THEN p ELSE AddOne(f[k - 1], rows[k])]
  <2>1. f \in [0..last -> S] /\ f[0] = p /\ \A k \in 1..last : f[k] = F[k][f[k - 1]]
    BY <1>5 DEF IsRun
  <2>2. ASSUME NEW k \in 1..last
        PROVE  f[k] = AddOne(f[k - 1], rows[k])
    <3>1. f[k - 1] \in S /\ f[k] = F[k][f[k - 1]]
      BY <1>1, <2>1
    <3> QED
      BY <3>1 DEF F
  <2> QED
    BY <1>1, <2>1, <2>2
<1>7. added = [k \in 0..last |-> IF k = 0 THEN p ELSE AddOne(added[k - 1], rows[k])]
  BY <1>6, Zenon
<1>8. AddBatch(p, rows) = added[last]
  BY Zenon DEF AddBatch, last
<1> HIDE DEF added
<1> DEFINE Done == {k \in 0..last : added[k] \in S}
<1>9. \A k \in 0..last : k \in Done
  <2>1. 0 \in Done
    BY <1>1, <1>2, <1>7
  <2>2. \A k \in 1..last : k - 1 \in Done => k \in Done
    BY <1>1, <1>3, <1>7
  <2> HIDE DEF Done
  <2> QED
    BY <1>1, <2>1, <2>2, Induction, Zenon
<1>10. added[last] \in S
  BY <1>1, <1>9
<1> QED
  BY <1>8, <1>10 DEF S

-----------------------------------------------------------------------------
(* Contacts that are counted and pruned. *)

\* Stays is a preorder.
LEMMA StaysTransitive ==
  ASSUME NEW p, NEW q, NEW r, Stays(p, q), Stays(q, r)
  PROVE  Stays(p, r)
<1>1. Routes(r) \subseteq Routes(q) /\ Routes(q) \subseteq Routes(p)
  BY Zenon DEF Stays
<1>2. /\ Selected(p).route \in Routes(q) => Selected(q).route = Selected(p).route
      /\ Selected(q).route \in Routes(r) => Selected(r).route = Selected(q).route
  BY Zenon DEF Stays
<1>3. Selected(p).route \in Routes(r) => Selected(r).route = Selected(p).route
  BY <1>1, <1>2
<1>4. Routes(r) \subseteq Routes(p)
  BY <1>1
<1> QED
  BY <1>3, <1>4, Zenon DEF Stays

\* What is counted of a contact is only how often it was missing.
LEMMA MissedEffect ==
  ASSUME NEW p, NEW e \in Contact
  PROVE  LET m == Missed(p, e) IN
         /\ m \in Contact /\ m.name = e.name /\ m.route = e.route /\ m.ep = e.ep
         /\ m.miss \in Nat
         /\ e.name \in p.seen => m.miss = 0
         /\ m.miss <= e.miss + 1
<1> DEFINE n == IF e.name \in p.seen THEN 0 ELSE OneMore(e.miss)
           m == Missed(p, e)
<1>1. e.miss \in 0..MaxMissing /\ e.miss \in Nat
  BY Sizes DEF Contact
<1>2. n \in 0..MaxMissing /\ n \in Nat /\ n <= e.miss + 1 /\ (e.name \in p.seen => n = 0)
  BY <1>1, Sizes DEF OneMore
<1>3. m = [e EXCEPT !.miss = n]
  BY DEF Missed
<1> HIDE DEF n, m
<1>4. m \in Contact /\ m.name = e.name /\ m.route = e.route /\ m.ep = e.ep /\ m.miss = n
  BY <1>2, <1>3 DEF Contact
<1> QED
  BY <1>2, <1>4 DEF m

\* Counting touches nothing else.
LEMMA CountEffect ==
  ASSUME NEW p \in Phones
  PROVE  LET q == Count(p) IN
         /\ KeepsPlaces(p, q) /\ Len(q.entries) = Len(p.entries)
         /\ DOMAIN q.entries = DOMAIN p.entries
         /\ \A i \in DOMAIN p.entries : q.entries[i] = Missed(p, p.entries[i])
<1> DEFINE s == p.entries
           t == [i \in DOMAIN s |-> Missed(p, s[i])]
           q == [p EXCEPT !.entries = t]
<1>1. /\ s \in Seq(Contact) /\ Len(s) \in Nat /\ DOMAIN s = 1..Len(s) /\ Len(s) <= MaxContacts
      /\ OneSlot(s) /\ (p.cursor <= Len(s) \/ p.cursor = 1)
      /\ \A i \in DOMAIN s : s[i] \in Contact
  BY PhoneFields
<1>2. \A i \in DOMAIN s : Missed(p, s[i]) \in Contact /\ Missed(p, s[i]).route = s[i].route
  BY <1>1, MissedEffect
<1>3. /\ t \in Seq(Contact) /\ Len(t) = Len(s) /\ DOMAIN t = DOMAIN s
      /\ \A i \in DOMAIN s : t[i] = Missed(p, s[i]) /\ t[i].route = s[i].route
  BY <1>1, <1>2
<1> HIDE DEF t
<1>4. OneSlot(t)
  BY <1>1, <1>3 DEF OneSlot
<1>5. q \in Phones /\ q.entries = t /\ q.cursor = p.cursor /\ SameRest(p, q)
  <2>1. Len(t) <= MaxContacts /\ (p.cursor <= Len(t) \/ p.cursor = 1)
    BY <1>1, <1>3
  <2> QED
    BY <1>3, <1>4, <2>1, Refilled, Zenon
<1>6. SubSeq(t, 1, Len(s)) = t
  <2> DEFINE u == SubSeq(t, 1, Len(s))
  <2>1. u \in Seq(Contact) /\ Len(u) = Len(s) /\ \A i \in 1..Len(s) : u[i] = t[i]
    BY <1>1, <1>3
  <2> HIDE DEF u
  <2>2. u = t
    BY <1>3, <2>1
  <2> QED
    BY <2>2 DEF u
<1>7. Count(p) = q
  BY <1>6, Zenon DEF Count, t
<1> HIDE DEF q
<1> QED
  BY <1>1, <1>3, <1>5, <1>7 DEF KeepsPlaces

\* What is left of c when some contacts that are stale have been removed.
Thinned(c, q) ==
    /\ q \in Phones /\ SameRest(c, q) /\ Stays(c, q)
    /\ q = c \/ Len(q.entries) < Len(c.entries)
    /\ Range(q.entries) \subseteq Range(c.entries)
    /\ Distinct(c) => \A e \in Range(c.entries) : e.miss < Threshold => e \in Range(q.entries)

\* One more may be removed.
LEMMA ThinnedStep ==
  ASSUME NEW c \in Phones, NEW q, Thinned(c, q), NEW k \in DOMAIN c.entries,
         c.entries[k].miss >= Threshold
  PROVE  Thinned(c, RemoveOne(q, c.entries[k].name))
<1> DEFINE x == c.entries[k].name
           r == RemoveOne(q, x)
<1>1. /\ q \in Phones /\ SameRest(c, q) /\ Stays(c, q)
      /\ q = c \/ Len(q.entries) < Len(c.entries)
      /\ Range(q.entries) \subseteq Range(c.entries)
      /\ Distinct(c) => \A e \in Range(c.entries) : e.miss < Threshold => e \in Range(q.entries)
  BY DEF Thinned
<1>2. /\ r \in Phones /\ SameRest(q, r) /\ Stays(q, r)
      /\ r = q \/ Len(r.entries) < Len(q.entries)
      /\ Range(r.entries) \subseteq Range(q.entries)
      /\ \A e \in Range(q.entries) : e.name # x => e \in Range(r.entries)
  <2> HIDE DEF x
  <2> QED
    BY <1>1, RemoveOneEffect
<1>3. c.entries[k] \in Contact /\ c.entries[k].miss \in Nat
  BY PhoneFields, Sizes DEF Contact
<1> HIDE DEF r
<1>4. SameRest(c, r)
  BY <1>1, <1>2 DEF SameRest, SameDialPlan
<1>5. Stays(c, r)
  BY <1>1, <1>2, StaysTransitive
<1>6. r = c \/ Len(r.entries) < Len(c.entries)
  <2>1. Len(c.entries) \in Nat /\ Len(q.entries) \in Nat /\ Len(r.entries) \in Nat
    BY <1>1, <1>2, PhoneFields
  <2> QED
    BY <1>1, <1>2, <2>1
<1>7. Range(r.entries) \subseteq Range(c.entries)
  BY <1>1, <1>2
<1>8. ASSUME Distinct(c), NEW e \in Range(c.entries), e.miss < Threshold
      PROVE  e \in Range(r.entries)
  <2>1. PICK i \in DOMAIN c.entries : e = c.entries[i]
    BY DEF Range
  <2>2. i # k
    BY <1>3, <1>8, <2>1, Sizes
  <2>3. e.name # x
    BY <1>8, <2>1, <2>2 DEF Distinct
  <2> QED
    BY <1>1, <1>2, <1>8, <2>3
<1> QED
  BY <1>2, <1>4, <1>5, <1>6, <1>7, <1>8 DEF Thinned, r

\* Phonebook::commit_cycle.
LEMMA PruneThins ==
  ASSUME NEW p \in Phones
  PROVE  Thinned(Count(p), Prune(p))
<1> DEFINE c == Count(p)
           all == Len(p.entries)
           pruned[k \in 0..all] ==
             IF k = 0 THEN c
             ELSE IF c.entries[k].miss >= Threshold
             THEN RemoveOne(pruned[k - 1], c.entries[k].name)
             ELSE pruned[k - 1]
<1>1. c \in Phones /\ all \in Nat /\ DOMAIN c.entries = 1..all
  BY CountEffect, PhoneFields DEF KeepsPlaces
<1>2. Prune(p) = IF Threshold = 0 THEN c ELSE pruned[all]
  BY Zenon DEF Prune
<1> HIDE DEF c, all
<1>3. Thinned(c, c)
  BY <1>1, Sizes DEF Thinned, SameRest, SameDialPlan, Stays
<1> DEFINE S == {q \in Phones : Thinned(c, q)}
           One(q, k) == IF c.entries[k].miss >= Threshold
                        THEN RemoveOne(q, c.entries[k].name) ELSE q
           F == [k \in 1..all |-> [q \in S |-> One(q, k)]]
<1>4. \A q \in S : \A k \in 1..all : One(q, k) \in S
  <2> SUFFICES ASSUME NEW q \in S, NEW k \in 1..all
               PROVE  One(q, k) \in S
    OBVIOUS
  <2>1. CASE c.entries[k].miss >= Threshold
    <3>1. Thinned(c, RemoveOne(q, c.entries[k].name))
      BY <1>1, <2>1, ThinnedStep
    <3>2. RemoveOne(q, c.entries[k].name) \in Phones
      BY <3>1, Zenon DEF Thinned
    <3> QED
      BY <2>1, <3>1, <3>2
  <2>2. CASE ~ (c.entries[k].miss >= Threshold)
    BY <2>2
  <2> QED
    BY <2>1, <2>2
<1>5. c \in S
  BY <1>1, <1>3
<1> HIDE DEF S
<1>6. F \in [1..all -> [S -> S]]
  <2> HIDE DEF One
  <2> QED
    BY <1>4
<1>7. PICK f : IsRun(f, all, S, c, F)
  <2> HIDE DEF F
  <2> QED
    BY <1>1, <1>5, <1>6, Iteration, Zenon
<1>8. f = [k \in 0..all |-> IF k = 0 THEN c ELSE One(f[k - 1], k)]
  <2> HIDE DEF One
  <2>1. f \in [0..all -> S] /\ f[0] = c /\ \A k \in 1..all : f[k] = F[k][f[k - 1]]
    BY <1>7 DEF IsRun
  <2>2. ASSUME NEW k \in 1..all
        PROVE  f[k] = One(f[k - 1], k)
    <3>1. f[k - 1] \in S /\ f[k] = F[k][f[k - 1]]
      BY <1>1, <2>1
    <3> QED
      BY <3>1 DEF F
  <2> QED
    BY <1>1, <2>1, <2>2
<1>9. pruned = [k \in 0..all |-> IF k = 0 THEN c ELSE One(pruned[k - 1], k)]
  BY <1>8, Zenon
<1> HIDE DEF pruned
<1> DEFINE Done == {k \in 0..all : pruned[k] \in S}
<1>10. \A k \in 0..all : k \in Done
  <2> HIDE DEF One
  <2>1. 0 \in Done
    BY <1>1, <1>5, <1>9
  <2>2. \A k \in 1..all : k - 1 \in Done => k \in Done
    BY <1>1, <1>4, <1>9
  <2> HIDE DEF Done
  <2> QED
    BY <1>1, <2>1, <2>2, Induction, Zenon
<1>11. pruned[all] \in S
  BY <1>1, <1>10
<1> HIDE DEF One, Done, F
<1> QED
  BY <1>2, <1>3, <1>11 DEF S, c

\* What pruning does, said of the phonebook before it was counted.
LEMMA PruneEffect ==
  ASSUME NEW p \in Phones
  PROVE  LET q == Prune(p) IN
         /\ q \in Phones /\ SameRest(p, q) /\ Stays(p, q)
         /\ Len(q.entries) = Len(p.entries) => q = Count(p)
         /\ p.active /\ Distinct(p) =>
              \A i \in DOMAIN p.entries :
                 ~ Due(p, p.entries[i]) => p.entries[i].route \in Routes(q)
<1> DEFINE c == Count(p)
           q == Prune(p)
<1>1. /\ KeepsPlaces(p, c) /\ Len(c.entries) = Len(p.entries) /\ DOMAIN c.entries = DOMAIN p.entries
      /\ \A i \in DOMAIN p.entries : c.entries[i] = Missed(p, p.entries[i])
  BY CountEffect
<1>2. Thinned(c, q)
  BY PruneThins
<1>3. Threshold = 0 => q = c
  BY DEF Prune
<1> HIDE DEF c, q
<1>4. c \in Phones /\ SameRest(p, c) /\ c.cursor = p.cursor
  BY <1>1, Zenon DEF KeepsPlaces
<1>5. \A i \in DOMAIN p.entries : p.entries[i] \in Contact /\ p.entries[i].miss \in Nat
  BY PhoneFields, Sizes DEF Contact
<1>6. \A i \in DOMAIN p.entries :
        /\ c.entries[i].name = p.entries[i].name /\ c.entries[i].route = p.entries[i].route
        /\ p.entries[i].name \in p.seen => c.entries[i].miss = 0
        /\ c.entries[i].miss <= p.entries[i].miss + 1 /\ c.entries[i].miss \in Nat
  BY <1>1, <1>5, MissedEffect
<1>7. q \in Phones /\ SameRest(p, q)
  BY <1>2, <1>4 DEF Thinned, SameRest, SameDialPlan
<1>8. Stays(p, c)
  <2>1. Routes(c) = Routes(p)
    BY <1>1, <1>6 DEF Routes
  <2>2. CASE \E i : i \in DOMAIN p.entries
    BY <1>1, <2>1, <2>2, PlacesKeepSelection DEF Stays
  <2>3. CASE ~ \E i : i \in DOMAIN p.entries
    BY <2>1, <2>3, SelectedFacts DEF Stays
  <2> QED
    BY <2>2, <2>3
<1>9. Stays(p, q)
  BY <1>2, <1>8, StaysTransitive DEF Thinned
<1>10. Len(q.entries) = Len(p.entries) => q = c
  <2>1. Len(q.entries) \in Nat /\ Len(c.entries) \in Nat
    BY <1>4, <1>7, PhoneFields
  <2>2. q = c \/ Len(q.entries) < Len(c.entries)
    BY <1>2 DEF Thinned
  <2> QED
    BY <1>1, <2>1, <2>2
<1>11. ASSUME p.active, Distinct(p), NEW i \in DOMAIN p.entries, ~ Due(p, p.entries[i])
       PROVE  p.entries[i].route \in Routes(q)
  <2>1. CASE Threshold = 0
    BY <1>1, <1>3, <1>6, <2>1 DEF Routes
  <2>2. CASE Threshold # 0
    <3>1. Distinct(c)
      BY <1>1, <1>6, <1>11 DEF Distinct
    <3>2. c.entries[i].miss < Threshold
      <4>1. p.entries[i].name \in p.seen \/ ~ (p.entries[i].miss + 1 >= Threshold)
        BY <1>11 DEF Due
      <4>2. p.entries[i].miss \in Nat /\ c.entries[i].miss \in Nat /\ Threshold \in Nat
            /\ c.entries[i].miss <= p.entries[i].miss + 1
            /\ (p.entries[i].name \in p.seen => c.entries[i].miss = 0)
        BY <1>5, <1>6, Sizes
      <4> QED
        BY <2>2, <4>1, <4>2
    <3>3. c.entries[i] \in Range(c.entries)
      BY <1>1 DEF Range
    <3>4. c.entries[i] \in Range(q.entries)
      BY <1>2, <3>1, <3>2, <3>3, Zenon DEF Thinned
    <3>5. PICK j \in DOMAIN q.entries : q.entries[j] = c.entries[i]
      BY <3>4 DEF Range
    <3> QED
      BY <1>6, <3>5 DEF Routes
  <2> QED
    BY <2>1, <2>2
<1> QED
  BY <1>7, <1>9, <1>10, <1>11 DEF c, q

-----------------------------------------------------------------------------
(* What is shown. *)

\* ShownDestination, of any phone.
Shows(p) == (p.call.state = "IDLE" /\ Distinct(p) /\ ~ p.refused) => p.shown = Destination(p)

\* Only what is shown differs.
OnlyShown(p, q) ==
    /\ q.entries = p.entries /\ q.cursor = p.cursor /\ q.active = p.active /\ q.late = p.late
    /\ q.seen = p.seen /\ q.ha = p.ha /\ q.picked = p.picked /\ q.looping = p.looping
    /\ q.pending = p.pending /\ q.call = p.call /\ q.tried = p.tried /\ q.redial = p.redial
    /\ q.reason = p.reason /\ q.last = p.last /\ q.asked = p.asked

\* Selected, Routes and Distinct depend on the contacts and the cursor alone.
LEMMA SameBook ==
  ASSUME NEW p, NEW q, q.entries = p.entries, q.cursor = p.cursor
  PROVE  Selected(q) = Selected(p) /\ Routes(q) = Routes(p) /\ (Distinct(q) <=> Distinct(p))
<1>1. Selected(q) = Selected(p)
  BY DEF Selected
<1>2. Routes(q) = Routes(p)
  BY DEF Routes
<1>3. Distinct(q) <=> Distinct(p)
  BY DEF Distinct
<1> QED
  BY <1>1, <1>2, <1>3

\* There is always something to show.
LEMMA DestinationType ==
  ASSUME NEW p \in Phones
  PROVE  Destination(p) \in Shown /\ Selected(p).name \in Names \cup {None}
         /\ Selected(p).ep \in Endpoints \cup {None}
<1>1. p.pending \in Names \cup {None} /\ p.call.dest \in Shown /\ p.last \in Shown
  BY DEF Phones, PhoneType, CallType
<1>2. Selected(p).name \in Names \cup {None} /\ Selected(p).ep \in Endpoints \cup {None}
  <2>1. CASE p.entries = <<>>
    BY <2>1, SelectedFacts
  <2>2. CASE p.entries # <<>>
    <3>1. Selected(p) \in Contact
      BY <2>2, SelectedFacts
    <3> QED
      BY <3>1 DEF Contact
  <2> QED
    BY <2>1, <2>2
<1> QED
  BY <1>1, <1>2 DEF Destination, Shown

\* publish_destination_.
LEMMA PublishEffect ==
  ASSUME NEW p \in Phones
  PROVE  LET q == Publish(p) IN
         q \in Phones /\ OnlyShown(p, q) /\ Shows(q) /\ q.shown = Destination(p)
<1> DEFINE r == [p EXCEPT !.shown = Destination(p)]
           q == [r EXCEPT !.refused = FALSE]
<1>1. p \in PhoneType
  BY DEF Phones
<1>2. r \in PhoneType
  BY <1>1, DestinationType DEF PhoneType
<1>3. OnlyShown(p, r)
  BY <1>1 DEF PhoneType, OnlyShown
<1>4. r.shown = Destination(p)
  BY <1>1 DEF PhoneType
<1> HIDE DEF r
<1>5. q \in PhoneType
  BY <1>2, Zenon DEF PhoneType
<1>6. OnlyShown(r, q)
  BY <1>2 DEF PhoneType, OnlyShown
<1>7. q.shown = Destination(p)
  BY <1>2, <1>4 DEF PhoneType
<1>8. q = Publish(p)
  BY DEF Publish, r
<1> HIDE DEF q
<1>9. OnlyShown(p, q)
  BY <1>3, <1>6 DEF OnlyShown
<1>10. q \in Phones
  BY <1>5, <1>9 DEF Phones, OnlyShown
<1>11. Destination(q) = Destination(p)
  <2>1. Selected(q) = Selected(p)
    BY <1>9, SameBook DEF OnlyShown
  <2> QED
    BY <1>9, <2>1 DEF Destination, OnlyShown
<1> QED
  BY <1>7, <1>8, <1>9, <1>10, <1>11 DEF Shows

\* Everything but the cursor, whether Home Assistant was selected, and what is
\* shown.
SameCycle(p, q) ==
    /\ q.active = p.active /\ q.late = p.late /\ q.looping = p.looping
    /\ q.pending = p.pending /\ q.call = p.call /\ q.tried = p.tried /\ q.redial = p.redial
    /\ q.reason = p.reason /\ q.last = p.last /\ q.asked = p.asked

\* maybe_auto_select_ha_first_.
LEMMA AutoSelectEffect ==
  ASSUME NEW p \in Phones
  PROVE  LET q == AutoSelect(p) IN
         /\ q \in Phones /\ q.entries = p.entries /\ SameCycle(p, q)
         /\ ~ PicksHa(p) => q = p
         /\ PicksHa(p) => ~ p.picked /\ q.picked
<1>1. CASE ~ PicksHa(p)
  BY <1>1 DEF AutoSelect, SameCycle
<1>2. CASE PicksHa(p)
  <2> DEFINE r == Select(p, p.ha)
             q == [r EXCEPT !.picked = TRUE]
  <2>1. r \in Phones /\ r \in PhoneType /\ r.entries = p.entries /\ SameRest(p, r)
    BY SelectEffect DEF Phones
  <2> HIDE DEF r
  <2>2. q \in PhoneType
    BY <2>1, Zenon DEF PhoneType
  <2>3. q.entries = r.entries /\ q.cursor = r.cursor /\ q.picked = TRUE /\ SameCycle(r, q)
    BY <2>1 DEF PhoneType, SameCycle
  <2>4. AutoSelect(p) = q
    BY <1>2, Zenon DEF AutoSelect, r
  <2> HIDE DEF q
  <2>5. q \in Phones
    BY <2>1, <2>2, <2>3 DEF Phones
  <2>6. SameCycle(p, q)
    BY <2>1, <2>3 DEF SameRest, SameDialPlan, SameCycle
  <2>7. ~ p.picked
    BY <1>2 DEF PicksHa
  <2> QED
    BY <1>2, <2>1, <2>3, <2>4, <2>5, <2>6, <2>7
<1> QED
  BY <1>1, <1>2

-----------------------------------------------------------------------------
(* Sources. *)

\* q is p after a source rearranged its contacts: whoever was selected and is
\* still there is selected, and a source that changes nothing keeps the name
\* that is selected, too.
Sourced(p, q) ==
    /\ q \in Phones /\ SameDialPlan(p, q)
    /\ q.active = p.active /\ q.late = p.late /\ q.picked = p.picked /\ q.looping = p.looping
    /\ Distinct(q) /\ Selected(p).route \in Routes(q) => Selected(q).route = Selected(p).route
    /\ SameEntries(p, q) /\ Distinct(q) => Distinct(p) /\ Selected(q).name = Selected(p).name

\* r is p after a source was read.
Updated(p, r) ==
    /\ r \in Phones
    /\ r.active = p.active /\ r.late = p.late /\ r.looping = p.looping
    /\ r.call = p.call /\ r.asked = p.asked
    /\ p.picked => r.picked
    /\ Distinct(r) /\ Selected(p).route \in Routes(r) =>
         Selected(r).route = Selected(p).route \/ r.picked # p.picked
    /\ Shows(p) => Shows(r)

\* What SameEntries says, contact by contact.
LEMMA SameEntriesFacts ==
  ASSUME NEW p, NEW q, SameEntries(p, q)
  PROVE  /\ DOMAIN q.entries = DOMAIN p.entries
         /\ \A i \in DOMAIN p.entries :
               /\ q.entries[i].name = p.entries[i].name
               /\ q.entries[i].route = p.entries[i].route
<1> DEFINE Shape(r) == [i \in DOMAIN r.entries |->
                          <<r.entries[i].name, r.entries[i].route, r.entries[i].ep>>]
<1>1. Shape(p) = Shape(q)
  BY Zenon DEF SameEntries
<1>2. DOMAIN Shape(p) = DOMAIN p.entries /\ DOMAIN Shape(q) = DOMAIN q.entries
  OBVIOUS
<1>3. DOMAIN q.entries = DOMAIN p.entries
  BY <1>1, <1>2
<1>4. ASSUME NEW i \in DOMAIN p.entries
      PROVE  /\ q.entries[i].name = p.entries[i].name
             /\ q.entries[i].route = p.entries[i].route
  <2>1. Shape(p)[i] = Shape(q)[i]
    <3> HIDE DEF Shape
    <3> QED
      BY <1>1, Zenon
  <2>2. /\ Shape(p)[i] = <<p.entries[i].name, p.entries[i].route, p.entries[i].ep>>
        /\ Shape(q)[i] = <<q.entries[i].name, q.entries[i].route, q.entries[i].ep>>
    BY <1>3
  <2> HIDE DEF Shape
  <2>3. <<p.entries[i].name, p.entries[i].route, p.entries[i].ep>>
          = <<q.entries[i].name, q.entries[i].route, q.entries[i].ep>>
    BY <2>1, <2>2, Zenon
  <2> QED
    BY <2>3
<1> QED
  BY <1>3, <1>4

\* Names and routes decide whether contacts are distinct.
LEMMA SameDistinct ==
  ASSUME NEW p, NEW q, SameEntries(p, q), Distinct(q)
  PROVE  Distinct(p)
  BY SameEntriesFacts DEF Distinct

\* After a source was read, Home Assistant may be selected, and what is shown
\* is published if anything changed.
LEMMA SourceRead ==
  ASSUME NEW p \in Phones, NEW q, Sourced(p, q)
  PROVE  Updated(p, PublishIf(AutoSelect(q), ~ SameEntries(p, q) \/ PicksHa(q)))
<1> DEFINE a == AutoSelect(q)
           changed == ~ SameEntries(p, q) \/ PicksHa(q)
           r == PublishIf(a, changed)
<1>1. /\ q \in Phones /\ SameDialPlan(p, q)
      /\ q.active = p.active /\ q.late = p.late /\ q.picked = p.picked /\ q.looping = p.looping
      /\ Distinct(q) /\ Selected(p).route \in Routes(q) => Selected(q).route = Selected(p).route
      /\ SameEntries(p, q) /\ Distinct(q) => Distinct(p) /\ Selected(q).name = Selected(p).name
  BY DEF Sourced
<1>2. /\ a \in Phones /\ a.entries = q.entries /\ SameCycle(q, a)
      /\ ~ PicksHa(q) => a = q
      /\ PicksHa(q) => ~ q.picked /\ a.picked
  BY <1>1, AutoSelectEffect
<1> HIDE DEF a
<1>3. r \in Phones /\ r.entries = a.entries /\ r.cursor = a.cursor /\ r.picked = a.picked
      /\ SameCycle(a, r)
  <2>1. CASE changed
    <3>1. r = Publish(a)
      BY <2>1 DEF PublishIf
    <3> HIDE DEF r
    <3> QED
      BY <1>2, <3>1, PublishEffect DEF OnlyShown, SameCycle
  <2>2. CASE ~ changed
    <3>1. r = a
      BY <2>2 DEF PublishIf
    <3> QED
      BY <1>2, <3>1 DEF SameCycle
  <2> HIDE DEF changed, r
  <2> QED
    BY <2>1, <2>2
<1>4. ASSUME Shows(p)
      PROVE  Shows(r)
  <2>1. CASE changed
    <3>1. r = Publish(a)
      BY <2>1 DEF PublishIf
    <3> QED
      BY <1>2, <3>1, PublishEffect
  <2>2. CASE ~ changed
    <3>1. r = q /\ SameEntries(p, q)
      BY <1>2, <2>2 DEF PublishIf
    <3>2. SUFFICES ASSUME q.call.state = "IDLE", Distinct(q), ~ q.refused
                   PROVE  q.shown = Destination(q)
      BY <3>1 DEF Shows
    <3>3. Distinct(p) /\ Selected(q).name = Selected(p).name
      BY <1>1, <3>1, <3>2
    <3>4. Destination(q) = Destination(p)
      BY <1>1, <3>3 DEF Destination, SameDialPlan
    <3> QED
      BY <1>1, <1>4, <3>2, <3>3, <3>4 DEF Shows, SameDialPlan
  <2> HIDE DEF changed, r
  <2> QED
    BY <2>1, <2>2
<1> HIDE DEF r, changed
<1>5. /\ r.active = p.active /\ r.late = p.late /\ r.looping = p.looping
      /\ r.call = p.call /\ r.asked = p.asked
  BY <1>1, <1>2, <1>3 DEF SameCycle, SameDialPlan
<1>6. p.picked => r.picked
  <2>1. CASE PicksHa(q)
    BY <1>2, <1>3, <2>1, Zenon
  <2>2. CASE ~ PicksHa(q)
    BY <1>1, <1>2, <1>3, <2>2, Zenon
  <2> QED
    BY <2>1, <2>2
<1>7. ASSUME Distinct(r), Selected(p).route \in Routes(r), r.picked = p.picked
      PROVE  Selected(r).route = Selected(p).route
  <2>1. ~ PicksHa(q)
    BY <1>1, <1>2, <1>3, <1>7
  <2>2. r.entries = q.entries /\ r.cursor = q.cursor
    BY <1>2, <1>3, <2>1
  <2>3. Selected(r) = Selected(q) /\ Routes(r) = Routes(q) /\ Distinct(q)
    BY <1>7, <2>2, SameBook
  <2> QED
    BY <1>1, <1>7, <2>3
<1> QED
  BY <1>3, <1>4, <1>5, <1>6, <1>7 DEF Updated, r, a, changed

-----------------------------------------------------------------------------
(* Sources of contacts. *)

\* Only yields elements of s, those at the places asked for.
LEMMA OnlyType ==
  ASSUME NEW T, NEW s \in Seq(T), NEW I, NEW U, \A i \in DOMAIN s : i \in I => s[i] \in U
  PROVE  Only(s, I) \in Seq(U)
<1> DEFINE n == Len(s)
           only[k \in 0..n] ==
             IF k = 0 THEN <<>>
             ELSE IF k \in I THEN Append(only[k - 1], s[k]) ELSE only[k - 1]
           S == Seq(U)
           One(q, k) == IF k \in I THEN Append(q, s[k]) ELSE q
           F == [k \in 1..n |-> [q \in S |-> One(q, k)]]
<1>1. n \in Nat /\ \A k \in 1..n : k \in I => s[k] \in U
  OBVIOUS
<1>2. Only(s, I) = only[n]
  BY Zenon DEF Only
<1> HIDE DEF n
<1>3. \A q \in S : \A k \in 1..n : One(q, k) \in S
  BY <1>1
<1>4. <<>> \in S
  OBVIOUS
<1> HIDE DEF S
<1>5. F \in [1..n -> [S -> S]]
  <2> HIDE DEF One
  <2> QED
    BY <1>3
<1>6. PICK f : IsRun(f, n, S, <<>>, F)
  <2> HIDE DEF F
  <2> QED
    BY <1>1, <1>4, <1>5, Iteration, Zenon
<1>7. f = [k \in 0..n |-> IF k = 0 THEN <<>> ELSE One(f[k - 1], k)]
  <2> HIDE DEF One
  <2>1. f \in [0..n -> S] /\ f[0] = <<>> /\ \A k \in 1..n : f[k] = F[k][f[k - 1]]
    BY <1>6 DEF IsRun
  <2>2. ASSUME NEW k \in 1..n
        PROVE  f[k] = One(f[k - 1], k)
    <3>1. f[k - 1] \in S /\ f[k] = F[k][f[k - 1]]
      BY <1>1, <2>1
    <3> QED
      BY <3>1 DEF F
  <2> QED
    BY <1>1, <2>1, <2>2
<1>8. only = [k \in 0..n |-> IF k = 0 THEN <<>> ELSE One(only[k - 1], k)]
  BY <1>7, Zenon
<1> HIDE DEF only
<1> DEFINE Done == {k \in 0..n : only[k] \in S}
<1>9. \A k \in 0..n : k \in Done
  <2> HIDE DEF One
  <2>1. 0 \in Done
    BY <1>1, <1>4, <1>8
  <2>2. \A k \in 1..n : k - 1 \in Done => k \in Done
    BY <1>1, <1>3, <1>8
  <2> HIDE DEF Done
  <2> QED
    BY <1>1, <2>1, <2>2, Induction, Zenon
<1>10. only[n] \in S
  BY <1>1, <1>9
<1> QED
  BY <1>2, <1>10 DEF S

\* normalize_phonebook_for_transport_ returns rows it was given.
LEMMA NormalizedType ==
  ASSUME NEW rows \in Seq(CsvRow)
  PROVE  Normalized(rows) \in Seq(CsvRow)
<1> DEFINE good == Only(rows, {i \in DOMAIN rows : rows[i].valid})
<1>1. good \in Seq(CsvRow)
  <2>1. \A i \in DOMAIN rows : rows[i] \in CsvRow
    OBVIOUS
  <2> QED
    BY <2>1, OnlyType
<1>2. Normalized(rows) = IF good = <<>> THEN rows ELSE good
  BY Zenon DEF Normalized
<1> HIDE DEF good
<1> QED
  BY <1>1, <1>2

\* Names that a source mentions are remembered, and nothing else changes.
LEMMA TrackedEffect ==
  ASSUME NEW p \in Phones, NEW rows \in Seq(CsvRow)
  PROVE  LET q == Tracked(p, rows) IN
         /\ q \in Phones /\ q.entries = p.entries /\ q.cursor = p.cursor /\ SameDialPlan(p, q)
         /\ q.active = p.active /\ q.late = p.late /\ q.picked = p.picked /\ q.looping = p.looping
<1>1. CASE ~ p.active
  BY <1>1 DEF Tracked, SameDialPlan
<1>2. CASE p.active
  <2> DEFINE N == p.seen \cup {rows[i].name : i \in DOMAIN rows}
             q == [p EXCEPT !.seen = N]
  <2>1. N \in SUBSET (Names \cup {Self}) /\ p \in PhoneType
    <3>1. \A i \in DOMAIN rows : rows[i] \in CsvRow
      OBVIOUS
    <3> QED
      BY <3>1 DEF CsvRow, Phones, PhoneType
  <2>2. Tracked(p, rows) = q
    BY <1>2 DEF Tracked
  <2> HIDE DEF N
  <2>3. q \in PhoneType
    BY <2>1, Zenon DEF PhoneType
  <2>4. /\ q.entries = p.entries /\ q.cursor = p.cursor
        /\ q.active = p.active /\ q.late = p.late /\ q.picked = p.picked /\ q.looping = p.looping
    BY <2>1 DEF PhoneType
  <2>5. SameDialPlan(p, q)
    BY <2>1 DEF PhoneType, SameDialPlan
  <2> HIDE DEF q
  <2>6. q \in Phones
    BY <2>3, <2>4 DEF Phones
  <2> QED
    BY <2>2, <2>4, <2>5, <2>6
<1> QED
  BY <1>1, <1>2

\* With the same contacts and cursor the same name is selected.
LEMMA SameSelection ==
  ASSUME NEW p \in Phones, NEW q \in Phones, SameEntries(p, q),
         (\E i : i \in DOMAIN p.entries) => q.cursor = p.cursor
  PROVE  Selected(q).name = Selected(p).name
<1>1. /\ DOMAIN q.entries = DOMAIN p.entries
      /\ \A i \in DOMAIN p.entries : q.entries[i].name = p.entries[i].name
  BY SameEntriesFacts
<1>2. CASE \E i : i \in DOMAIN p.entries
  <2>1. p.cursor \in DOMAIN p.entries /\ Selected(p) = p.entries[p.cursor]
    BY <1>2, SelectedFacts
  <2>2. Selected(q) = q.entries[q.cursor]
    BY <1>1, <1>2, SelectedFacts
  <2> QED
    BY <1>1, <1>2, <2>1, <2>2
<1>3. CASE ~ \E i : i \in DOMAIN p.entries
  <2>1. p.entries = <<>> /\ q.entries = <<>>
    BY <1>1, <1>3, SelectedFacts
  <2> QED
    BY <2>1, SelectedFacts
<1> QED
  BY <1>2, <1>3

\* A batch is read as Sourced says.
LEMMA BatchSourced ==
  ASSUME NEW p \in Phones, NEW t \in Phones, t.entries = p.entries, t.cursor = p.cursor,
         SameDialPlan(p, t), t.active = p.active, t.late = p.late, t.picked = p.picked,
         t.looping = p.looping, NEW q, KeepsPlaces(t, q)
  PROVE  Sourced(p, q)
<1>1. /\ q \in Phones /\ SameRest(t, q) /\ q.cursor = p.cursor
  BY Zenon DEF KeepsPlaces
<1>2. SameDialPlan(p, q)
  BY <1>1 DEF SameRest, SameDialPlan
<1>3. q.active = p.active /\ q.late = p.late /\ q.picked = p.picked /\ q.looping = p.looping
  BY <1>1 DEF SameRest
<1>4. Selected(t) = Selected(p)
  BY SameBook
<1>5. ASSUME Selected(p).route \in Routes(q)
      PROVE  Selected(q).route = Selected(p).route
  <2>1. p.entries # <<>>
    BY <1>1, <1>5, SelectedFacts
  <2>2. \E i : i \in DOMAIN t.entries
    BY <2>1, SelectedFacts
  <2> QED
    BY <1>4, <2>2, PlacesKeepSelection
<1>6. ASSUME SameEntries(p, q), Distinct(q)
      PROVE  Distinct(p) /\ Selected(q).name = Selected(p).name
  BY <1>1, <1>6, SameDistinct, SameSelection
<1> QED
  BY <1>1, <1>2, <1>3, <1>5, <1>6 DEF Sourced

\* Contacts that only add_contact or remove_contact changes.
LEMMA Refreshed ==
  ASSUME NEW p \in Phones, NEW q, Sourced(p, q)
  PROVE  Updated(p, PublishIf(q, ~ SameEntries(p, q)))
<1> DEFINE r == PublishIf(q, ~ SameEntries(p, q))
<1>1. /\ q \in Phones /\ SameDialPlan(p, q)
      /\ q.active = p.active /\ q.late = p.late /\ q.picked = p.picked /\ q.looping = p.looping
      /\ Distinct(q) /\ Selected(p).route \in Routes(q) => Selected(q).route = Selected(p).route
      /\ SameEntries(p, q) /\ Distinct(q) => Distinct(p) /\ Selected(q).name = Selected(p).name
  BY DEF Sourced
<1>2. CASE ~ SameEntries(p, q)
  <2>1. r = Publish(q)
    BY <1>2 DEF PublishIf
  <2>2. r \in Phones /\ OnlyShown(q, r) /\ Shows(r)
    BY <1>1, <2>1, PublishEffect
  <2> HIDE DEF r
  <2>3. Selected(r) = Selected(q) /\ Routes(r) = Routes(q) /\ (Distinct(r) <=> Distinct(q))
    BY <2>2, SameBook DEF OnlyShown
  <2>4. /\ r.active = p.active /\ r.late = p.late /\ r.looping = p.looping
        /\ r.call = p.call /\ r.asked = p.asked /\ r.picked = p.picked
    BY <1>1, <2>2 DEF OnlyShown, SameDialPlan
  <2> QED
    BY <1>1, <2>2, <2>3, <2>4 DEF Updated, r
<1>3. CASE SameEntries(p, q)
  <2>1. r = q
    BY <1>3 DEF PublishIf
  <2>2. ASSUME Shows(p)
        PROVE  Shows(q)
    <3> SUFFICES ASSUME q.call.state = "IDLE", Distinct(q), ~ q.refused
                 PROVE  q.shown = Destination(q)
      BY DEF Shows
    <3>1. Distinct(p) /\ Selected(q).name = Selected(p).name
      BY <1>1, <1>3
    <3>2. Destination(q) = Destination(p)
      BY <1>1, <3>1 DEF Destination, SameDialPlan
    <3> QED
      BY <1>1, <2>2, <3>1, <3>2 DEF Shows, SameDialPlan
  <2> QED
    BY <1>1, <2>1, <2>2 DEF Updated, SameDialPlan
<1> QED
  BY <1>2, <1>3

\* Removing one contact is a change of that kind, too.
LEMMA RemovalSourced ==
  ASSUME NEW p \in Phones, NEW x
  PROVE  Sourced(p, RemoveOne(p, x))
<1> DEFINE q == RemoveOne(p, x)
<1>1. /\ q \in Phones /\ SameRest(p, q) /\ Stays(p, q)
      /\ q = p \/ Len(q.entries) < Len(p.entries)
  BY RemoveOneEffect
<1> HIDE DEF q
<1>2. SameDialPlan(p, q)
  BY <1>1, Zenon DEF SameRest
<1>3. q.active = p.active /\ q.late = p.late /\ q.picked = p.picked /\ q.looping = p.looping
  BY <1>1 DEF SameRest
<1>4. Selected(p).route \in Routes(q) => Selected(q).route = Selected(p).route
  BY <1>1, Zenon DEF Stays
<1>5. SameEntries(p, q) => q = p
  <2>1. SameEntries(p, q) => DOMAIN q.entries = DOMAIN p.entries
    BY SameEntriesFacts
  <2>2. /\ DOMAIN q.entries = 1..Len(q.entries) /\ DOMAIN p.entries = 1..Len(p.entries)
        /\ Len(q.entries) \in Nat /\ Len(p.entries) \in Nat
    BY <1>1, PhoneFields
  <2> QED
    BY <1>1, <2>1, <2>2
<1>6. Distinct(q) /\ q = p => Distinct(p) /\ Selected(q).name = Selected(p).name
  OBVIOUS
<1> QED
  BY <1>1, <1>2, <1>3, <1>4, <1>5, <1>6 DEF Sourced, q

\* set_contacts with a CSV list.
LEMMA CsvUpdates ==
  ASSUME NEW p \in Phones, NEW rows \in Seq(CsvRow)
  PROVE  Updated(p, SetContactsCsv(p, rows))
<1> DEFINE n == Normalized(rows)
           t == Tracked(p, n)
           q == AddBatch(t, n)
<1>1. n \in Seq(CsvRow)
  BY NormalizedType
<1>2. SetContactsCsv(p, rows) = PublishIf(AutoSelect(q), ~ SameEntries(p, q) \/ PicksHa(q))
  BY Zenon DEF SetContactsCsv
<1> HIDE DEF n
<1>3. /\ t \in Phones /\ t.entries = p.entries /\ t.cursor = p.cursor /\ SameDialPlan(p, t)
      /\ t.active = p.active /\ t.late = p.late /\ t.picked = p.picked /\ t.looping = p.looping
  BY <1>1, TrackedEffect
<1> HIDE DEF t
<1>4. KeepsPlaces(t, q)
  BY <1>1, <1>3, AddBatchKeeps
<1> HIDE DEF q
<1>5. Sourced(p, q)
  BY <1>3, <1>4, BatchSourced
<1> QED
  BY <1>2, <1>5, SourceRead

\* add_contact.
LEMMA AddContactUpdates ==
  ASSUME NEW p \in Phones, NEW row \in CsvRow
  PROVE  LET q == AddBatch(p, Normalized(<<row>>)) IN
         Updated(p, PublishIf(q, ~ SameEntries(p, q)))
<1> DEFINE rows == <<row>>
           q == AddBatch(p, Normalized(rows))
<1>1. Normalized(rows) \in Seq(CsvRow)
  <2>1. rows \in Seq(CsvRow)
    OBVIOUS
  <2> HIDE DEF rows
  <2> QED
    BY <2>1, NormalizedType
<1>2. KeepsPlaces(p, q)
  <2> HIDE DEF rows
  <2> QED
    BY <1>1, AddBatchKeeps
<1> HIDE DEF q
<1>3. Sourced(p, q)
  <2>1. SameDialPlan(p, p)
    BY DEF SameDialPlan
  <2> QED
    BY <1>2, <2>1, BatchSourced
<1> QED
  BY <1>3, Refreshed DEF q

\* Contacts that fit.
Lists == {s \in Seq(Contact) : Len(s) <= MaxContacts /\ OneSlot(s)}

\* A row of a source that replaces all contacts.
Listed == [name : Names, route : Names, ep : Endpoints \cup {None}]

\* The last row of a route wins.
LEMMA PutType ==
  ASSUME NEW s \in Lists, Len(s) < MaxContacts, NEW e \in Contact
  PROVE  Put(s, e) \in Lists
<1> DEFINE I == {j \in 1..Len(s) : s[j].route = e.route}
           i == First(I)
<1>1. Put(s, e) = IF i = 0 THEN Append(s, e) ELSE [s EXCEPT ![i] = e]
  BY Zenon DEF Put, SelectInSeq, First
<1>2. s \in Seq(Contact) /\ Len(s) \in Nat /\ DOMAIN s = 1..Len(s) /\ OneSlot(s)
  BY DEF Lists
<1>3. i \in 0..Len(s) /\ (i # 0 => i \in I) /\ (i = 0 => \A j : j \notin I)
  <2>1. I \subseteq 1..Len(s)
    OBVIOUS
  <2> HIDE DEF I
  <2> QED
    BY <1>2, <2>1, FirstPlace, Zenon
<1>4. /\ \A j \in DOMAIN s : s[j].route = e.route => j \in I
      /\ \A j \in I : j \in DOMAIN s /\ s[j].route = e.route
  BY <1>2
<1> HIDE DEF I, i
<1>5. CASE i = 0
  <2>1. \A j \in DOMAIN s : s[j].route # e.route
    BY <1>3, <1>4, <1>5
  <2>2. LET t == Append(s, e) IN t \in Seq(Contact) /\ Len(t) = Len(s) + 1 /\ OneSlot(t)
    BY <1>2, <2>1, AppendSlot
  <2> QED
    BY <1>1, <1>2, <1>5, <2>2, Sizes DEF Lists
<1>6. CASE i # 0
  <2>1. i \in DOMAIN s /\ s[i].route = e.route
    BY <1>3, <1>4, <1>6
  <2>2. LET t == [s EXCEPT ![i] = e] IN t \in Seq(Contact) /\ Len(t) = Len(s) /\ OneSlot(t)
    BY <1>2, <2>1, UpdateSlot, Zenon
  <2> QED
    BY <1>1, <1>2, <1>6, <2>2 DEF Lists
<1> QED
  BY <1>5, <1>6

\* There is a slot for each route, as far as they fit.
LEMMA NewContactsType ==
  ASSUME NEW rows \in Seq(Listed)
  PROVE  NewContacts(rows) \in Lists
<1> DEFINE Fresh(row) == [name |-> row.name, route |-> row.route, ep |-> row.ep, miss |-> 0]
           n == Len(rows)
           put[k \in 0..n] ==
             IF k = 0 THEN <<>>
             ELSE IF Len(put[k - 1]) >= MaxContacts THEN put[k - 1]
             ELSE Put(put[k - 1], Fresh(rows[k]))
           One(s, k) == IF Len(s) >= MaxContacts THEN s ELSE Put(s, Fresh(rows[k]))
           F == [k \in 1..n |-> [s \in Lists |-> One(s, k)]]
<1>1. NewContacts(rows) = put[n]
  BY Zenon DEF NewContacts
<1>2. n \in Nat /\ \A k \in 1..n : Fresh(rows[k]) \in Contact
  <2>1. \A k \in 1..n : rows[k] \in Listed
    OBVIOUS
  <2> QED
    BY <2>1, Sizes DEF Listed, Contact
<1> HIDE DEF n, Fresh
<1>3. \A s \in Lists : \A k \in 1..n : One(s, k) \in Lists
  <2> SUFFICES ASSUME NEW s \in Lists, NEW k \in 1..n
               PROVE  One(s, k) \in Lists
    OBVIOUS
  <2>1. CASE Len(s) >= MaxContacts
    BY <2>1
  <2>2. CASE ~ (Len(s) >= MaxContacts)
    <3>1. Len(s) < MaxContacts
      BY <2>2, Sizes DEF Lists
    <3> QED
      BY <1>2, <2>2, <3>1, PutType
  <2> QED
    BY <2>1, <2>2
<1>4. <<>> \in Lists
  BY Sizes DEF Lists, OneSlot
<1>5. F \in [1..n -> [Lists -> Lists]]
  <2> HIDE DEF One
  <2> QED
    BY <1>3
<1>6. PICK f : IsRun(f, n, Lists, <<>>, F)
  <2> HIDE DEF F
  <2> QED
    BY <1>2, <1>4, <1>5, Iteration, Zenon
<1>7. f = [k \in 0..n |-> IF k = 0 THEN <<>> ELSE One(f[k - 1], k)]
  <2> HIDE DEF One
  <2>1. f \in [0..n -> Lists] /\ f[0] = <<>> /\ \A k \in 1..n : f[k] = F[k][f[k - 1]]
    BY <1>6 DEF IsRun
  <2>2. ASSUME NEW k \in 1..n
        PROVE  f[k] = One(f[k - 1], k)
    <3>1. f[k - 1] \in Lists /\ f[k] = F[k][f[k - 1]]
      BY <1>2, <2>1
    <3> QED
      BY <3>1 DEF F
  <2> QED
    BY <1>2, <2>1, <2>2
<1>8. put = [k \in 0..n |-> IF k = 0 THEN <<>> ELSE One(put[k - 1], k)]
  BY <1>7, Zenon
<1> HIDE DEF put
<1> DEFINE Done == {k \in 0..n : put[k] \in Lists}
<1>9. \A k \in 0..n : k \in Done
  <2> HIDE DEF One
  <2>1. 0 \in Done
    BY <1>2, <1>4, <1>8
  <2>2. \A k \in 1..n : k - 1 \in Done => k \in Done
    BY <1>2, <1>3, <1>8
  <2> HIDE DEF Done
  <2> QED
    BY <1>2, <2>1, <2>2, Induction, Zenon
<1>10. put[n] \in Lists
  BY <1>2, <1>9
<1> QED
  BY <1>1, <1>10

\* A route finds its own slot when no contact goes by the name of another.
LEMMA RouteFindsItself ==
  ASSUME NEW p \in Phones, Distinct(p), NEW j \in DOMAIN p.entries
  PROVE  Find(p, p.entries[j].route) = j
<1> DEFINE x == p.entries[j].route
           i == Find(p, x)
<1>1. i # 0 /\ i \in DOMAIN p.entries /\ (p.entries[i].name = x \/ p.entries[i].route = x)
  BY FindFacts
<1>2. OneSlot(p.entries)
  BY PhoneFields
<1> HIDE DEF i
<1>3. i = j
  BY <1>1, <1>2 DEF Distinct, OneSlot
<1> QED
  BY <1>3 DEF i

\* Replacing all contacts is a change that sources make: the route of the
\* selected contact is found again.
LEMMA ReplaceSourced ==
  ASSUME NEW p \in Phones, NEW k \in Phones, k.entries = p.entries, k.cursor = p.cursor,
         SameDialPlan(p, k), k.active = p.active, k.late = p.late, k.picked = p.picked,
         k.looping = p.looping, NEW rows \in Seq(Listed)
  PROVE  Sourced(p, Replace(k, rows))
<1> DEFINE was == Selected(k)
           q == Replace(k, rows)
<1> DEFINE s == NewContacts(rows)
           fresh == With(k, s, 1)
<1>1. q = IF Find(fresh, was.route) # 0 THEN Select(fresh, was.route)
                                        ELSE Select(fresh, was.name)
  BY Zenon DEF Replace, With
<1> HIDE DEF q
<1>2. fresh \in Phones /\ fresh.entries = s /\ fresh.cursor = 1 /\ SameRest(k, fresh)
  <2>1. s \in Seq(Contact) /\ Len(s) <= MaxContacts /\ OneSlot(s) /\ 1 \in 1..MaxContacts
    BY NewContactsType, Sizes DEF Lists
  <2> HIDE DEF s
  <2> QED
    BY <2>1, Rearranged
<1> HIDE DEF fresh, s
<1>3. /\ q \in Phones /\ q.entries = s /\ SameRest(fresh, q)
      /\ Find(fresh, was.route) # 0 => q.cursor = Find(fresh, was.route)
  <2>1. CASE Find(fresh, was.route) # 0
    <3>1. q = Select(fresh, was.route)
      BY <1>1, <2>1
    <3> QED
      BY <1>2, <2>1, <3>1, SelectEffect
  <2>2. CASE Find(fresh, was.route) = 0
    <3>1. q = Select(fresh, was.name)
      BY <1>1, <2>2
    <3> QED
      BY <1>2, <2>2, <3>1, SelectEffect
  <2> QED
    BY <2>1, <2>2
<1>4. was = Selected(p)
  BY SameBook
<1>5. SameDialPlan(p, q)
  BY <1>2, <1>3 DEF SameRest, SameDialPlan
<1>6. q.active = p.active /\ q.late = p.late /\ q.picked = p.picked /\ q.looping = p.looping
  BY <1>2, <1>3 DEF SameRest
<1>7. Distinct(q) => Distinct(fresh)
  BY <1>2, <1>3 DEF Distinct
<1>8. ASSUME Distinct(q), NEW j \in DOMAIN s, s[j].route = was.route
      PROVE  q.cursor = j
  <2>1. Find(fresh, was.route) = j
    BY <1>2, <1>7, <1>8, RouteFindsItself
  <2>2. j # 0
    BY <1>8, NewContactsType DEF Lists, s
  <2> QED
    BY <1>3, <2>1, <2>2
<1>9. ASSUME Distinct(q), Selected(p).route \in Routes(q)
      PROVE  Selected(q).route = Selected(p).route
  <2>1. PICK j \in DOMAIN s : s[j].route = was.route
    BY <1>3, <1>4, <1>9 DEF Routes
  <2>2. q.cursor = j
    BY <1>8, <1>9, <2>1
  <2>3. Selected(q) = q.entries[q.cursor]
    BY <1>3, <2>1, SelectedFacts
  <2> QED
    BY <1>3, <1>4, <2>1, <2>2, <2>3
<1>10. ASSUME SameEntries(p, q), Distinct(q)
       PROVE  Distinct(p) /\ Selected(q).name = Selected(p).name
  <2>1. ASSUME NEW i \in DOMAIN p.entries
        PROVE  q.cursor = p.cursor
    <3>1. p.cursor \in DOMAIN p.entries /\ Selected(p) = p.entries[p.cursor]
      BY <2>1, SelectedFacts
    <3>2. /\ p.cursor \in DOMAIN s
          /\ s[p.cursor].route = p.entries[p.cursor].route
      BY <1>3, <1>10, <3>1, SameEntriesFacts
    <3> QED
      BY <1>4, <1>8, <1>10, <3>1, <3>2
  <2>2. Selected(q).name = Selected(p).name
    BY <1>3, <1>10, <2>1, SameSelection
  <2> QED
    BY <1>10, <2>2, SameDistinct
<1> HIDE DEF was
<1> QED
  BY <1>3, <1>5, <1>6, <1>9, <1>10 DEF Sourced, q

\* What a slot of a roster holds once it was parsed, and once it is kept.
Named == {r \in JsonRow : r.name \in Names}

\* A set of numbers that has a bound has a greatest one.
LEMMA GreatestNumber ==
  ASSUME NEW n \in Nat, NEW I, I \subseteq 0..n, I # {}
  PROVE  Max(I) \in I
<1> DEFINE J == {n - i : i \in I}
<1>1. \A i \in I : i \in Nat /\ i <= n
  OBVIOUS
<1>2. J \subseteq Nat /\ J # {}
  <2>1. \A i \in I : n - i \in Nat
    BY <1>1
  <2>2. PICK k : k \in I
    BY Zenon
  <2>3. n - k \in J
    BY <2>2, Zenon
  <2>4. J # {}
    BY <2>3, Zenon
  <2>5. J \subseteq Nat
    BY <2>1, Zenon
  <2> QED
    BY <2>4, <2>5
<1>3. Min(J) \in J /\ \A j \in J : Min(J) <= j
  <2> HIDE DEF J
  <2> QED
    BY <1>2, LeastNumber, Zenon
<1>4. PICK i \in I : Min(J) = n - i
  BY <1>3
<1>5. \A k \in I : n - k \in J
  OBVIOUS
<1> HIDE DEF J
<1>6. \A k \in I : i >= k
  BY <1>1, <1>3, <1>4, <1>5
<1> QED
  BY <1>6, Zenon DEF Max

\* The row of Home Assistant is a slot.
LEMMA HaRowPlace ==
  ASSUME NEW slots \in Seq(Named)
  PROVE  /\ HaRow(slots) # 0 => HaRow(slots) \in DOMAIN slots
         /\ HaRow(slots) # 0 => /\ slots[HaRow(slots)].name \in Names
                                /\ slots[HaRow(slots)].addr \in Endpoints \cup {None}
<1> DEFINE I == {i \in 1..Len(slots) : slots[i].local /\ slots[i].addr # None}
<1>1. HaRow(slots) = IF I # {} THEN Max(I) ELSE 0
  BY Zenon DEF HaRow, SelectLastInSubSeq
<1>2. Len(slots) \in Nat /\ I \subseteq 0..Len(slots) /\ DOMAIN slots = 1..Len(slots)
      /\ \A i \in I : i \in DOMAIN slots
  OBVIOUS
<1> HIDE DEF I
<1>3. HaRow(slots) # 0 => HaRow(slots) \in DOMAIN slots
  <2>1. CASE I = {}
    BY <1>1, <2>1, Zenon
  <2>2. CASE I # {}
    <3>1. Max(I) \in I
      BY <1>2, <2>2, GreatestNumber, Zenon
    <3> QED
      BY <1>1, <1>2, <2>2, <3>1, Zenon
  <2> QED
    BY <2>1, <2>2
<1>4. \A i \in DOMAIN slots : slots[i].name \in Names /\ slots[i].addr \in Endpoints \cup {None}
  <2>1. \A i \in DOMAIN slots : slots[i] \in Named
    OBVIOUS
  <2> QED
    BY <2>1 DEF Named, JsonRow
<1> QED
  BY <1>3, <1>4

\* A contact is reached at an endpoint, or nowhere.
LEMMA ReachedType ==
  ASSUME NEW slots \in Seq(Named), NEW r \in Named
  PROVE  Reached(slots, r) \in Endpoints \cup {None}
<1>1. r.addr \in Endpoints \cup {None}
  BY DEF Named, JsonRow
<1> QED
  BY <1>1, HaRowPlace DEF Reached

\* The slots of a roster have names that contacts may have.
LEMMA SlotsType ==
  ASSUME NEW roster, roster.rows \in Seq(JsonRow)
  PROVE  Slots(roster) \in Seq(Named)
<1> DEFINE all == [i \in DOMAIN roster.rows |-> Slot(roster.rows[i])]
           Usables == {r \in JsonRow : r.name \in Names \cup {Self}}
           parsed == Only(all, {i \in DOMAIN all : Usable(all[i])})
           others == Only(parsed, {i \in DOMAIN parsed :
                                     Self \notin {parsed[i].name, parsed[i].id}})
<1>1. \A r \in JsonRow : Slot(r) \in JsonRow
  <2> SUFFICES ASSUME NEW r \in JsonRow
               PROVE  Slot(r) \in JsonRow
    OBVIOUS
  <2> DEFINE id == IF r.id = None THEN r.name ELSE r.id
             name == IF r.name \in Names \cup {Self} THEN r.name ELSE id
             s == [r EXCEPT !.id = id]
  <2>1. id \in Texts /\ name \in Texts
    BY DEF JsonRow
  <2>2. Slot(r) = [s EXCEPT !.name = name]
    BY DEF Slot
  <2> HIDE DEF id, name
  <2>3. s \in JsonRow
    BY <2>1 DEF JsonRow
  <2> HIDE DEF s
  <2> QED
    BY <2>1, <2>2, <2>3 DEF JsonRow
<1>2. all \in Seq(JsonRow)
  <2>1. \A i \in DOMAIN roster.rows : roster.rows[i] \in JsonRow
    OBVIOUS
  <2> QED
    BY <1>1, <2>1
<1> HIDE DEF all
<1>3. parsed \in Seq(Usables)
  <2>1. \A i \in DOMAIN all : all[i] \in JsonRow
    BY <1>2
  <2>2. \A i \in DOMAIN all : i \in {j \in DOMAIN all : Usable(all[j])} => all[i] \in Usables
    BY <2>1 DEF Usable
  <2> HIDE DEF Usables
  <2> QED
    BY <1>2, <2>2, OnlyType
<1>4. Parsed(roster) = parsed
  BY Zenon DEF Parsed, all
<1> HIDE DEF parsed
<1>5. others \in Seq(Named)
  <2> DEFINE I == {j \in DOMAIN parsed : Self \notin {parsed[j].name, parsed[j].id}}
  <2>1. \A i \in DOMAIN parsed : parsed[i] \in Usables
    BY <1>3
  <2>2. \A i \in DOMAIN parsed : i \in I => parsed[i] \in Named
    BY <2>1 DEF Named
  <2> HIDE DEF Usables, I
  <2>3. Only(parsed, I) \in Seq(Named)
    BY <1>3, <2>2, OnlyType
  <2> QED
    BY <2>3 DEF I
<1> DEFINE n == IF Len(others) < MaxContacts THEN Len(others) ELSE MaxContacts
<1>6. Slots(roster) = SubSeq(others, 1, n)
  BY <1>4, Zenon DEF Slots
<1> HIDE DEF others
<1>7. 1 \in Int /\ n \in Int /\ \A i \in 1..n : others[i] \in Named
  BY <1>5, Sizes
<1>8. SubSeq(others, 1, n) \in Seq(Named)
  <2> HIDE DEF n
  <2> QED
    BY <1>7, SubSeqProperties
<1> QED
  BY <1>6, <1>8

\* A row that a roster offers the phonebook.
Proposed == [name : Names, route : Texts, ep : Endpoints \cup {None}]

\* What a roster offers the phonebook.
LEMMA OfferedType ==
  ASSUME NEW slots \in Seq(Named)
  PROVE  Offered(slots) \in Seq(Proposed)
<1> DEFINE I == {i \in DOMAIN slots : slots[i].local \/ Reached(slots, slots[i]) # None}
           kept == Only(slots, I)
           rows == [i \in DOMAIN kept |-> [name |-> kept[i].name, route |-> kept[i].id,
                                           ep |-> Reached(slots, kept[i])]]
<1>1. kept \in Seq(Named)
  <2>1. \A i \in DOMAIN slots : i \in I => slots[i] \in Named
    OBVIOUS
  <2> HIDE DEF I
  <2> QED
    BY <2>1, OnlyType
<1>2. Offered(slots) = rows
  BY Zenon DEF Offered
<1> HIDE DEF kept
<1>3. \A i \in DOMAIN kept :
        kept[i].name \in Names /\ kept[i].id \in Texts
        /\ Reached(slots, kept[i]) \in Endpoints \cup {None}
  <2>1. \A i \in DOMAIN kept : kept[i] \in Named
    BY <1>1
  <2> QED
    BY <2>1, ReachedType DEF Named, JsonRow
<1>4. rows \in Seq(Proposed)
  <2>1. \A i \in DOMAIN kept : rows[i] \in Proposed
    BY <1>3 DEF Proposed
  <2>2. Len(kept) \in Nat /\ DOMAIN kept = 1..Len(kept)
    BY <1>1
  <2>3. DOMAIN rows = 1..Len(kept)
    BY <2>2
  <2> HIDE DEF rows
  <2>4. \A i \in 1..Len(kept) : rows[i] \in Proposed
    BY <2>1, <2>2
  <2>5. rows = [i \in 1..Len(kept) |-> rows[i]]
    BY <2>3, Zenon DEF rows
  <2>6. rows \in [1..Len(kept) -> Proposed]
    BY <2>4, <2>5, Zenon
  <2> QED
    BY <2>2, <2>6
<1> QED
  BY <1>2, <1>4

\* set_contacts with a JSON roster.
LEMMA JsonUpdates ==
  ASSUME NEW p \in Phones, NEW roster, roster.rows \in Seq(JsonRow)
  PROVE  Updated(p, SetContactsJson(p, roster))
<1> DEFINE slots == Slots(roster)
           rows == Offered(slots)
           I == {i \in DOMAIN rows : rows[i].ep # None /\ rows[i].route \in Names}
           good == Only(rows, I)
           ha == IF HaRow(slots) # 0 THEN slots[HaRow(slots)].name ELSE p.ha
           seen == IF p.active THEN p.seen \cup {rows[i].name : i \in DOMAIN rows} ELSE p.seen
           known == [p EXCEPT !.ha = ha, !.seen = seen]
           new == IF Parsed(roster) = <<>> /\ roster.rows # <<>> THEN p ELSE Replace(known, good)
<1>1. SetContactsJson(p, roster)
        = PublishIf(AutoSelect(new), ~ SameEntries(p, new) \/ PicksHa(new))
  BY DEF SetContactsJson
<1>2. p \in PhoneType
  BY DEF Phones
<1>3. slots \in Seq(Named)
  BY SlotsType
<1> HIDE DEF slots
<1>4. rows \in Seq(Proposed)
  BY <1>3, OfferedType
<1> HIDE DEF rows
<1>5. \A i \in DOMAIN rows :
        rows[i] \in Proposed
  BY <1>4
<1>6. good \in Seq(Listed)
  <2>1. \A i \in DOMAIN rows : i \in I => rows[i] \in Listed
    BY <1>5 DEF Listed, Proposed
  <2> HIDE DEF I
  <2> QED
    BY <1>4, <2>1, OnlyType
<1> HIDE DEF good
<1>7. ha \in Names \cup {None} /\ seen \in SUBSET (Names \cup {Self})
  <2>1. p.ha \in Names \cup {None} /\ p.seen \in SUBSET (Names \cup {Self})
    BY <1>2 DEF PhoneType
  <2>2. ha \in Names \cup {None}
    BY <1>3, <2>1, HaRowPlace
  <2>3. seen \in SUBSET (Names \cup {Self})
    <3>1. \A i \in DOMAIN rows : rows[i].name \in Names
      BY <1>5 DEF Proposed
    <3> QED
      BY <2>1, <3>1
  <2> QED
    BY <2>2, <2>3
<1> HIDE DEF ha, seen
<1>8. /\ known \in Phones /\ known.entries = p.entries /\ known.cursor = p.cursor
      /\ SameDialPlan(p, known) /\ known.active = p.active /\ known.late = p.late
      /\ known.picked = p.picked /\ known.looping = p.looping
  <2> DEFINE q == [p EXCEPT !.ha = ha]
             r == [q EXCEPT !.seen = seen]
  <2>1. known = r
    OBVIOUS
  <2>2. q \in PhoneType
    BY <1>2, <1>7 DEF PhoneType
  <2>3. /\ q.entries = p.entries /\ q.cursor = p.cursor /\ q.active = p.active
        /\ q.late = p.late /\ q.picked = p.picked /\ q.looping = p.looping
    BY <1>2 DEF PhoneType
  <2>4. SameDialPlan(p, q)
    BY <1>2 DEF PhoneType, SameDialPlan
  <2> HIDE DEF q
  <2>5. r \in PhoneType
    BY <1>7, <2>2 DEF PhoneType
  <2>6. /\ r.entries = q.entries /\ r.cursor = q.cursor /\ r.active = q.active
        /\ r.late = q.late /\ r.picked = q.picked /\ r.looping = q.looping
    BY <2>2 DEF PhoneType
  <2>7. SameDialPlan(q, r)
    BY <2>2 DEF PhoneType, SameDialPlan
  <2> HIDE DEF r, known
  <2>8. SameDialPlan(p, r)
    BY <2>4, <2>7 DEF SameDialPlan
  <2>9. r \in Phones
    BY <2>3, <2>5, <2>6 DEF Phones
  <2> QED
    BY <2>1, <2>3, <2>6, <2>8, <2>9
<1> HIDE DEF known
<1>9. Sourced(p, new)
  <2>1. CASE Parsed(roster) = <<>> /\ roster.rows # <<>>
    <3>1. new = p
      BY <2>1
    <3> HIDE DEF new
    <3>2. Sourced(p, p)
      BY DEF Sourced, SameDialPlan
    <3> QED
      BY <3>1, <3>2
  <2>2. CASE ~ (Parsed(roster) = <<>> /\ roster.rows # <<>>)
    <3>1. new = Replace(known, good)
      BY <2>2
    <3>2. Sourced(p, Replace(known, good))
      BY <1>6, <1>8, ReplaceSourced
    <3> HIDE DEF new
    <3> QED
      BY <3>1, <3>2
  <2> QED
    BY <2>1, <2>2
<1> HIDE DEF new
<1> QED
  BY <1>1, <1>9, SourceRead

\* set_contacts.
LEMMA SetContactsUpdates ==
  ASSUME NEW p \in Phones, NEW source \in Batches \cup Rosters
  PROVE  Updated(p, SetContacts(p, source))
<1>1. CASE source \in Batches
  <2>1. source.kind = "csv" /\ source.rows \in Seq(CsvRow)
    BY <1>1, RosterAssumption
  <2> QED
    BY <2>1, CsvUpdates DEF SetContacts
<1>2. CASE source \in Rosters
  <2>1. source.kind = "json" /\ source.rows \in Seq(JsonRow)
    BY <1>2, RosterAssumption
  <2> QED
    BY <2>1, JsonUpdates DEF SetContacts
<1> QED
  BY <1>1, <1>2

-----------------------------------------------------------------------------
(* The update cycle. *)

\* Whoever is selected, is not due and is still there stays selected, but for
\* the one selection of Home Assistant.
SelectionKept(p, q) ==
    /\ Selected(p).route \in Routes(q) /\ ~ Due(p, Selected(p)) /\ Distinct(p) /\ Distinct(q)
    => Selected(q).route = Selected(p).route \/ q.picked # p.picked

\* Everything but the update cycle.
BookKept(p, q) ==
    /\ q.entries = p.entries /\ q.cursor = p.cursor /\ q.ha = p.ha /\ q.picked = p.picked
    /\ SameDialPlan(p, q)

\* A cycle that closes leaves the rest alone.
LEMMA ClosedEffect ==
  ASSUME NEW p \in Phones
  PROVE  LET q == Closed(p) IN
         q \in Phones /\ BookKept(p, q) /\ q.active = FALSE /\ q.looping = p.looping
<1> DEFINE r == [p EXCEPT !.seen = {}]
           s == [r EXCEPT !.active = FALSE]
           q == [s EXCEPT !.late = FALSE]
<1>1. p \in PhoneType
  BY DEF Phones
<1>2. r \in PhoneType
  BY <1>1, Zenon DEF PhoneType
<1>3. BookKept(p, r) /\ r.looping = p.looping
  BY <1>1 DEF PhoneType, BookKept, SameDialPlan
<1>4. q = Closed(p)
  BY DEF Closed
<1> HIDE DEF r
<1>5. s \in PhoneType
  BY <1>2, Zenon DEF PhoneType
<1>6. BookKept(r, s) /\ s.looping = r.looping /\ s.active = FALSE
  BY <1>2 DEF PhoneType, BookKept, SameDialPlan
<1> HIDE DEF s
<1>7. q \in PhoneType
  BY <1>5, Zenon DEF PhoneType
<1>8. BookKept(s, q) /\ q.looping = s.looping /\ q.active = s.active
  BY <1>5 DEF PhoneType, BookKept, SameDialPlan
<1> HIDE DEF q
<1>9. BookKept(p, q)
  BY <1>3, <1>6, <1>8 DEF BookKept, SameDialPlan
<1> QED
  BY <1>3, <1>4, <1>6, <1>7, <1>8, <1>9 DEF Phones, BookKept

\* A cycle that opens leaves the rest alone.
LEMMA OpenEffect ==
  ASSUME NEW p \in Phones
  PROVE  LET q == OpenCycle(p) IN
         q \in Phones /\ BookKept(p, q) /\ q.active = TRUE /\ q.looping = TRUE
<1> DEFINE r == [p EXCEPT !.active = TRUE]
           s == [r EXCEPT !.late = FALSE]
           t == [s EXCEPT !.seen = {}]
           q == [t EXCEPT !.looping = TRUE]
<1>1. p \in PhoneType
  BY DEF Phones
<1>2. r \in PhoneType
  BY <1>1, Zenon DEF PhoneType
<1>3. BookKept(p, r) /\ r.active = TRUE
  BY <1>1 DEF PhoneType, BookKept, SameDialPlan
<1>4. q = OpenCycle(p)
  BY DEF OpenCycle
<1> HIDE DEF r
<1>5. s \in PhoneType
  BY <1>2, Zenon DEF PhoneType
<1>6. BookKept(r, s) /\ s.active = r.active
  BY <1>2 DEF PhoneType, BookKept, SameDialPlan
<1> HIDE DEF s
<1>7. t \in PhoneType
  BY <1>5, Zenon DEF PhoneType
<1>8. BookKept(s, t) /\ t.active = s.active
  BY <1>5 DEF PhoneType, BookKept, SameDialPlan
<1> HIDE DEF t
<1>9. q \in PhoneType
  BY <1>7, Zenon DEF PhoneType
<1>10. BookKept(t, q) /\ q.active = t.active /\ q.looping = TRUE
  BY <1>7 DEF PhoneType, BookKept, SameDialPlan
<1> HIDE DEF q
<1>11. BookKept(p, q)
  BY <1>3, <1>6, <1>8, <1>10 DEF BookKept, SameDialPlan
<1> QED
  BY <1>3, <1>4, <1>6, <1>8, <1>9, <1>10, <1>11 DEF Phones, BookKept

\* Nobody is shown anything else when book and dial plan are the same.
LEMMA BookKeptShows ==
  ASSUME NEW p, NEW q, BookKept(p, q)
  PROVE  /\ Selected(q) = Selected(p) /\ Routes(q) = Routes(p) /\ (Distinct(q) <=> Distinct(p))
         /\ Destination(q) = Destination(p) /\ (Shows(p) <=> Shows(q))
<1>1. /\ Selected(q) = Selected(p) /\ Routes(q) = Routes(p) /\ (Distinct(q) <=> Distinct(p))
  BY SameBook DEF BookKept
<1>2. Destination(q) = Destination(p)
  BY <1>1 DEF Destination, BookKept, SameDialPlan
<1>3. Shows(p) <=> Shows(q)
  BY <1>1, <1>2 DEF Shows, BookKept, SameDialPlan
<1> QED
  BY <1>1, <1>2, <1>3

\* Counting changes neither who is selected nor what is shown.
LEMMA CountShows ==
  ASSUME NEW p \in Phones
  PROVE  Shows(p) => Shows(Count(p))
<1> DEFINE q == Count(p)
<1>1. /\ KeepsPlaces(p, q) /\ DOMAIN q.entries = DOMAIN p.entries
      /\ \A i \in DOMAIN p.entries : q.entries[i] = Missed(p, p.entries[i])
  BY CountEffect
<1> HIDE DEF q
<1>2. \A i \in DOMAIN p.entries : p.entries[i] \in Contact
  BY PhoneFields
<1>3. \A i \in DOMAIN p.entries : /\ q.entries[i].name = p.entries[i].name
                                  /\ q.entries[i].route = p.entries[i].route
  BY <1>1, <1>2, MissedEffect
<1>4. Distinct(q) => Distinct(p)
  BY <1>1, <1>3 DEF Distinct
<1>5. q \in Phones /\ q.cursor = p.cursor /\ SameDialPlan(p, q)
  BY <1>1 DEF KeepsPlaces, SameRest
<1>6. Selected(q).name = Selected(p).name
  <2>1. CASE \E i : i \in DOMAIN p.entries
    <3>1. p.cursor \in DOMAIN p.entries /\ Selected(p) = p.entries[p.cursor]
      BY <2>1, SelectedFacts
    <3>2. \E i : i \in DOMAIN q.entries
      BY <1>1, <2>1
    <3>3. Selected(q) = q.entries[q.cursor]
      BY <1>5, <3>2, SelectedFacts
    <3> QED
      BY <1>3, <1>5, <3>1, <3>3
  <2>2. CASE ~ \E i : i \in DOMAIN p.entries
    <3>1. p.entries = <<>>
      BY <2>2, SelectedFacts
    <3>2. ~ \E i : i \in DOMAIN q.entries
      BY <1>1, <2>2
    <3>3. q.entries = <<>>
      BY <1>5, <3>2, SelectedFacts
    <3> QED
      BY <1>5, <3>1, <3>3, SelectedFacts
  <2> QED
    BY <2>1, <2>2
<1>7. Destination(q) = Destination(p)
  BY <1>5, <1>6 DEF Destination, SameDialPlan
<1>8. Shows(p) => Shows(q)
  BY <1>4, <1>5, <1>7 DEF Shows, SameDialPlan
<1> QED
  BY <1>8 DEF q

\* What closing a cycle makes of p.
Committed(p, r) ==
    /\ r \in Phones /\ r.active = FALSE /\ r.looping = p.looping
    /\ r.call = p.call /\ r.asked = p.asked
    /\ p.picked => r.picked
    /\ Selected(p).route \in Routes(r) =>
         Selected(r).route = Selected(p).route \/ r.picked # p.picked
    /\ Shows(p) => Shows(r)
    /\ Distinct(p) => \A i \in DOMAIN p.entries :
                         ~ Due(p, p.entries[i]) => p.entries[i].route \in Routes(r)

\* commit_cycle_.
LEMMA CommitEffect ==
  ASSUME NEW p \in Phones, p.active
  PROVE  Committed(p, CommitCycle(p))
<1> DEFINE q == Prune(p)
           c == Closed(q)
           a == AutoSelect(c)
           r == IF Len(c.entries) = Len(p.entries) THEN c ELSE Publish(a)
<1>1. /\ q \in Phones /\ SameRest(p, q) /\ Stays(p, q)
      /\ Len(q.entries) = Len(p.entries) => q = Count(p)
      /\ Distinct(p) => \A i \in DOMAIN p.entries :
           ~ Due(p, p.entries[i]) => p.entries[i].route \in Routes(q)
  BY PruneEffect
<1>2. r = CommitCycle(p)
  BY Zenon DEF CommitCycle
<1> HIDE DEF q
<1>3. c \in Phones /\ BookKept(q, c) /\ c.active = FALSE /\ c.looping = q.looping
  BY <1>1, ClosedEffect
<1> HIDE DEF c
<1>4. /\ Selected(c) = Selected(q) /\ Routes(c) = Routes(q) /\ (Shows(q) <=> Shows(c))
  BY <1>3, BookKeptShows
<1>5. /\ c.looping = p.looping /\ c.call = p.call /\ c.asked = p.asked /\ c.picked = p.picked
  BY <1>1, <1>3 DEF SameRest, SameDialPlan, BookKept
<1>6. Selected(p).route \in Routes(c) => Selected(c).route = Selected(p).route
  BY <1>1, <1>4 DEF Stays
<1>7. CASE Len(c.entries) = Len(p.entries)
  <2>1. r = c
    BY <1>7
  <2>2. q = Count(p)
    BY <1>1, <1>3, <1>7 DEF BookKept
  <2>3. Shows(p) => Shows(c)
    BY <1>4, <2>2, CountShows
  <2>4. Committed(p, c)
    BY <1>1, <1>3, <1>4, <1>5, <1>6, <2>3 DEF Committed
  <2> QED
    BY <1>2, <2>1, <2>4
<1>8. CASE Len(c.entries) # Len(p.entries)
  <2> DEFINE b == Publish(a)
  <2>1. r = b
    BY <1>8
  <2>2. /\ a \in Phones /\ a.entries = c.entries /\ SameCycle(c, a)
        /\ ~ PicksHa(c) => a = c
        /\ PicksHa(c) => ~ c.picked /\ a.picked
    BY <1>3, AutoSelectEffect
  <2> HIDE DEF a
  <2>3. b \in Phones /\ OnlyShown(a, b) /\ Shows(b)
    BY <2>2, PublishEffect
  <2> HIDE DEF b
  <2>4. Selected(b) = Selected(a) /\ Routes(b) = Routes(a)
    BY <2>3, SameBook DEF OnlyShown
  <2>5. Routes(a) = Routes(c)
    BY <2>2 DEF Routes
  <2>6. /\ b.active = FALSE /\ b.looping = p.looping /\ b.call = p.call /\ b.asked = p.asked
    BY <1>3, <1>5, <2>2, <2>3 DEF OnlyShown, SameCycle
  <2>7. b.picked = a.picked
    BY <2>3 DEF OnlyShown
  <2>8. p.picked => b.picked
    BY <1>5, <2>2, <2>7
  <2>9. Selected(p).route \in Routes(b) =>
           Selected(b).route = Selected(p).route \/ b.picked # p.picked
    <3>1. CASE PicksHa(c)
      BY <1>5, <2>2, <2>7, <3>1
    <3>2. CASE ~ PicksHa(c)
      BY <1>6, <2>2, <2>4, <2>5, <3>2
    <3> QED
      BY <3>1, <3>2
  <2>10. Distinct(p) => \A i \in DOMAIN p.entries :
           ~ Due(p, p.entries[i]) => p.entries[i].route \in Routes(b)
    BY <1>1, <1>4, <2>4, <2>5
  <2>11. Committed(p, b)
    BY <2>3, <2>6, <2>8, <2>9, <2>10, Zenon DEF Committed
  <2> QED
    BY <1>2, <2>1, <2>11
<1> QED
  BY <1>7, <1>8

\* What every handler keeps: what is asked for, a loop for an open cycle, and a
\* destination that is shown.
Handled(p, q) ==
    /\ q \in Phones /\ q.asked = p.asked
    /\ (p.active => p.looping) => (q.active => q.looping)
    /\ Shows(p) => Shows(q)

\* No contact that is not due goes with the cycle.
PruneKept(p, q) ==
    p.active /\ ~ q.active /\ Distinct(p) =>
        \A i \in DOMAIN p.entries : ~ Due(p, p.entries[i]) => p.entries[i].route \in Routes(q)

\* What sources, the timeout of a cycle and the loop keep, too.
Maintained(p, q) == Handled(p, q) /\ SelectionKept(p, q) /\ PruneKept(p, q)

\* A source that is read maintains the phonebook.
LEMMA UpdatedMaintains ==
  ASSUME NEW p \in Phones, NEW q, Updated(p, q)
  PROVE  Maintained(p, q)
<1>1. Handled(p, q)
  BY DEF Updated, Handled
<1>2. SelectionKept(p, q)
  BY DEF Updated, SelectionKept
<1>3. PruneKept(p, q)
  BY DEF Updated, PruneKept
<1> QED
  BY <1>1, <1>2, <1>3 DEF Maintained

\* update_contacts closes an open cycle and opens the next one.
LEMMA ReopenEffect ==
  ASSUME NEW p \in Phones
  PROVE  LET q == OpenCycle(IF p.active THEN CommitCycle(p) ELSE p) IN
         /\ q \in Phones /\ q.active = TRUE /\ q.looping = TRUE /\ q.asked = p.asked
         /\ p.picked => q.picked
         /\ Selected(p).route \in Routes(q) =>
              Selected(q).route = Selected(p).route \/ q.picked # p.picked
         /\ Shows(p) => Shows(q)
         /\ (Distinct(p) /\ ~ Due(p, Selected(p)) /\ \E i : i \in DOMAIN p.entries)
              => Selected(p).route \in Routes(q)
<1> DEFINE r == IF p.active THEN CommitCycle(p) ELSE p
           q == OpenCycle(r)
<1>1. (\E i : i \in DOMAIN p.entries) =>
        p.cursor \in DOMAIN p.entries /\ Selected(p) = p.entries[p.cursor]
  BY SelectedFacts
<1>2. /\ r \in Phones /\ r.asked = p.asked
      /\ p.picked => r.picked
      /\ Selected(p).route \in Routes(r) =>
           Selected(r).route = Selected(p).route \/ r.picked # p.picked
      /\ Shows(p) => Shows(r)
      /\ (Distinct(p) /\ ~ Due(p, Selected(p)) /\ \E i : i \in DOMAIN p.entries)
           => Selected(p).route \in Routes(r)
  <2>1. CASE p.active
    <3>1. r = CommitCycle(p)
      BY <2>1
    <3>2. Committed(p, r)
      BY <2>1, <3>1, CommitEffect
    <3> HIDE DEF r
    <3> QED
      BY <1>1, <3>2 DEF Committed
  <2>2. CASE ~ p.active
    <3>1. r = p
      BY <2>2
    <3>2. (\E i : i \in DOMAIN p.entries) => Selected(p).route \in Routes(p)
      BY <1>1 DEF Routes
    <3> HIDE DEF r
    <3> QED
      BY <3>1, <3>2
  <2> QED
    BY <2>1, <2>2
<1> HIDE DEF r
<1>3. q \in Phones /\ BookKept(r, q) /\ q.active = TRUE /\ q.looping = TRUE
  BY <1>2, OpenEffect
<1> HIDE DEF q
<1>4. Selected(q) = Selected(r) /\ Routes(q) = Routes(r) /\ (Shows(r) <=> Shows(q))
  BY <1>3, BookKeptShows
<1>5. q.asked = r.asked /\ q.picked = r.picked
  BY <1>3 DEF BookKept, SameDialPlan
<1> QED
  BY <1>2, <1>3, <1>4, <1>5, Zenon DEF q, r

\* update_contacts without the sensor of Home Assistant.
LEMMA ReopenMaintains ==
  ASSUME NEW p \in Phones
  PROVE  Maintained(p, OpenCycle(IF p.active THEN CommitCycle(p) ELSE p))
<1> DEFINE q == OpenCycle(IF p.active THEN CommitCycle(p) ELSE p)
<1>1. /\ q \in Phones /\ q.active = TRUE /\ q.looping = TRUE /\ q.asked = p.asked
      /\ Selected(p).route \in Routes(q) =>
           Selected(q).route = Selected(p).route \/ q.picked # p.picked
      /\ Shows(p) => Shows(q)
  BY ReopenEffect
<1> HIDE DEF q
<1>2. Maintained(p, q)
  BY <1>1 DEF Maintained, Handled, SelectionKept, PruneKept
<1> QED
  BY <1>2 DEF q

\* update_contacts with it.
LEMMA RefillMaintains ==
  ASSUME NEW p \in Phones, NEW source \in Batches \cup Rosters
  PROVE  Maintained(p, SetContacts(OpenCycle(IF p.active THEN CommitCycle(p) ELSE p), source))
<1> DEFINE q == OpenCycle(IF p.active THEN CommitCycle(p) ELSE p)
           r == SetContacts(q, source)
<1>1. /\ q \in Phones /\ q.active = TRUE /\ q.looping = TRUE /\ q.asked = p.asked
      /\ p.picked => q.picked
      /\ Selected(p).route \in Routes(q) =>
           Selected(q).route = Selected(p).route \/ q.picked # p.picked
      /\ Shows(p) => Shows(q)
      /\ (Distinct(p) /\ ~ Due(p, Selected(p)) /\ \E i : i \in DOMAIN p.entries)
           => Selected(p).route \in Routes(q)
  BY ReopenEffect
<1> HIDE DEF q
<1>2. Updated(q, r)
  BY <1>1, SetContactsUpdates
<1> HIDE DEF r
<1>3. /\ r \in Phones /\ r.active = TRUE /\ r.looping = TRUE /\ r.asked = q.asked
      /\ q.picked => r.picked
      /\ Distinct(r) /\ Selected(q).route \in Routes(r) =>
           Selected(r).route = Selected(q).route \/ r.picked # q.picked
      /\ Shows(q) => Shows(r)
  BY <1>1, <1>2 DEF Updated
<1>4. Handled(p, r) /\ PruneKept(p, r)
  BY <1>1, <1>3 DEF Handled, PruneKept
<1>5. p.picked \in BOOLEAN /\ q.picked \in BOOLEAN /\ r.picked \in BOOLEAN
  BY <1>1, <1>3 DEF Phones, PhoneType
<1>6. SelectionKept(p, r)
  <2> SUFFICES ASSUME Selected(p).route \in Routes(r), ~ Due(p, Selected(p)), Distinct(p),
                      Distinct(r), r.picked = p.picked
               PROVE  Selected(r).route = Selected(p).route
    BY Zenon DEF SelectionKept
  <2>1. q.picked = p.picked /\ r.picked = q.picked
    BY <1>1, <1>3, <1>5, Zenon
  <2>2. \E i : i \in DOMAIN p.entries
    <3> SUFFICES ASSUME ~ \E i : i \in DOMAIN p.entries
                 PROVE  FALSE
      OBVIOUS
    <3>1. Selected(p).route = None
      BY SelectedFacts
    <3>2. None \notin Routes(r)
      BY <1>3, SelectedFacts
    <3> QED
      BY <3>1, <3>2
  <2>3. Selected(q).route = Selected(p).route
    BY <1>1, <2>1, <2>2
  <2> QED
    BY <1>3, <2>1, <2>3
<1>7. Maintained(p, r)
  BY <1>4, <1>6 DEF Maintained
<1> QED
  BY <1>7 DEF q, r

\* flush_contacts leaves nobody to select.
LEMMA FlushMaintains ==
  ASSUME NEW p \in Phones
  PROVE  Maintained(p, Publish([p EXCEPT !.entries = <<>>, !.cursor = 1]))
<1> DEFINE e == With(p, <<>>, 1)
           q == Publish(e)
<1>1. e \in Phones /\ e.entries = <<>> /\ SameRest(p, e)
  <2>1. <<>> \in Seq(Contact) /\ Len(<<>>) = 0 /\ OneSlot(<<>>)
    BY DEF OneSlot
  <2>2. 0 <= MaxContacts /\ 1 \in 1..MaxContacts
    BY PhonebookAssumption
  <2> QED
    BY <2>1, <2>2, Rearranged
<1>2. q = Publish([p EXCEPT !.entries = <<>>, !.cursor = 1])
  BY Zenon DEF With
<1> HIDE DEF e
<1>3. q \in Phones /\ OnlyShown(e, q) /\ Shows(q)
  BY <1>1, PublishEffect
<1> HIDE DEF q
<1>4. Routes(q) = {}
  BY <1>1, <1>3 DEF Routes, OnlyShown
<1>5. q.active = p.active /\ q.looping = p.looping /\ q.asked = p.asked
  BY <1>1, <1>3 DEF SameRest, SameDialPlan, OnlyShown
<1>6. Maintained(p, q)
  BY <1>3, <1>4, <1>5 DEF Maintained, Handled, SelectionKept, PruneKept
<1> QED
  BY <1>2, <1>6

\* CYCLE_TIMEOUT_MS pass.
LEMMA LateMaintains ==
  ASSUME NEW p \in Phones
  PROVE  LET q == [p EXCEPT !.late = TRUE] IN Maintained(p, q) /\ q.active = p.active
<1> DEFINE q == [p EXCEPT !.late = TRUE]
<1>1. p \in PhoneType
  BY DEF Phones
<1>2. q \in PhoneType
  BY <1>1, Zenon DEF PhoneType
<1>3. BookKept(p, q) /\ q.active = p.active /\ q.looping = p.looping
  BY <1>1 DEF PhoneType, BookKept, SameDialPlan
<1> HIDE DEF q
<1>4. q \in Phones /\ q.asked = p.asked
  BY <1>2, <1>3 DEF Phones, BookKept, SameDialPlan
<1>5. Selected(q) = Selected(p) /\ (Shows(p) <=> Shows(q))
  BY <1>3, BookKeptShows
<1>6. Maintained(p, q)
  BY <1>3, <1>4, <1>5 DEF Maintained, Handled, SelectionKept, PruneKept
<1> QED
  BY <1>3, <1>6 DEF q

\* loop() closes a cycle that is late, and goes on while it is needed.
LEMMA LoopMaintains ==
  ASSUME NEW p \in Phones
  PROVE  LET c == IF p.active /\ p.late THEN CommitCycle(p) ELSE p IN
         Maintained(p, [c EXCEPT !.looping = c.active \/ c.call.state # "IDLE"])
<1> DEFINE c == IF p.active /\ p.late THEN CommitCycle(p) ELSE p
           on == c.active \/ c.call.state # "IDLE"
           q == [c EXCEPT !.looping = on]
<1>1. /\ c \in Phones /\ c.asked = p.asked
      /\ Selected(p).route \in Routes(c) =>
           Selected(c).route = Selected(p).route \/ c.picked # p.picked
      /\ Shows(p) => Shows(c)
      /\ PruneKept(p, c)
  <2>1. CASE p.active /\ p.late
    <3>1. c = CommitCycle(p)
      BY <2>1
    <3>2. Committed(p, c)
      BY <2>1, <3>1, CommitEffect
    <3> HIDE DEF c
    <3> QED
      BY <3>2 DEF Committed, PruneKept
  <2>2. CASE ~ (p.active /\ p.late)
    BY <2>2 DEF PruneKept
  <2> QED
    BY <2>1, <2>2
<1> HIDE DEF c
<1>2. c \in PhoneType /\ on \in BOOLEAN
  BY <1>1 DEF Phones
<1>3. (c.active => on)
  OBVIOUS
<1> HIDE DEF on
<1>4. q \in PhoneType
  BY <1>2, Zenon DEF PhoneType
<1>5. BookKept(c, q) /\ q.active = c.active /\ q.looping = on
  BY <1>2 DEF PhoneType, BookKept, SameDialPlan
<1> HIDE DEF q
<1>6. q \in Phones /\ q.asked = c.asked /\ q.picked = c.picked
  BY <1>1, <1>4, <1>5 DEF Phones, BookKept, SameDialPlan
<1>7. Selected(q) = Selected(c) /\ Routes(q) = Routes(c) /\ (Shows(c) <=> Shows(q))
  BY <1>5, BookKeptShows
<1>8. Handled(p, q)
  BY <1>1, <1>3, <1>5, <1>6, <1>7, Zenon DEF Handled
<1>9. SelectionKept(p, q)
  BY <1>1, <1>6, <1>7 DEF SelectionKept
<1>10. PruneKept(p, q)
  BY <1>1, <1>5, <1>7 DEF PruneKept
<1>11. Maintained(p, q)
  BY <1>8, <1>9, <1>10 DEF Maintained
<1> QED
  BY <1>11 DEF q, on, c

-----------------------------------------------------------------------------
(* The user and the calls. *)

\* A handler of the user's or of a call: the update cycle stays open, or closed.
Steady(p, q) == Handled(p, q) /\ q.active = p.active

\* set_contact.
LEMMA SetContactSteady ==
  ASSUME NEW p \in Phones, NEW x
  PROVE  Steady(p, Publish(Select(p, x)))
<1> DEFINE s == Select(p, x)
           q == Publish(s)
<1>1. s \in Phones /\ SameRest(p, s)
  BY SelectEffect
<1> HIDE DEF s
<1>2. q \in Phones /\ OnlyShown(s, q) /\ Shows(q)
  BY <1>1, PublishEffect
<1> HIDE DEF q
<1>3. Steady(p, q)
  BY <1>1, <1>2 DEF Steady, Handled, SameRest, SameDialPlan, OnlyShown
<1> QED
  BY <1>3 DEF q, s

\* set_ha_peer_name.
LEMMA HaNameSteady ==
  ASSUME NEW p \in Phones, NEW x \in HaNames
  PROVE  Steady(p, [p EXCEPT !.ha = x])
<1> DEFINE q == [p EXCEPT !.ha = x]
<1>1. p \in PhoneType /\ x \in Names \cup {None}
  BY PhonebookAssumption DEF Phones
<1>2. q \in PhoneType
  BY <1>1 DEF PhoneType
<1>3. /\ q.entries = p.entries /\ q.cursor = p.cursor /\ q.active = p.active
      /\ q.looping = p.looping /\ SameDialPlan(p, q)
  BY <1>1 DEF PhoneType, SameDialPlan
<1> HIDE DEF q
<1>4. Selected(q) = Selected(p) /\ (Distinct(q) <=> Distinct(p))
  BY <1>3, SameBook
<1>5. Destination(q) = Destination(p)
  BY <1>3, <1>4 DEF Destination, SameDialPlan
<1>6. Shows(p) => Shows(q)
  BY <1>3, <1>4, <1>5 DEF Shows, SameDialPlan
<1>7. Steady(p, q)
  BY <1>2, <1>3, <1>6 DEF Steady, Handled, Phones, SameDialPlan
<1> QED
  BY <1>7 DEF q

\* The remainder of a division is less than what is divided by.
LEMMA Remainder ==
  ASSUME NEW i \in Nat, NEW n \in Nat, n > 0
  PROVE  i % n \in 0..(n - 1)
OBVIOUS

\* next_contact and prev_contact: the cursor wraps around.
LEMMA BrowsedEffect ==
  ASSUME NEW p \in Phones, p.entries # <<>>, NEW k \in Nat
  PROVE  LET q == Browsed(p, k) IN
         Steady(p, q) /\ Shows(q) /\ q.call = p.call /\ q.entries = p.entries
<1> DEFINE n == Len(p.entries)
           c == ((p.cursor - 1 + k) % n) + 1
           r == [p EXCEPT !.cursor = c]
           s == [r EXCEPT !.reason = FALSE]
           t == [s EXCEPT !.last = None]
           q == Publish(t)
<1>1. p \in PhoneType /\ n \in Nat /\ n > 0 /\ n <= MaxContacts /\ p.cursor \in Nat /\ p.cursor >= 1
      /\ MaxContacts \in Nat
  BY PhoneFields, PhonebookAssumption
<1>2. c \in 1..n
  <2>1. p.cursor - 1 + k \in Nat
    BY <1>1
  <2> HIDE DEF n
  <2>2. (p.cursor - 1 + k) % n \in 0..(n - 1)
    BY <1>1, <2>1, Remainder, Zenon
  <2>3. \A i \in 0..(n - 1) : i + 1 \in 1..n
    BY <1>1
  <2> QED
    BY <2>2, <2>3, Zenon
<1>3. t = [p EXCEPT !.cursor = c, !.reason = FALSE, !.last = None]
  OBVIOUS
<1>4. q = Browsed(p, k)
  BY <1>3, Zenon DEF Browsed
<1> HIDE DEF c
<1>5. r \in PhoneType
  BY <1>1, <1>2 DEF PhoneType
<1>6. /\ r.entries = p.entries /\ r.cursor = c /\ r.active = p.active /\ r.looping = p.looping
      /\ r.asked = p.asked /\ r.call = p.call
  BY <1>1 DEF PhoneType
<1> HIDE DEF r
<1>7. s \in PhoneType
  BY <1>5, Zenon DEF PhoneType
<1>8. /\ s.entries = r.entries /\ s.cursor = r.cursor /\ s.active = r.active
      /\ s.looping = r.looping /\ s.asked = r.asked /\ s.call = r.call
  BY <1>5 DEF PhoneType
<1> HIDE DEF s
<1>9. t \in PhoneType
  BY <1>7 DEF PhoneType, Shown
<1>10. /\ t.entries = s.entries /\ t.cursor = s.cursor /\ t.active = s.active
       /\ t.looping = s.looping /\ t.asked = s.asked /\ t.call = s.call
  BY <1>7 DEF PhoneType
<1> HIDE DEF t
<1>11. t \in Phones
  BY <1>1, <1>2, <1>6, <1>8, <1>9, <1>10 DEF Phones
<1>12. q \in Phones /\ OnlyShown(t, q) /\ Shows(q)
  BY <1>11, PublishEffect
<1> HIDE DEF q
<1>13. Steady(p, q)
  BY <1>6, <1>8, <1>10, <1>12 DEF Steady, Handled, OnlyShown
<1> QED
  BY <1>4, <1>6, <1>8, <1>10, <1>12, <1>13 DEF OnlyShown

\* What a call is not about.
BookOnly(p, q) ==
    /\ q.entries = p.entries /\ q.cursor = p.cursor /\ q.active = p.active
    /\ q.asked = p.asked
    /\ p.looping => q.looping

\* end_call_.
LEMMA EndedEffect ==
  ASSUME NEW p \in Phones
  PROVE  LET q == Ended(p) IN q \in Phones /\ BookOnly(p, q) /\ q.call.state = "ENDED"
<1> DEFINE call == [NoCall EXCEPT !.state = "ENDED"]
           a == [p EXCEPT !.pending = None]
           b == [a EXCEPT !.redial = FALSE]
           c == [b EXCEPT !.tried = FALSE]
           d == [c EXCEPT !.reason = TRUE]
           e == [d EXCEPT !.last = p.call.dest]
           q == [e EXCEPT !.call = call]
<1>1. p \in PhoneType /\ p.call.dest \in Shown
  BY DEF Phones, PhoneType, CallType
<1>2. call \in CallType /\ call.state = "ENDED"
  BY DEF NoCall, CallType, Shown
<1>3. Ended(p) = q
  BY DEF Ended
<1> HIDE DEF call
<1>4. a \in PhoneType
  BY <1>1 DEF PhoneType
<1>5. BookOnly(p, a)
  BY <1>1 DEF PhoneType, BookOnly
<1> HIDE DEF a
<1>6. b \in PhoneType
  BY <1>4, Zenon DEF PhoneType
<1>7. BookOnly(a, b)
  BY <1>4 DEF PhoneType, BookOnly
<1> HIDE DEF b
<1>8. c \in PhoneType
  BY <1>6, Zenon DEF PhoneType
<1>9. BookOnly(b, c)
  BY <1>6 DEF PhoneType, BookOnly
<1> HIDE DEF c
<1>10. d \in PhoneType
  BY <1>8, Zenon DEF PhoneType
<1>11. BookOnly(c, d)
  BY <1>8 DEF PhoneType, BookOnly
<1> HIDE DEF d
<1>12. e \in PhoneType
  BY <1>1, <1>10 DEF PhoneType
<1>13. BookOnly(d, e)
  BY <1>10 DEF PhoneType, BookOnly
<1> HIDE DEF e
<1>14. q \in PhoneType
  BY <1>2, <1>12 DEF PhoneType
<1>15. BookOnly(e, q) /\ q.call = call
  BY <1>12 DEF PhoneType, BookOnly
<1> HIDE DEF q
<1>16. BookOnly(p, q)
  BY <1>5, <1>7, <1>9, <1>11, <1>13, <1>15, Zenon DEF BookOnly
<1> QED
  BY <1>2, <1>3, <1>14, <1>15, <1>16 DEF Phones, BookOnly

\* start_call_attempt_ takes the target of call_(), or the selected contact.
LEMMA DialEffect ==
  ASSUME NEW p \in Phones
  PROVE  LET q == Dial(p) IN
         /\ q \in Phones /\ BookOnly(p, q) /\ q.call.state \in {"OUT", "ENDED"}
         /\ q.call.state = "OUT" /\ p.entries # <<>> =>
              q.call.dest = Target(p).dest /\ q.call.ep = Target(p).ep
<1> DEFINE dest == IF p.pending # None THEN p.pending
                   ELSE IF p.entries # <<>> THEN Selected(p).name
                   ELSE IF p.ha # None THEN p.ha ELSE Unknown
           call == [state |-> "OUT", dest |-> dest, ep |-> Selected(p).ep]
           a == [p EXCEPT !.call = call]
           b == [a EXCEPT !.reason = FALSE]
           c == [b EXCEPT !.last = None]
           d == [c EXCEPT !.tried = FALSE]
           e == [d EXCEPT !.redial = FALSE]
           out == [e EXCEPT !.looping = TRUE]
           f == [out EXCEPT !.pending = None]
<1>1. p \in PhoneType
  BY DEF Phones
<1>2. call \in CallType
  <2>1. Selected(p).name \in Names \cup {None} /\ Selected(p).ep \in Endpoints \cup {None}
    BY DestinationType
  <2>2. p.pending \in Names \cup {None} /\ p.ha \in Names \cup {None}
    BY <1>1 DEF PhoneType
  <2>3. dest \in Shown
    BY <2>1, <2>2, Zenon DEF Shown
  <2> HIDE DEF dest
  <2> QED
    BY <2>1, <2>3 DEF CallType
<1>3. /\ call.state = "OUT" /\ call.ep = Target(p).ep
      /\ p.entries # <<>> => call.dest = Target(p).dest
  BY DEF Target
<1>4. Dial(p) = IF out.call.ep = None THEN Ended(out) ELSE f
  BY Zenon DEF Dial
<1> HIDE DEF call
<1>5. a \in PhoneType
  BY <1>1, <1>2 DEF PhoneType
<1>6. BookOnly(p, a) /\ a.call = call
  BY <1>1 DEF PhoneType, BookOnly
<1> HIDE DEF a
<1>7. b \in PhoneType
  BY <1>5, Zenon DEF PhoneType
<1>8. BookOnly(a, b) /\ b.call = a.call
  BY <1>5 DEF PhoneType, BookOnly
<1> HIDE DEF b
<1>9. c \in PhoneType
  BY <1>7 DEF PhoneType, Shown
<1>10. BookOnly(b, c) /\ c.call = b.call
  BY <1>7 DEF PhoneType, BookOnly
<1> HIDE DEF c
<1>11. d \in PhoneType
  BY <1>9, Zenon DEF PhoneType
<1>12. BookOnly(c, d) /\ d.call = c.call
  BY <1>9 DEF PhoneType, BookOnly
<1> HIDE DEF d
<1>13. e \in PhoneType
  BY <1>11, Zenon DEF PhoneType
<1>14. BookOnly(d, e) /\ e.call = d.call
  BY <1>11 DEF PhoneType, BookOnly
<1> HIDE DEF e
<1>15. out \in PhoneType
  BY <1>13, Zenon DEF PhoneType
<1>16. BookOnly(e, out) /\ out.call = e.call
  BY <1>13 DEF PhoneType, BookOnly
<1> HIDE DEF out
<1>17. BookOnly(p, out) /\ out.call = call
  BY <1>6, <1>8, <1>10, <1>12, <1>14, <1>16, Zenon DEF BookOnly
<1>18. out \in Phones
  BY <1>15, <1>17 DEF Phones, BookOnly
<1>19. CASE out.call.ep = None
  <2>1. Dial(p) = Ended(out)
    BY <1>4, <1>19, Zenon
  <2>2. LET q == Ended(out) IN q \in Phones /\ BookOnly(out, q) /\ q.call.state = "ENDED"
    BY <1>18, EndedEffect
  <2>3. BookOnly(p, Ended(out))
    BY <1>17, <2>2, Zenon DEF BookOnly
  <2> QED
    BY <2>1, <2>2, <2>3
<1>20. CASE out.call.ep # None
  <2>1. Dial(p) = f
    BY <1>4, <1>20, Zenon
  <2>2. f \in PhoneType
    BY <1>15 DEF PhoneType
  <2>3. BookOnly(out, f) /\ f.call = out.call
    BY <1>15 DEF PhoneType, BookOnly
  <2> HIDE DEF f
  <2>4. BookOnly(p, f)
    BY <1>17, <2>3, Zenon DEF BookOnly
  <2>5. f \in Phones
    BY <1>18, <2>2, <2>3 DEF Phones, BookOnly
  <2> QED
    BY <1>3, <1>17, <2>1, <2>3, <2>4, <2>5
<1> QED
  BY <1>19, <1>20

\* start_with_id_ leaves a call behind, whoever started it, or one that failed.
LEMMA StartEffect ==
  ASSUME NEW p \in Phones
  PROVE  LET q == StartWithId(p) IN
         /\ q \in Phones /\ BookOnly(p, q) /\ q.call.state # "IDLE"
         /\ p.call.state = "IDLE" /\ q.call.state = "OUT" /\ p.entries # <<>> =>
              q.call.dest = Target(p).dest /\ q.call.ep = Target(p).ep
<1>1. CASE CanStart(p)
  <2>1. StartWithId(p) = Dial(p)
    BY <1>1, Zenon DEF StartWithId
  <2> QED
    BY <2>1, DialEffect
<1>2. CASE ~ CanStart(p)
  <2> DEFINE q == [p EXCEPT !.pending = None]
  <2>1. StartWithId(p) = q
    BY <1>2, Zenon DEF StartWithId
  <2>2. p \in PhoneType /\ p.call.state # "IDLE"
    BY <1>2 DEF CanStart, Phones
  <2>3. q \in PhoneType
    BY <2>2 DEF PhoneType
  <2>4. BookOnly(p, q) /\ q.call = p.call
    BY <2>2 DEF PhoneType, BookOnly
  <2> HIDE DEF q
  <2>5. q \in Phones
    BY <2>3, <2>4 DEF Phones, BookOnly
  <2> QED
    BY <2>1, <2>2, <2>4, <2>5
<1> QED
  BY <1>1, <1>2

\* During a call nothing is promised about what is shown.
LEMMA BusySteady ==
  ASSUME NEW p, NEW q \in Phones, BookOnly(p, q), q.call.state # "IDLE"
  PROVE  Steady(p, q)
BY DEF BookOnly, Steady, Handled, Shows

\* start_() with whatever is selected.
LEMMA StartSteady ==
  ASSUME NEW p \in Phones
  PROVE  Steady(p, StartWithId(p))
<1> DEFINE q == StartWithId(p)
<1>1. q \in Phones /\ BookOnly(p, q) /\ q.call.state # "IDLE"
  BY StartEffect
<1> HIDE DEF q
<1>2. Steady(p, q)
  BY <1>1, BusySteady
<1> QED
  BY <1>2 DEF q

\* A call that rings.
LEMMA IncomingSteady ==
  ASSUME NEW p \in Phones
  PROVE  Steady(p, [p EXCEPT !.call.state = "IN", !.reason = FALSE, !.last = None,
                             !.looping = TRUE])
<1> DEFINE call == [p.call EXCEPT !.state = "IN"]
           a == [p EXCEPT !.call = call]
           b == [a EXCEPT !.reason = FALSE]
           c == [b EXCEPT !.last = None]
           q == [c EXCEPT !.looping = TRUE]
<1>1. p \in PhoneType /\ p.call \in CallType
  BY DEF Phones, PhoneType
<1>2. call \in CallType /\ call.state = "IN"
  BY <1>1 DEF CallType
<1>3. q = [p EXCEPT !.call.state = "IN", !.reason = FALSE, !.last = None, !.looping = TRUE]
  BY <1>1 DEF PhoneType
<1> HIDE DEF call
<1>4. a \in PhoneType
  BY <1>1, <1>2 DEF PhoneType
<1>5. BookOnly(p, a) /\ a.call = call
  BY <1>1 DEF PhoneType, BookOnly
<1> HIDE DEF a
<1>6. b \in PhoneType
  BY <1>4, Zenon DEF PhoneType
<1>7. BookOnly(a, b) /\ b.call = a.call
  BY <1>4 DEF PhoneType, BookOnly
<1> HIDE DEF b
<1>8. c \in PhoneType
  BY <1>6 DEF PhoneType, Shown
<1>9. BookOnly(b, c) /\ c.call = b.call
  BY <1>6 DEF PhoneType, BookOnly
<1> HIDE DEF c
<1>10. q \in PhoneType
  BY <1>8, Zenon DEF PhoneType
<1>11. BookOnly(c, q) /\ q.call = c.call
  BY <1>8 DEF PhoneType, BookOnly
<1> HIDE DEF q
<1>12. BookOnly(p, q)
  BY <1>5, <1>7, <1>9, <1>11, Zenon DEF BookOnly
<1>13. q \in Phones
  BY <1>10, <1>12 DEF Phones, BookOnly
<1>14. q.call.state # "IDLE"
  BY <1>2, <1>5, <1>7, <1>9, <1>11
<1>15. Steady(p, q)
  BY <1>12, <1>13, <1>14, BusySteady
<1> QED
  BY <1>3, <1>15

\* A call that is answered.
LEMMA AnsweredSteady ==
  ASSUME NEW p \in Phones
  PROVE  Steady(p, [p EXCEPT !.call.state = "UP", !.call.ep = None, !.tried = FALSE])
<1> DEFINE call == [p.call EXCEPT !.state = "UP", !.ep = None]
           a == [p EXCEPT !.call = call]
           q == [a EXCEPT !.tried = FALSE]
<1>1. p \in PhoneType /\ p.call \in CallType
  BY DEF Phones, PhoneType
<1>2. call \in CallType /\ call.state = "UP"
  BY <1>1 DEF CallType
<1>3. q = [p EXCEPT !.call.state = "UP", !.call.ep = None, !.tried = FALSE]
  BY <1>1 DEF PhoneType
<1> HIDE DEF call
<1>4. a \in PhoneType
  BY <1>1, <1>2 DEF PhoneType
<1>5. BookOnly(p, a) /\ a.call = call
  BY <1>1 DEF PhoneType, BookOnly
<1> HIDE DEF a
<1>6. q \in PhoneType
  BY <1>4, Zenon DEF PhoneType
<1>7. BookOnly(a, q) /\ q.call = a.call
  BY <1>4 DEF PhoneType, BookOnly
<1> HIDE DEF q
<1>8. BookOnly(p, q)
  BY <1>5, <1>7, Zenon DEF BookOnly
<1>9. q \in Phones
  BY <1>6, <1>8 DEF Phones, BookOnly
<1>10. q.call.state # "IDLE"
  BY <1>2, <1>5, <1>7
<1>11. Steady(p, q)
  BY <1>8, <1>9, <1>10, BusySteady
<1> QED
  BY <1>3, <1>11

\* A call that ends.
LEMMA EndedSteady ==
  ASSUME NEW p \in Phones
  PROVE  Steady(p, Ended(p))
<1> DEFINE q == Ended(p)
<1>1. q \in Phones /\ BookOnly(p, q) /\ q.call.state = "ENDED"
  BY EndedEffect
<1> HIDE DEF q
<1>2. Steady(p, q)
  BY <1>1, BusySteady
<1> QED
  BY <1>2 DEF q

\* A call that will be tried through Home Assistant.
LEMMA FallBackSteady ==
  ASSUME NEW p \in Phones, p.call.state = "OUT"
  PROVE  Steady(p, [p EXCEPT !.redial = TRUE, !.tried = TRUE, !.pending = None])
<1> DEFINE a == [p EXCEPT !.redial = TRUE]
           b == [a EXCEPT !.tried = TRUE]
           q == [b EXCEPT !.pending = None]
<1>1. p \in PhoneType
  BY DEF Phones
<1>2. q = [p EXCEPT !.redial = TRUE, !.tried = TRUE, !.pending = None]
  OBVIOUS
<1>3. a \in PhoneType
  BY <1>1, Zenon DEF PhoneType
<1>4. BookOnly(p, a) /\ a.call = p.call
  BY <1>1 DEF PhoneType, BookOnly
<1> HIDE DEF a
<1>5. b \in PhoneType
  BY <1>3, Zenon DEF PhoneType
<1>6. BookOnly(a, b) /\ b.call = a.call
  BY <1>3 DEF PhoneType, BookOnly
<1> HIDE DEF b
<1>7. q \in PhoneType
  BY <1>5 DEF PhoneType
<1>8. BookOnly(b, q) /\ q.call = b.call
  BY <1>5 DEF PhoneType, BookOnly
<1> HIDE DEF q
<1>9. BookOnly(p, q)
  BY <1>4, <1>6, <1>8, Zenon DEF BookOnly
<1>10. q \in Phones
  BY <1>7, <1>9 DEF Phones, BookOnly
<1>11. q.call.state # "IDLE"
  BY <1>4, <1>6, <1>8
<1>12. Steady(p, q)
  BY <1>9, <1>10, <1>11, BusySteady
<1> QED
  BY <1>2, <1>12

\* The attempt that failed is over: dial Home Assistant, or give up.
LEMMA RedialSteady ==
  ASSUME NEW p \in Phones
  PROVE  LET ep == IF Find(p, p.ha) = 0 THEN None ELSE p.entries[Find(p, p.ha)].ep
             again == [p EXCEPT !.call.ep = ep, !.redial = FALSE]
         IN  Steady(p, IF ep = None THEN Ended(again) ELSE again)
<1> DEFINE ep == IF Find(p, p.ha) = 0 THEN None ELSE p.entries[Find(p, p.ha)].ep
           call == [p.call EXCEPT !.ep = ep]
           a == [p EXCEPT !.call = call]
           q == [a EXCEPT !.redial = FALSE]
           again == [p EXCEPT !.call.ep = ep, !.redial = FALSE]
<1>1. p \in PhoneType /\ p.call \in CallType
  BY DEF Phones, PhoneType
<1>2. ep \in Endpoints \cup {None}
  <2>1. Find(p, p.ha) # 0 => Find(p, p.ha) \in DOMAIN p.entries
    BY FindFacts
  <2>2. \A i \in DOMAIN p.entries : p.entries[i].ep \in Endpoints \cup {None}
    BY PhoneFields DEF Contact
  <2> QED
    BY <2>1, <2>2
<1> HIDE DEF ep
<1>3. call \in CallType /\ call.state = p.call.state
  BY <1>1, <1>2 DEF CallType
<1>4. q = again
  BY <1>1 DEF PhoneType
<1>5. a \in PhoneType
  BY <1>1, <1>3 DEF PhoneType
<1>6. a.call.state = p.call.state /\ a.call.dest = p.call.dest
  BY <1>1 DEF PhoneType, CallType
<1> HIDE DEF call
<1>7. /\ BookOnly(p, a) /\ a.looping = p.looping /\ a.pending = p.pending /\ a.reason = p.reason
      /\ a.last = p.last /\ a.shown = p.shown /\ a.refused = p.refused
  BY <1>1 DEF PhoneType, BookOnly
<1> HIDE DEF a
<1>8. q \in PhoneType
  BY <1>5, Zenon DEF PhoneType
<1>9. /\ BookOnly(a, q) /\ q.call = a.call /\ q.pending = a.pending /\ q.reason = a.reason
      /\ q.last = a.last /\ q.shown = a.shown /\ q.refused = a.refused
  BY <1>5 DEF PhoneType, BookOnly
<1> HIDE DEF q
<1>10. BookOnly(p, q)
  BY <1>7, <1>9, Zenon DEF BookOnly
<1>11. q \in Phones
  BY <1>8, <1>10 DEF Phones, BookOnly
<1>12. /\ Selected(q) = Selected(p) /\ (Distinct(q) <=> Distinct(p))
  BY <1>10, SameBook DEF BookOnly
<1>13. Shows(p) => Shows(q)
  BY <1>6, <1>7, <1>9, <1>12 DEF Shows, Destination
<1>14. Steady(p, q)
  BY <1>10, <1>11, <1>13 DEF BookOnly, Steady, Handled
<1>15. Steady(p, Ended(q))
  <2> DEFINE r == Ended(q)
  <2>1. r \in Phones /\ BookOnly(q, r) /\ r.call.state = "ENDED"
    BY <1>11, EndedEffect
  <2> HIDE DEF r
  <2>2. BookOnly(p, r)
    BY <1>10, <2>1, Zenon DEF BookOnly
  <2>3. Steady(p, r)
    BY <2>1, <2>2, BusySteady
  <2> QED
    BY <2>3 DEF r
<1>16. Steady(p, IF ep = None THEN Ended(again) ELSE again)
  BY <1>4, <1>14, <1>15
<1> QED
  BY <1>16 DEF ep

\* The phone is idle again.
LEMMA FinishSteady ==
  ASSUME NEW p \in Phones
  PROVE  Steady(p, Publish([p EXCEPT !.call = NoCall]))
<1> DEFINE a == [p EXCEPT !.call = NoCall]
           q == Publish(a)
<1>1. p \in PhoneType /\ NoCall \in CallType
  BY DEF Phones, NoCall, CallType, Shown
<1>2. a \in PhoneType
  BY <1>1 DEF PhoneType
<1>3. BookOnly(p, a)
  BY <1>1 DEF PhoneType, BookOnly
<1> HIDE DEF a
<1>4. a \in Phones
  BY <1>2, <1>3 DEF Phones, BookOnly
<1>5. q \in Phones /\ OnlyShown(a, q) /\ Shows(q)
  BY <1>4, PublishEffect
<1> HIDE DEF q
<1>6. Steady(p, q)
  BY <1>3, <1>5 DEF BookOnly, OnlyShown, Steady, Handled
<1> QED
  BY <1>6 DEF q, a

-----------------------------------------------------------------------------
(* The invariant and its steps. *)

\* The inductive invariant: what is between two handlers, and what call_() keeps
\* while the automation runs.
BookInv ==
    /\ ph \in Phones /\ step \in {"loop", "publishing", "placing"}
    /\ step = "loop" => Shows(ph)
    /\ ph.active => ph.looping
    /\ AskedIsDialled

\* A phone has an empty phonebook and nothing to show when it starts.
LEMMA BookInvInit == Init => BookInv
<1> SUFFICES ASSUME Init PROVE BookInv
  OBVIOUS
<1>1. NoCall \in CallType /\ Nobody \in TargetType
  BY DEF NoCall, Nobody, CallType, TargetType, Shown
<1>2. MaxContacts \in Nat /\ MaxContacts >= 1
  BY PhonebookAssumption
<1>3. ph \in PhoneType
  <2>1. <<>> \in Seq(Contact) /\ 1 \in 1..MaxContacts /\ {} \in SUBSET (Names \cup {Self})
    BY <1>2
  <2>2. None \in Names \cup {None} /\ None \in Shown
    BY DEF Shown
  <2> QED
    BY <1>1, <2>1, <2>2, Zenon DEF Init, PhoneType
<1>4. /\ ph.entries = <<>> /\ ph.cursor = 1 /\ ph.active = FALSE /\ ph.asked = Nobody
      /\ ph.pending = None /\ ph.call = NoCall /\ ph.reason = FALSE /\ ph.shown = None
  BY DEF Init
<1>5. ph \in Phones
  <2>1. Len(<<>>) <= MaxContacts /\ OneSlot(<<>>)
    BY <1>2 DEF OneSlot
  <2> QED
    BY <1>3, <1>4, <2>1 DEF Phones
<1>6. Shows(ph)
  BY <1>4 DEF Shows, Destination, Selected, NoCall
<1> QED
  BY <1>4, <1>5, <1>6 DEF BookInv, AskedIsDialled, Init

\* A handler of the main loop, while no call_() is under way.
LEMMA HandledStep ==
  ASSUME BookInv, NEW q, Handle(q), Handled(ph, q)
  PROVE  BookInv'
<1>1. /\ step = "loop" /\ ph' = q /\ step' = step /\ ph \in Phones /\ Shows(ph)
      /\ (ph.active => ph.looping) /\ ph.asked = Nobody
  BY DEF BookInv, AskedIsDialled, Handle
<1>2. /\ q \in Phones /\ q.asked = ph.asked /\ (q.active => q.looping) /\ Shows(q)
  BY <1>1 DEF Handled
<1>3. ph' \in Phones /\ ph'.asked = Nobody /\ (ph'.active => ph'.looping) /\ Shows(ph')
  BY <1>1, <1>2
<1> QED
  BY <1>1, <1>3 DEF BookInv, AskedIsDialled

\* call_() has chosen whom it dials: nothing that it publishes changes that.
LEMMA ChooseStep ==
  ASSUME BookInv, step = "loop", NEW p \in Phones, p.entries # <<>>,
         p.active = ph.active, p.looping = ph.looping,
         NEW d \in Names, NEW e \in Endpoints \cup {None}, Choose(p, d, e),
         d = Target(p).dest, e = Target(p).ep
  PROVE  BookInv' /\ ph'.active = ph.active /\ ph'.call = p.call
<1> DEFINE b == Publish(p)
           a == [dest |-> d, ep |-> e]
           q == [b EXCEPT !.asked = a]
<1>1. b \in Phones /\ OnlyShown(p, b)
  BY PublishEffect
<1>2. ph' = q /\ step' \in {"publishing", "placing"}
  BY DEF Choose
<1> HIDE DEF b
<1>3. a \in TargetType
  BY DEF TargetType, Shown
<1>4. a = Target(p)
  BY DEF Target
<1> HIDE DEF a
<1>5. b \in PhoneType
  BY <1>1 DEF Phones
<1>6. q \in PhoneType
  BY <1>3, <1>5 DEF PhoneType
<1>7. /\ q.entries = b.entries /\ q.cursor = b.cursor /\ q.active = b.active
      /\ q.looping = b.looping /\ q.pending = b.pending /\ q.call = b.call /\ q.asked = a
  BY <1>5 DEF PhoneType
<1> HIDE DEF q
<1>8. q \in Phones
  BY <1>1, <1>6, <1>7 DEF Phones
<1>9. /\ q.entries = p.entries /\ q.cursor = p.cursor /\ q.active = p.active
      /\ q.looping = p.looping /\ q.pending = p.pending /\ q.call = p.call
  BY <1>1, <1>7 DEF OnlyShown
<1>10. Target(q) = a
  BY <1>4, <1>9, SameBook DEF Target
<1>11. /\ ph' \in Phones /\ ph'.entries # <<>> /\ ph'.asked = Target(ph')
       /\ ph'.active = ph.active /\ ph'.looping = ph.looping /\ ph'.call = p.call
  BY <1>2, <1>7, <1>8, <1>9, <1>10
<1>12. AskedIsDialled'
  BY <1>2, <1>11 DEF AskedIsDialled, Target, Selected
<1> QED
  BY <1>2, <1>11, <1>12 DEF BookInv

\* Home Assistant is selected for a target it is to find.
LEMMA PeerStep ==
  ASSUME BookInv, step = "loop", NEW x \in Names, CallViaPeer(x)
  PROVE  BookInv' /\ ph'.active = ph.active /\ ph'.call = ph.call
<1> DEFINE s == Select(ph, ph.ha)
           p == [s EXCEPT !.pending = x]
           i == Find(ph, ph.ha)
<1>1. ph \in Phones
  BY DEF BookInv
<1>2. i # 0 /\ Choose(p, x, ph.entries[i].ep)
  BY DEF CallViaPeer, EndpointOf, Routed
<1>3. i \in DOMAIN ph.entries /\ ph.entries[i] \in Contact
  BY <1>1, <1>2, FindFacts, PhoneFields
<1>4. /\ s \in Phones /\ s.entries = ph.entries /\ SameRest(ph, s) /\ s.cursor = i
  BY <1>1, <1>2, SelectEffect
<1> HIDE DEF s, i
<1>5. s \in PhoneType
  BY <1>4 DEF Phones
<1>6. p \in PhoneType
  BY <1>5 DEF PhoneType
<1>7. /\ p.entries = s.entries /\ p.cursor = s.cursor /\ p.active = s.active
      /\ p.looping = s.looping /\ p.call = s.call /\ p.pending = x
  BY <1>5 DEF PhoneType
<1> HIDE DEF p
<1>8. p \in Phones
  BY <1>4, <1>6, <1>7 DEF Phones
<1>9. p.entries # <<>> /\ Selected(p) = ph.entries[i]
  <2>1. \E j : j \in DOMAIN p.entries
    BY <1>3, <1>4, <1>7
  <2> QED
    BY <1>4, <1>7, <1>8, <2>1, SelectedFacts
<1>10. x # None
  BY PhonebookAssumption
<1>11. x = Target(p).dest /\ ph.entries[i].ep = Target(p).ep
  BY <1>7, <1>9, <1>10 DEF Target
<1>12. ph.entries[i].ep \in Endpoints \cup {None}
  BY <1>3 DEF Contact
<1>13. p.active = ph.active /\ p.looping = ph.looping /\ p.call = ph.call
  BY <1>4, <1>7 DEF SameRest, SameDialPlan
<1> QED
  BY <1>2, <1>8, <1>9, <1>11, <1>12, <1>13, ChooseStep

\* call_ finds a contact.
LEMMA ContactStep ==
  ASSUME BookInv, step = "loop", NEW x \in Names, Find(ph, x) # 0,
         Choose([Select(ph, x) EXCEPT !.pending = None],
                ph.entries[Find(ph, x)].name, EndpointOf(x))
  PROVE  BookInv' /\ ph'.active = ph.active /\ ph'.call = ph.call
<1> DEFINE s == Select(ph, x)
           p == [s EXCEPT !.pending = None]
           i == Find(ph, x)
<1>1. ph \in Phones
  BY DEF BookInv
<1>2. i # 0 /\ Choose(p, ph.entries[i].name, ph.entries[i].ep)
  BY DEF EndpointOf
<1>3. i \in DOMAIN ph.entries /\ ph.entries[i] \in Contact
  BY <1>1, <1>2, FindFacts, PhoneFields
<1>4. /\ s \in Phones /\ s.entries = ph.entries /\ SameRest(ph, s) /\ s.cursor = i
  BY <1>1, <1>2, SelectEffect
<1> HIDE DEF s, i
<1>5. s \in PhoneType
  BY <1>4 DEF Phones
<1>6. p \in PhoneType
  BY <1>5 DEF PhoneType
<1>7. /\ p.entries = s.entries /\ p.cursor = s.cursor /\ p.active = s.active
      /\ p.looping = s.looping /\ p.call = s.call /\ p.pending = None
  BY <1>5 DEF PhoneType
<1> HIDE DEF p
<1>8. p \in Phones
  BY <1>4, <1>6, <1>7 DEF Phones
<1>9. p.entries # <<>> /\ Selected(p) = ph.entries[i]
  <2>1. \E j : j \in DOMAIN p.entries
    BY <1>3, <1>4, <1>7
  <2> QED
    BY <1>4, <1>7, <1>8, <2>1, SelectedFacts
<1>10. ph.entries[i].name = Target(p).dest /\ ph.entries[i].ep = Target(p).ep
  BY <1>7, <1>9 DEF Target
<1>11. ph.entries[i].name \in Names /\ ph.entries[i].ep \in Endpoints \cup {None}
  BY <1>3 DEF Contact
<1>12. p.active = ph.active /\ p.looping = ph.looping /\ p.call = ph.call
  BY <1>4, <1>7 DEF SameRest, SameDialPlan
<1> QED
  BY <1>2, <1>8, <1>9, <1>10, <1>11, <1>12, ChooseStep

\* What a maintaining handler makes of the phone.
LEMMA MaintainedStep ==
  ASSUME BookInv, NEW q, Handle(q), Maintained(ph, q)
  PROVE  BookInv' /\ Maintained(ph, ph') /\ step = "loop"
<1>1. BookInv'
  BY HandledStep DEF Maintained
<1>2. ph' = q /\ step = "loop"
  BY DEF Handle
<1> QED
  BY <1>1, <1>2

\* What a steady one does.
LEMMA SteadyStep ==
  ASSUME BookInv, NEW q, Handle(q), Steady(ph, q)
  PROVE  BookInv' /\ ph'.active = ph.active /\ step = "loop"
<1>1. BookInv'
  BY HandledStep DEF Steady
<1>2. ph' = q /\ step = "loop"
  BY DEF Handle
<1> QED
  BY <1>1, <1>2 DEF Steady

\* Sources of contacts, the timeout of a cycle and the loop.
LEMMA SourcesStep ==
  ASSUME BookInv, Sources \/ CycleTimesOut \/ Loop
  PROVE  BookInv' /\ Maintained(ph, ph') /\ step = "loop"
<1>1. ph \in Phones
  BY DEF BookInv
<1>2. CASE AddContact
  <2>1. PICK row \in Rows :
          LET added == AddBatch(ph, Normalized(<<row>>))
          IN  Handle(PublishIf(added, ~SameEntries(ph, added)))
    BY <1>2, Zenon DEF AddContact
  <2>2. row \in CsvRow
    BY RosterAssumption
  <2> DEFINE added == AddBatch(ph, Normalized(<<row>>))
             q == PublishIf(added, ~SameEntries(ph, added))
  <2>3. Updated(ph, q)
    BY <1>1, <2>2, AddContactUpdates, Zenon
  <2>4. Handle(q)
    BY <2>1, Zenon
  <2> HIDE DEF q
  <2> QED
    BY <1>1, <2>3, <2>4, UpdatedMaintains, MaintainedStep
<1>3. CASE RemoveContact
  <2>1. PICK x \in Names :
          LET removed == RemoveOne(ph, x)
          IN  Handle(PublishIf(removed, ~SameEntries(ph, removed)))
    BY <1>3, Zenon DEF RemoveContact
  <2> DEFINE removed == RemoveOne(ph, x)
             q == PublishIf(removed, ~SameEntries(ph, removed))
  <2>2. Updated(ph, q)
    BY <1>1, RemovalSourced, Refreshed, Zenon
  <2>3. Handle(q)
    BY <2>1, Zenon
  <2> HIDE DEF q
  <2> QED
    BY <1>1, <2>2, <2>3, UpdatedMaintains, MaintainedStep
<1>4. CASE PushContacts
  <2>1. PICK source \in Batches \cup Rosters : Handle(SetContacts(ph, source))
    BY <1>4, Zenon DEF PushContacts
  <2>2. Updated(ph, SetContacts(ph, source))
    BY <1>1, SetContactsUpdates
  <2> QED
    BY <1>1, <2>1, <2>2, UpdatedMaintains, MaintainedStep, Zenon
<1>5. CASE UpdateContacts
  <2> DEFINE open == OpenCycle(IF ph.active THEN CommitCycle(ph) ELSE ph)
  <2>1. CASE Handle(open)
    <3>1. Maintained(ph, open)
      BY <1>1, ReopenMaintains
    <3> QED
      BY <2>1, <3>1, MaintainedStep, Zenon
  <2>2. CASE \E source \in Batches \cup Rosters : Handle(SetContacts(open, source))
    <3>1. PICK source \in Batches \cup Rosters : Handle(SetContacts(open, source))
      BY <2>2, Zenon
    <3>2. Maintained(ph, SetContacts(open, source))
      BY <1>1, RefillMaintains
    <3> QED
      BY <3>1, <3>2, MaintainedStep, Zenon
  <2> QED
    BY <1>5, <2>1, <2>2, Zenon DEF UpdateContacts
<1>6. CASE FlushContacts
  <2>1. Handle(Publish([ph EXCEPT !.entries = <<>>, !.cursor = 1]))
    BY <1>6, Zenon DEF FlushContacts
  <2> QED
    BY <1>1, <2>1, FlushMaintains, MaintainedStep, Zenon
<1>7. CASE CycleTimesOut
  <2> DEFINE q == [ph EXCEPT !.late = TRUE]
  <2>1. Handle(q)
    BY <1>7, Zenon DEF CycleTimesOut
  <2>2. Maintained(ph, q)
    BY <1>1, LateMaintains
  <2> QED
    BY <2>1, <2>2, MaintainedStep, Zenon
<1>8. CASE Loop
  <2> DEFINE p == IF ph.active /\ ph.late THEN CommitCycle(ph) ELSE ph
             q == [p EXCEPT !.looping = p.active \/ p.call.state # "IDLE"]
  <2>1. Handle(q)
    BY <1>8, Zenon DEF Loop
  <2>2. Maintained(ph, q)
    BY <1>1, LoopMaintains
  <2> QED
    BY <2>1, <2>2, MaintainedStep, Zenon
<1> QED
  BY <1>2, <1>3, <1>4, <1>5, <1>6, <1>7, <1>8, Zenon DEF Sources

\* The user, and the sensor that names Home Assistant.
LEMMA UserStep ==
  ASSUME BookInv, User
  PROVE  BookInv' /\ ph'.active = ph.active /\ step = "loop"
<1>1. ph \in Phones
  BY DEF BookInv
<1>2. CASE SetContact
  <2>1. PICK x \in Names : Handle(Publish(Select(ph, x)))
    BY <1>2, Zenon DEF SetContact
  <2> QED
    BY <1>1, <2>1, SetContactSteady, SteadyStep, Zenon
<1>3. CASE SetHaPeerName
  <2>1. PICK x \in HaNames : Handle([ph EXCEPT !.ha = x])
    BY <1>3, Zenon DEF SetHaPeerName
  <2> QED
    BY <1>1, <2>1, HaNameSteady, SteadyStep, Zenon
<1>4. CASE NextContact
  <2>1. ph.entries # <<>> /\ Handle(Browsed(ph, 1)) /\ 1 \in Nat
    BY <1>4 DEF NextContact
  <2> QED
    BY <1>1, <2>1, BrowsedEffect, SteadyStep, Zenon
<1>5. CASE PrevContact
  <2>1. ph.entries # <<>> /\ Handle(Browsed(ph, Len(ph.entries) - 1))
    BY <1>5 DEF PrevContact
  <2>2. Len(ph.entries) - 1 \in Nat
    BY <1>1, <2>1, PhoneFields
  <2> QED
    BY <1>1, <2>1, <2>2, BrowsedEffect, SteadyStep, Zenon
<1> QED
  BY <1>2, <1>3, <1>4, <1>5, Zenon DEF User

\* A call that is placed is the one that was asked for.
Dialled ==
    (ph.asked # Nobody /\ ph.call.state = "IDLE" /\ ph'.call.state = "OUT")
        => ph'.call.dest = ph.asked.dest /\ ph'.call.ep = ph.asked.ep

\* The rest of call_(), also when the automation started the call already.
LEMMA PlaceStep ==
  ASSUME BookInv, PlaceCall
  PROVE  BookInv' /\ ph'.active = ph.active /\ Dialled
<1> DEFINE s == StartWithId(ph)
           q == [s EXCEPT !.asked = Nobody]
<1>1. ph \in Phones /\ (ph.active => ph.looping) /\ AskedIsDialled
  BY DEF BookInv
<1>2. ph' = q /\ step' = "loop"
  BY DEF PlaceCall
<1>3. /\ s \in Phones /\ BookOnly(ph, s) /\ s.call.state # "IDLE"
      /\ ph.call.state = "IDLE" /\ s.call.state = "OUT" /\ ph.entries # <<>> =>
           s.call.dest = Target(ph).dest /\ s.call.ep = Target(ph).ep
  BY <1>1, StartEffect
<1> HIDE DEF s
<1>4. s \in PhoneType /\ Nobody \in TargetType
  BY <1>3 DEF Phones, Nobody, TargetType, Shown
<1>5. q \in PhoneType
  BY <1>4 DEF PhoneType
<1>6. /\ q.entries = s.entries /\ q.cursor = s.cursor /\ q.active = s.active
      /\ q.looping = s.looping /\ q.call = s.call /\ q.asked = Nobody
  BY <1>4 DEF PhoneType
<1> HIDE DEF q
<1>7. q \in Phones
  BY <1>3, <1>5, <1>6 DEF Phones
<1>8. ph' \in Phones /\ Shows(ph') /\ (ph'.active => ph'.looping) /\ ph'.asked = Nobody
      /\ ph'.active = ph.active
  BY <1>1, <1>2, <1>3, <1>6, <1>7 DEF Shows, BookOnly
<1>9. BookInv'
  BY <1>2, <1>8 DEF BookInv, AskedIsDialled
<1>10. Dialled
  BY <1>1, <1>2, <1>3, <1>6 DEF Dialled, AskedIsDialled
<1> QED
  BY <1>8, <1>9, <1>10

\* The automation that runs while call_() publishes whom it dials.
LEMMA AutomateStep ==
  ASSUME BookInv, Automate
  PROVE  BookInv' /\ ph'.active = ph.active /\ Dialled
<1>1. ph \in Phones /\ (ph.active => ph.looping) /\ AskedIsDialled
  BY DEF BookInv
<1>2. step = "publishing" /\ step' = "publishing"
  BY DEF Automate
<1>3. CASE ph' = StartWithId(ph)
  <2> DEFINE s == StartWithId(ph)
  <2>1. /\ s \in Phones /\ BookOnly(ph, s) /\ s.call.state # "IDLE"
        /\ ph.call.state = "IDLE" /\ s.call.state = "OUT" /\ ph.entries # <<>> =>
             s.call.dest = Target(ph).dest /\ s.call.ep = Target(ph).ep
    BY <1>1, StartEffect
  <2>2. ph' = s
    BY <1>3
  <2> HIDE DEF s
  <2>3. ph' \in Phones /\ (ph'.active => ph'.looping) /\ ph'.call.state # "IDLE"
        /\ ph'.active = ph.active
    BY <1>1, <2>1, <2>2 DEF BookOnly
  <2>4. BookInv'
    BY <1>2, <2>3 DEF BookInv, AskedIsDialled
  <2>5. Dialled
    BY <1>1, <2>1, <2>2 DEF Dialled, AskedIsDialled
  <2> QED
    BY <2>3, <2>4, <2>5
<1>4. CASE ph.entries # <<>> /\ ph' = [Browsed(ph, 1) EXCEPT !.asked = Nobody]
  <2> DEFINE b == Browsed(ph, 1)
             q == [b EXCEPT !.asked = Nobody]
  <2>1. Steady(ph, b) /\ b.call = ph.call
    <3>1. 1 \in Nat
      OBVIOUS
    <3> QED
      BY <1>1, <1>4, <3>1, BrowsedEffect, Zenon
  <2>2. ph' = q
    BY <1>4
  <2> HIDE DEF b
  <2>3. b \in Phones /\ b.active = ph.active /\ (b.active => b.looping)
    BY <1>1, <2>1 DEF Steady, Handled
  <2>4. b \in PhoneType /\ Nobody \in TargetType
    BY <2>3 DEF Phones, Nobody, TargetType, Shown
  <2>5. q \in PhoneType
    BY <2>4 DEF PhoneType
  <2>6. /\ q.entries = b.entries /\ q.cursor = b.cursor /\ q.active = b.active
        /\ q.looping = b.looping /\ q.call = b.call /\ q.asked = Nobody
    BY <2>4 DEF PhoneType
  <2> HIDE DEF q
  <2>7. q \in Phones
    BY <2>3, <2>5, <2>6 DEF Phones
  <2>8. ph' \in Phones /\ (ph'.active => ph'.looping) /\ ph'.asked = Nobody
        /\ ph'.active = ph.active /\ ph'.call = ph.call
    BY <2>1, <2>2, <2>3, <2>6, <2>7
  <2>9. BookInv'
    BY <1>2, <2>8 DEF BookInv, AskedIsDialled
  <2>10. Dialled
    BY <2>8 DEF Dialled
  <2> QED
    BY <2>8, <2>9, <2>10
<1> QED
  BY <1>3, <1>4 DEF Automate

\* The transport refuses the call at the last moment.
LEMMA RefusedStep ==
  ASSUME BookInv, RefusedCall
  PROVE  BookInv' /\ ph'.active = ph.active /\ Dialled
<1> DEFINE a == [ph EXCEPT !.pending = None]
           b == [a EXCEPT !.asked = Nobody]
           q == [b EXCEPT !.refused = TRUE]
<1>1. ph \in Phones /\ ph \in PhoneType /\ (ph.active => ph.looping)
  BY DEF BookInv, Phones
<1>2. ph' = q /\ step' = "loop"
  BY DEF RefusedCall
<1>3. a \in PhoneType
  BY <1>1 DEF PhoneType
<1>4. /\ a.entries = ph.entries /\ a.cursor = ph.cursor /\ a.active = ph.active
      /\ a.looping = ph.looping /\ a.call = ph.call
  BY <1>1 DEF PhoneType
<1> HIDE DEF a
<1>5. b \in PhoneType
  BY <1>3 DEF PhoneType, Nobody, TargetType, Shown
<1>6. /\ b.entries = a.entries /\ b.cursor = a.cursor /\ b.active = a.active
      /\ b.looping = a.looping /\ b.call = a.call /\ b.asked = Nobody
  BY <1>3 DEF PhoneType
<1> HIDE DEF b
<1>7. q \in PhoneType
  BY <1>5, Zenon DEF PhoneType
<1>8. /\ q.entries = b.entries /\ q.cursor = b.cursor /\ q.active = b.active
      /\ q.looping = b.looping /\ q.call = b.call /\ q.asked = b.asked /\ q.refused
  BY <1>5 DEF PhoneType
<1> HIDE DEF q
<1>9. q \in Phones
  BY <1>1, <1>4, <1>6, <1>7, <1>8 DEF Phones
<1>10. /\ ph' \in Phones /\ (ph'.active => ph'.looping) /\ ph'.asked = Nobody /\ ph'.refused
       /\ ph'.active = ph.active /\ ph'.call = ph.call
  BY <1>1, <1>2, <1>4, <1>6, <1>8, <1>9
<1>11. Shows(ph')
  BY <1>10 DEF Shows
<1>12. BookInv'
  BY <1>2, <1>10, <1>11 DEF BookInv, AskedIsDialled
<1>13. Dialled
  BY <1>10 DEF Dialled
<1> QED
  BY <1>10, <1>12, <1>13

\* Every step of a call.
LEMMA CallsStep ==
  ASSUME BookInv, Calls
  PROVE  BookInv' /\ ph'.active = ph.active /\ Dialled
<1>1. ph \in Phones /\ AskedIsDialled
  BY DEF BookInv
<1>2. step = "loop" => Dialled
  BY <1>1 DEF Dialled, AskedIsDialled
<1>3. CASE Start
  <2>1. Handle(StartWithId(ph))
    BY <1>3 DEF Start, Handle
  <2> QED
    BY <1>1, <1>2, <2>1, StartSteady, SteadyStep, Zenon
<1>4. CASE Call
  <2>1. PICK x \in Names :
          IF Find(ph, x) = 0 THEN CallViaPeer(x)
          ELSE Choose([Select(ph, x) EXCEPT !.pending = None],
                      ph.entries[Find(ph, x)].name, EndpointOf(x))
    BY <1>4, Zenon DEF Call
  <2>2. step = "loop"
    BY <1>4 DEF Call
  <2>3. CASE Find(ph, x) = 0
    BY <1>2, <2>1, <2>2, <2>3, PeerStep, Zenon
  <2>4. CASE Find(ph, x) # 0
    BY <1>2, <2>1, <2>2, <2>4, ContactStep, Zenon
  <2> QED
    BY <2>3, <2>4
<1>5. CASE CallViaHa
  <2>1. PICK x \in Names : CallViaPeer(x)
    BY <1>5, Zenon DEF CallViaHa
  <2>2. step = "loop"
    BY <1>5 DEF CallViaHa
  <2> QED
    BY <1>2, <2>1, <2>2, PeerStep, Zenon
<1>6. CASE IncomingCall
  <2>1. Handle([ph EXCEPT !.call.state = "IN", !.reason = FALSE, !.last = None,
                          !.looping = TRUE])
    BY <1>6, Zenon DEF IncomingCall
  <2> QED
    BY <1>1, <1>2, <2>1, IncomingSteady, SteadyStep, Zenon
<1>7. CASE Answered
  <2>1. Handle([ph EXCEPT !.call.state = "UP", !.call.ep = None, !.tried = FALSE])
    BY <1>7, Zenon DEF Answered
  <2> QED
    BY <1>1, <1>2, <2>1, AnsweredSteady, SteadyStep, Zenon
<1>8. CASE EndCall
  <2>1. Handle(Ended(ph))
    BY <1>8, Zenon DEF EndCall
  <2> QED
    BY <1>1, <1>2, <2>1, EndedSteady, SteadyStep, Zenon
<1>9. CASE FallBack
  <2>1. /\ ph.call.state = "OUT"
        /\ Handle([ph EXCEPT !.redial = TRUE, !.tried = TRUE, !.pending = None])
    BY <1>9, Zenon DEF FallBack
  <2> QED
    BY <1>1, <1>2, <2>1, FallBackSteady, SteadyStep, Zenon
<1>10. CASE Redial
  <2> DEFINE ep == IF Find(ph, ph.ha) = 0 THEN None ELSE ph.entries[Find(ph, ph.ha)].ep
             again == [ph EXCEPT !.call.ep = ep, !.redial = FALSE]
             q == IF ep = None THEN Ended(again) ELSE again
  <2>1. Handle(q)
    BY <1>10, Zenon DEF Redial
  <2>2. Steady(ph, q)
    BY <1>1, RedialSteady, Zenon
  <2> HIDE DEF q
  <2> QED
    BY <1>2, <2>1, <2>2, SteadyStep, Zenon
<1>11. CASE Finish
  <2>1. Handle(Publish([ph EXCEPT !.call = NoCall]))
    BY <1>11, Zenon DEF Finish
  <2> QED
    BY <1>1, <1>2, <2>1, FinishSteady, SteadyStep, Zenon
<1> QED
  BY <1>3, <1>4, <1>5, <1>6, <1>7, <1>8, <1>9, <1>10, <1>11, PlaceStep, AutomateStep,
     RefusedStep, Zenon DEF Calls

-----------------------------------------------------------------------------
(* The theorems. *)

\* Every step keeps BookInv.
LEMMA BookInvStep == BookInv /\ [Next]_vars => BookInv'
<1> SUFFICES ASSUME BookInv, [Next]_vars PROVE BookInv'
  OBVIOUS
<1>1. CASE UNCHANGED vars
  BY <1>1 DEF vars, BookInv, AskedIsDialled, Target, Selected
<1>2. CASE Next
  BY <1>2, SourcesStep, UserStep, CallsStep, Zenon DEF Next
<1> QED
  BY <1>1, <1>2

\* A phonebook with one slot for each route has as many routes as slots.
LEMMA SlotsAreRoutes ==
  ASSUME NEW p \in Phones
  PROVE  Cardinality(Routes(p)) = Len(p.entries)
<1> DEFINE n == Len(p.entries)
           f == [i \in 1..n |-> p.entries[i].route]
<1>1. n \in Nat /\ DOMAIN p.entries = 1..n /\ OneSlot(p.entries)
  BY PhoneFields
<1>2. f \in [1..n -> Routes(p)]
  BY <1>1 DEF Routes
<1>3. \A i, j \in 1..n : f[i] = f[j] => i = j
  BY <1>1 DEF OneSlot
<1>4. \A r \in Routes(p) : \E i \in 1..n : f[i] = r
  BY <1>1 DEF Routes
<1> HIDE DEF n, f
<1>5. f \in Bijection(1..n, Routes(p))
  <2>1. DOMAIN f = 1..n
    BY <1>2
  <2>2. IsInjective(f)
    BY <1>3, <2>1, Zenon DEF IsInjective
  <2> QED
    BY <1>2, <1>4, <2>2, Zenon DEF Bijection, Injection, Surjection
<1>6. ExistsBijection(1..n, Routes(p))
  BY <1>5, Zenon DEF ExistsBijection
<1>7. Cardinality(Routes(p)) = n
  BY <1>1, <1>6, FS_CountingElements, Zenon
<1> QED
  BY <1>7 DEF n

\* BookInv says what the run checks.
LEMMA BookInvImplies == BookInv => PhonebookInv
<1> SUFFICES ASSUME BookInv PROVE PhonebookInv
  OBVIOUS
<1>1. ph \in Phones
  BY DEF BookInv
<1>2. TypeOK
  BY <1>1, PhoneFields DEF BookInv, TypeOK
<1>3. RouteHasOneSlot
  BY <1>1, SlotsAreRoutes DEF RouteHasOneSlot
<1>4. ShownDestination
  BY DEF BookInv, Shows, ShownDestination
<1>5. OpenCycleIsWatched /\ AskedIsDialled
  BY DEF BookInv, OpenCycleIsWatched
<1> QED
  BY <1>2, <1>3, <1>4, <1>5 DEF PhonebookInv

\* The phone is one of Phones, and what it shows, watches and dials agrees with its
\* contacts, in every state.
THEOREM BookInvariant == Spec => []BookInv
BY BookInvInit, BookInvStep, PTL DEF Spec

\* However many contacts, sources and rosters there are: add_entry and replace_all
\* leave one slot for each route, publish_destination_ is never forgotten, an open
\* cycle keeps loop() enabled, and call_() is about to dial what it looked up.
THEOREM PhonebookHolds == Spec => []PhonebookInv
BY BookInvariant, BookInvImplies, PTL

\* One step of the phone does to the selection only what it may.
LEMMA SelectionStep ==
  ASSUME BookInv, [Next]_vars
  PROVE  (/\ Selected(ph).route \in Routes(ph') /\ ~Due(ph, Selected(ph))
          /\ Distinct(ph) /\ Distinct(ph')
          /\ Selected(ph').route # Selected(ph).route)
            => (User \/ Calls \/ ph'.picked # ph.picked)
<1>1. CASE UNCHANGED vars
  BY <1>1 DEF vars
<1>2. CASE User \/ Calls
  BY <1>2
<1>3. CASE Sources \/ CycleTimesOut \/ Loop
  BY <1>3, SourcesStep DEF Maintained, SelectionKept
<1> QED
  BY <1>1, <1>2, <1>3 DEF Next

\* Batches, rosters, removals and the end of a cycle move the cursor with the contact
\* it denotes (remove_one, commit_cycle, replace_all).
THEOREM SelectionIsStable == Spec => SelectionSurvives
<1>1. BookInv /\ [Next]_vars
        => [(/\ Selected(ph).route \in Routes(ph') /\ ~Due(ph, Selected(ph))
             /\ Distinct(ph) /\ Distinct(ph')
             /\ Selected(ph').route # Selected(ph).route)
               => (User \/ Calls \/ ph'.picked # ph.picked)]_vars
  BY SelectionStep
<1> QED
  BY <1>1, BookInvariant, PTL DEF Spec, SelectionSurvives

\* Only a handler that closes the cycle removes contacts with it.
LEMMA PruneStep ==
  ASSUME BookInv, [Next]_vars
  PROVE  (ph.active /\ ~ph'.active /\ Distinct(ph)) =>
            \A i \in DOMAIN ph.entries :
               ~Due(ph, ph.entries[i]) => ph.entries[i].route \in Routes(ph')
<1>1. CASE UNCHANGED vars
  BY <1>1 DEF vars
<1>2. CASE User \/ Calls
  BY <1>2, UserStep, CallsStep
<1>3. CASE Sources \/ CycleTimesOut \/ Loop
  BY <1>3, SourcesStep DEF Maintained, PruneKept
<1> QED
  BY <1>1, <1>2, <1>3 DEF Next

\* commit_cycle, and with it the forced close in loop(), keeps whoever was seen or was
\* missing for fewer cycles than prune_threshold_, when names differ.
THEOREM PruningIsSafe == Spec => PrunesOnlyStale
<1>1. BookInv /\ [Next]_vars
        => [(ph.active /\ ~ph'.active /\ Distinct(ph)) =>
              \A i \in DOMAIN ph.entries :
                 ~Due(ph, ph.entries[i]) => ph.entries[i].route \in Routes(ph')]_vars
  BY PruneStep
<1> QED
  BY <1>1, BookInvariant, PTL DEF Spec, PrunesOnlyStale

\* A step that dials belongs to call_() or to its automation.
LEMMA DialledStep ==
  ASSUME BookInv, [Next]_vars
  PROVE  Dialled
<1>1. CASE UNCHANGED vars
  BY <1>1 DEF vars, Dialled
<1>2. CASE Calls
  BY <1>2, CallsStep
<1>3. CASE Sources \/ User \/ CycleTimesOut \/ Loop
  <2>1. step = "loop"
    BY <1>3, SourcesStep, UserStep
  <2> QED
    BY <2>1 DEF BookInv, AskedIsDialled, Dialled
<1> QED
  BY <1>1, <1>2, <1>3 DEF Next

\* call_ and call_via_ha reach the target they were given at the endpoint of the dial
\* plan, also when on_destination_changed ran in between and started the call itself.
THEOREM CallsGoWhereAsked == Spec => CallGoesWhereAsked
<1>1. BookInv /\ [Next]_vars
        => [(ph.asked # Nobody /\ ph.call.state = "IDLE" /\ ph'.call.state = "OUT")
              => ph'.call.dest = ph.asked.dest /\ ph'.call.ep = ph.asked.ep]_vars
  BY DialledStep DEF Dialled
<1> QED
  BY <1>1, BookInvariant, PTL DEF Spec, CallGoesWhereAsked

=============================================================================
