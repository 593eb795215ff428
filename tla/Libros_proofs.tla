---------------------------- MODULE Libros_proofs ---------------------------
(***************************************************************************)
(* Proofs about the books and about what is read of them, for any number   *)
(* of seasons, people, functions, sales and tickets and any length of      *)
(* time: the screens of Pantallas and the mails of Avisos.                 *)
(***************************************************************************)
EXTENDS Pantallas, Avisos, Sumas_proofs, SequenceTheorems

---------------------------------------------------------------------------
(* The inductive invariant of the books.                                   *)

\* A sale was made by now, and no ticket of a cancelled one is good.
SalesAreDated == \A s \in sold : made[s] <= now
VoidedIsEmpty == \A t \in Tickets : SaleOf[t] \in voided => ticket[t] = "void"

\* Whoever is at the door, or was, has a ticket.
EnteredHasTicket == \A t \in arriving \cup checkins : ticket[t] # "none"

Books ==
    /\ TypeOK /\ IsFiniteSet(sold)
    /\ SalesAreDated /\ VoidedIsEmpty /\ EnteredHasTicket

---------------------------------------------------------------------------
(* The inductive invariant of the mails.                                   *)

Due == [seller : Users, balance : Int]
Answers == {"none", "preview", "sent", "failed"}

Job == [pc : {"idle", "next", "sources", "send", "record", "done"},
        what : {"none", "tickets", "reminder", "reminders"},
        todo : SUBSET (Sales \cup Due), of : {0} \cup Sales \cup Users, codes : SUBSET Tickets,
        amount : Int, settled : Int, rows : SUBSET [sale : Sales, paid : Int],
        whole : BOOLEAN, status : Answers, listed : Int, gone : SUBSET Tickets, at : Nat]

MailTypeOK ==
    /\ demo \in BOOLEAN
    /\ job \in [Requests -> Job]
    /\ attempts \in [Sales -> Seq(Answers)]
    /\ reminders \in [Users -> Seq([status : Answers, amount : Int])]

Reminds(j) == j.what \in {"reminder", "reminders"}

\* What a request is about exists: sales that were made, or people.
JobIsAbout(j) ==
    /\ j.pc \notin {"idle", "done"} => j.what # "none"
    /\ j.pc = "sources" => Reminds(j)
    /\ j.what = "tickets" => /\ j.todo \subseteq sold
                             /\ j.pc \in {"send", "record"} => j.of \in sold
    /\ Reminds(j) => /\ j.todo \subseteq Due
                     /\ j.pc \in {"sources", "send", "record"} => j.of \in Users

\* A ticket that was cancelled when it began still is, and is not in what it sends.
TicketsAreGood(j) ==
    /\ j.gone \subseteq Cancelled
    /\ j.pc = "send" /\ j.what = "tickets" =>
          /\ j.codes \cap j.gone = {}
          /\ j.codes # {} \/ \A t \in TicketsOf(j.of) : ticket[t] = "void"

Collected(e, u) == PaidOf(ChargedIn(e) \cap By(u))
Owes(e, u) == Collected(e, u) - settled[e][u]

\* While nothing is written, what a reminder has read is how things are.
StillSo(j) ==
    j.at = writes /\ Reminds(j) =>
        /\ j.what = "reminders" => \A d \in j.todo : d.balance = Owes(ActiveSeason, d.seller) /\ d.balance > 0
        /\ j.pc \in {"sources", "send"} =>
              /\ j.amount = Owes(ActiveSeason, j.of) /\ j.settled = settled[ActiveSeason][j.of]
              /\ j.what = "reminders" => j.amount = j.listed /\ j.amount > 0
        /\ j.pc = "send" =>
              /\ j.rows \subseteq SellerDebtSources(j.of, ActiveSeason)
              /\ j.whole <=> j.rows = SellerDebtSources(j.of, ActiveSeason)

TicketsMailed(s) == \E m \in outbox : m.what = "tickets" /\ m.of = s
Reminded(u, amount) == \E m \in RemindersSent : m.of = u /\ m.amount = amount

\* A request that is about to record a mail as sent has sent it.
HasSent(j) ==
    j.pc = "record" /\ j.status = "sent" =>
        /\ ~demo
        /\ j.what = "tickets" => TicketsMailed(j.of)
        /\ Reminds(j) => Reminded(j.of, j.amount)

\* Every attempt recorded as sent left, not just the last one.
EverySentLeft ==
    /\ \A s \in Sales : \A i \in DOMAIN attempts[s] : attempts[s][i] = "sent" => TicketsMailed(s)
    /\ \A u \in Users : \A i \in DOMAIN reminders[u] :
          reminders[u][i].status = "sent" => Reminded(u, reminders[u][i].amount)
    /\ demo => outbox = {}

JobInv(j) == /\ j.at <= writes
             /\ JobIsAbout(j) /\ TicketsAreGood(j) /\ StillSo(j) /\ HasSent(j)

MailInv ==
    /\ Books /\ MailTypeOK
    /\ \A p \in Requests : JobInv(job[p])
    /\ EverySentLeft /\ MailMatchesTickets /\ ReminderIsTrue

---------------------------------------------------------------------------
(* The sums of the books are weights.                                      *)

LEMMA PaidOfIsWeight ==
  ASSUME NEW S, IsFiniteSet(S), NEW w, \A s \in S : w[s] \in Int /\ w[s] = Paid(s)
  PROVE  PaidOf(S) = Weight(w, S)
<1> DEFINE Choice(T) == CHOOSE x \in T : TRUE
           Eq(g) == g = [T \in SUBSET S |->
                           IF T = {} THEN 0 ELSE Paid(Choice(T)) + g[T \ {Choice(T)}]]
<1>1. PaidOf(S) = (CHOOSE g : Eq(g))[S]
  BY DEF PaidOf, MapThenSumSet, MapThenFoldSet
<1>2. ASSUME NEW g
      PROVE  Eq(g) <=> IsSum(g, w, S)
  <2>1. \A T \in SUBSET S : T # {} => Paid(Choice(T)) = w[Choice(T)]
    OBVIOUS
  <2> HIDE DEF Choice
  <2> QED
    BY <2>1, ZenonT(40) DEF IsSum, Choice
<1> HIDE DEF Eq
<1> QED
  BY <1>1, <1>2, ChosenWeight

---------------------------------------------------------------------------
(* Least and greatest.                                                     *)

LEMMA MinOf ==
  ASSUME NEW S, S \subseteq Int, IsFiniteSet(S), S # {}
  PROVE  Min(S) \in S /\ \A y \in S : Min(S) <= y
<1> DEFINE k == [x \in S |-> x]
<1>1. \A x \in S : k[x] \in Int /\ k[x] = x
  OBVIOUS
<1> HIDE DEF k
<1>2. \E x \in S : \A y \in S : k[x] <= k[y]
  BY <1>1, SomeLeast
<1>3. \E x \in S : \A y \in S : x <= y
  BY <1>1, <1>2
<1> QED
  BY <1>3 DEF Min

LEMMA MaxOf ==
  ASSUME NEW S, S \subseteq Int, IsFiniteSet(S), S # {}
  PROVE  Max(S) \in S
<1> DEFINE k == [x \in S |-> -x]
<1>1. \A x \in S : k[x] \in Int /\ k[x] = -x
  OBVIOUS
<1> HIDE DEF k
<1>2. \E x \in S : \A y \in S : k[x] <= k[y]
  BY <1>1, SomeLeast
<1>3. \E x \in S : \A y \in S : x >= y
  BY <1>1, <1>2
<1> QED
  BY <1>3 DEF Max

---------------------------------------------------------------------------
(* The payments of a sale.                                                 *)

\* paid_cents adds up the rows of a sale, whichever comes first.
LEMMA FoldIsWeight ==
  ASSUME NEW q, IsFiniteSet(DOMAIN q), DOMAIN q \subseteq Int, \A i \in DOMAIN q : q[i] \in Int
  PROVE  FoldLeft(Plus, 0, q) = Weight(q, DOMAIN q)
<1> DEFINE D == DOMAIN q
           Eq(g) == g = [T \in SUBSET D |->
                           IF T = {} THEN 0 ELSE Plus(g[T \ {Max(T)}], q[Max(T)])]
           h == [T \in SUBSET D |-> Weight(q, T)]
<1>1. FoldLeft(Plus, 0, q) = (CHOOSE g : Eq(g))[D]
  BY DEF FoldLeft, MapThenFoldSet
<1>2. \A T \in SUBSET D : T # {} => Max(T) \in T
  BY MaxOf, FS_Subset
<1>3. \A T \in SUBSET D : Weight(q, T) \in Int
  <2> SUFFICES ASSUME NEW T \in SUBSET D
               PROVE  Weight(q, T) \in Int
    OBVIOUS
  <2>1. IsFiniteSet(T) /\ \A i \in T : q[i] \in Int
    BY FS_Subset
  <2> QED
    BY <2>1, WeightType
<1>4. ASSUME NEW T \in SUBSET D
      PROVE  h[T] = IF T = {} THEN 0 ELSE Plus(h[T \ {Max(T)}], q[Max(T)])
  <2>1. CASE T = {}
    BY <2>1, WeightEmpty
  <2>2. CASE T # {}
    <3> DEFINE m == Max(T)
    <3>1. m \in T
      BY <1>2, <2>2
    <3> HIDE DEF m
    <3>2. q[m] + Weight(q, T \ {m}) = Weight(q, T)
      BY <3>1, WeightChoice
    <3>3. Weight(q, T \ {m}) \in Int /\ q[m] \in Int
      BY <1>3, <3>1
    <3>4. h[T] = Plus(h[T \ {m}], q[m])
      BY <3>1, <3>2, <3>3 DEF Plus
    <3> QED
      BY <2>2, <3>4 DEF m
  <2> QED
    BY <2>1, <2>2
<1>5. Eq(h)
  BY <1>4
<1> HIDE DEF h
<1>6. Eq(CHOOSE g : Eq(g))
  BY <1>5
<1> DEFINE c == CHOOSE g : Eq(g)
<1>7. \A T \in SUBSET D : c[T] = IF T = {} THEN 0 ELSE Plus(c[T \ {Max(T)}], q[Max(T)])
  BY <1>6
<1> HIDE DEF c, Eq
<1>8. \A T \in SUBSET D : c[T] = Weight(q, T)
  <2> DEFINE G == {T \in SUBSET D : c[T] # Weight(q, T)}
  <2>1. SUFFICES ASSUME G # {} PROVE FALSE
    OBVIOUS
  <2>2. PICK T \in G : \A V \in G : ~(V \subseteq T /\ V # T)
    <3>1. G \subseteq SUBSET D
      OBVIOUS
    <3> HIDE DEF G, D
    <3> QED
      BY <2>1, <3>1, SmallestSubset DEF D
  <2>3. T # {}
    BY <1>7, <2>2, WeightEmpty
  <2> DEFINE m == Max(T)
  <2>4. m \in T
    BY <1>2, <2>2, <2>3
  <2>5. c[T] = Plus(c[T \ {m}], q[m])
    BY <1>7, <2>2, <2>3
  <2> HIDE DEF m
  <2>6. c[T \ {m}] = Weight(q, T \ {m})
    BY <2>2, <2>4
  <2>7. q[m] + Weight(q, T \ {m}) = Weight(q, T)
    BY <2>2, <2>4, WeightChoice
  <2>8. Weight(q, T \ {m}) \in Int /\ q[m] \in Int
    BY <1>3, <2>2, <2>4
  <2> QED
    BY <2>2, <2>5, <2>6, <2>7, <2>8 DEF Plus
<1> QED
  BY <1>1, <1>8 DEF c

Cents == 0..MaxCents
PaidSum(q) == FoldLeft(Plus, 0, q)

LEMMA SeqFacts ==
  ASSUME NEW q \in Seq(Cents)
  PROVE  /\ Len(q) \in Nat /\ DOMAIN q = 1..Len(q) /\ IsFiniteSet(DOMAIN q)
         /\ \A i \in DOMAIN q : q[i] \in Cents /\ q[i] \in Int /\ q[i] >= 0
         /\ PaidSum(q) = Weight(q, DOMAIN q) /\ PaidSum(q) \in Nat
<1>1. Len(q) \in Nat /\ DOMAIN q = 1..Len(q)
  BY LenProperties
<1>2. IsFiniteSet(DOMAIN q)
  BY <1>1, FS_Interval
<1>3. \A i \in DOMAIN q : q[i] \in Cents
  BY <1>1, ElementOfSeq
<1>4. \A i \in DOMAIN q : q[i] \in Int /\ q[i] >= 0
  BY <1>3, LibrosAssumption DEF Cents
<1>5. PaidSum(q) = Weight(q, DOMAIN q)
  <2>1. DOMAIN q \subseteq Int
    BY <1>1
  <2> QED
    BY <1>2, <1>4, <2>1, FoldIsWeight DEF PaidSum
<1>6. Weight(q, DOMAIN q) \in Nat
  BY <1>2, <1>4, WeightPositive
<1> QED
  BY <1>1, <1>2, <1>3, <1>4, <1>5, <1>6

LEMMA PaidEmpty ==
  /\ <<>> \in Seq(Cents)
  /\ PaidSum(<<>>) = 0
<1>1. <<>> \in Seq(Cents) /\ DOMAIN <<>> = {}
  BY EmptySeq, LenProperties
<1> QED
  BY <1>1, SeqFacts, WeightEmpty

LEMMA PaidAppend ==
  ASSUME NEW q \in Seq(Cents), NEW c \in Cents
  PROVE  /\ Append(q, c) \in Seq(Cents)
         /\ PaidSum(Append(q, c)) = PaidSum(q) + c
<1> DEFINE r == Append(q, c)
           n == Len(q)
           D == DOMAIN q
<1>1. r \in Seq(Cents) /\ Len(r) = n + 1 /\ (\A i \in 1..n : r[i] = q[i]) /\ r[n + 1] = c
  BY AppendProperties
<1> HIDE DEF r
<1>2. n \in Nat /\ D = 1..n /\ DOMAIN r = 1..(n + 1)
  BY <1>1, SeqFacts
<1>3. DOMAIN r = D \cup {n + 1} /\ n + 1 \notin D
  BY <1>2
<1>4. IsFiniteSet(D) /\ \A i \in D : r[i] = q[i]
  BY <1>1, <1>2, SeqFacts
<1>5. \A i \in D \cup {n + 1} : r[i] \in Int
  BY <1>1, <1>3, SeqFacts
<1>6. PaidSum(r) = Weight(r, DOMAIN r) /\ PaidSum(q) = Weight(q, D)
  BY <1>1, SeqFacts
<1>7. Weight(r, D) = Weight(q, D)
  BY <1>4, WeightSame
<1> HIDE DEF D, n
<1>8. Weight(r, D \cup {n + 1}) = Weight(r, D) + c
  <2> DEFINE m == n + 1
  <2>1. m \notin D /\ r[m] = c /\ \A i \in D \cup {m} : r[i] \in Int
    BY <1>1, <1>3, <1>5
  <2> HIDE DEF m
  <2>2. Weight(r, D \cup {m}) = Weight(r, D) + r[m]
    BY <1>4, <2>1, WeightAdd
  <2> QED
    BY <2>1, <2>2 DEF m
<1>9. PaidSum(r) = PaidSum(q) + c
  BY Zenon, <1>3, <1>6, <1>7, <1>8
<1> QED
  BY <1>1, <1>9 DEF r

\* Without one of its payments a sale has no more, and not less than nothing.
LEMMA PaidRemoveAt ==
  ASSUME NEW q \in Seq(Cents), NEW i \in DOMAIN q
  PROVE  /\ RemoveAt(q, i) \in Seq(Cents)
         /\ PaidSum(RemoveAt(q, i)) \in 0..PaidSum(q)
<1> DEFINE a == SubSeq(q, 1, i - 1)
           b == SubSeq(q, i + 1, Len(q))
           r == RemoveAt(q, i)
           h == [j \in DOMAIN r |-> IF j < i THEN j ELSE j + 1]
<1>1. Len(q) \in Nat /\ DOMAIN q = 1..Len(q) /\ i \in 1..Len(q)
  BY SeqFacts
<1>2. /\ a \in Seq(Cents) /\ Len(a) = i - 1 /\ \A j \in 1..(i - 1) : a[j] = q[j]
  <2>1. /\ 1 \in 1..(Len(q) + 1) /\ i - 1 \in 1..Len(q) \cup {0}
        /\ \A j \in 1..(i - 1) : j \in 1..Len(q) /\ 1 + j - 1 = j
    BY <1>1
  <2> QED
    BY <1>1, <2>1, SubSeqProperties
<1>3. /\ b \in Seq(Cents) /\ Len(b) = Len(q) - i /\ \A j \in 1..(Len(q) - i) : b[j] = q[i + j]
  <2> DEFINE m == i + 1
             n == Len(q)
  <2>1. /\ m \in Int /\ n \in Int /\ n - m + 1 = Len(q) - i
        /\ (IF m <= n THEN n - m + 1 ELSE 0) = Len(q) - i
    BY <1>1
  <2>2. \A j \in 1..(Len(q) - i) : m + j - 1 = i + j
    BY <1>1
  <2>3. b = SubSeq(q, m, n)
    OBVIOUS
  <2>4. \A j \in m..n : q[j] \in Cents
    <3>1. \A j \in m..n : j \in 1..Len(q)
      BY <1>1
    <3> QED
      BY <1>1, <3>1
  <2> HIDE DEF m, n, b
  <2>5. /\ SubSeq(q, m, n) \in Seq(Cents)
        /\ Len(SubSeq(q, m, n)) = IF m <= n THEN n - m + 1 ELSE 0
        /\ \A j \in 1..(n - m + 1) : SubSeq(q, m, n)[j] = q[m + j - 1]
    BY <2>1, <2>4, SubSeqProperties
  <2> QED
    BY <2>1, <2>2, <2>3, <2>5
<1>4. r = a \o b
  BY DEF RemoveAt
<1> HIDE DEF a, b, r
<1>5. /\ r \in Seq(Cents) /\ Len(r) = Len(q) - 1
      /\ \A j \in 1..Len(r) : r[j] = IF j < i THEN q[j] ELSE q[j + 1]
  <2>1. /\ r \in Seq(Cents) /\ Len(r) = Len(a) + Len(b)
        /\ \A j \in 1..Len(r) : r[j] = IF j <= Len(a) THEN a[j] ELSE b[j - Len(a)]
    BY <1>2, <1>3, <1>4, ConcatProperties
  <2>2. Len(r) = Len(q) - 1
    BY <1>1, <1>2, <1>3, <2>1
  <2>3. ASSUME NEW j \in 1..Len(r)
        PROVE  r[j] = IF j < i THEN q[j] ELSE q[j + 1]
    <3>1. CASE j < i
      BY <3>1, <1>1, <1>2, <2>1, <2>2
    <3>2. CASE ~(j < i)
      <4> DEFINE k == j - (i - 1)
      <4>1. k \in 1..(Len(q) - i) /\ i + k = j + 1 /\ ~(j <= i - 1)
        BY <3>2, <1>1, <2>2
      <4>2. r[j] = b[k]
        BY <1>2, <2>1, <4>1
      <4> HIDE DEF k
      <4>3. b[k] = q[i + k]
        BY <1>3, <4>1
      <4> QED
        BY <3>2, <4>1, <4>2, <4>3
    <3> QED
      BY <3>1, <3>2
  <2> QED
    BY <2>1, <2>2, <2>3
<1>6. IsFiniteSet(DOMAIN r) /\ DOMAIN r = 1..(Len(q) - 1) /\ \A j \in DOMAIN r : r[j] \in Int
  BY <1>5, SeqFacts
<1>7. \A j \in DOMAIN r : h[j] \in DOMAIN q /\ q[h[j]] = r[j]
  BY <1>1, <1>5, <1>6
<1>8. \A j, k \in DOMAIN r : h[j] = h[k] => j = k
  BY <1>1, <1>6
<1> HIDE DEF h
<1> DEFINE I == {h[j] : j \in DOMAIN r}
<1>9. Weight(q, I) = Weight(r, DOMAIN r)
  <2> DEFINE D == DOMAIN r
  <2>1. IsFiniteSet(D) /\ \A x \in D : r[x] \in Int /\ q[h[x]] = r[x]
    BY <1>6, <1>7
  <2>2. Renames(h, D, I)
    BY <1>8 DEF Renames
  <2> HIDE DEF D, I
  <2>3. Weight(q, I) = Weight(r, D)
    BY <2>1, <2>2, WeightOfImage
  <2> QED
    BY <2>3 DEF D
<1>10. I \subseteq DOMAIN q
  BY <1>7
<1> HIDE DEF I
<1>11. Weight(q, I) <= Weight(q, DOMAIN q)
  <2> DEFINE R == DOMAIN q \ I
  <2>1. IsFiniteSet(DOMAIN q) /\ IsFiniteSet(I) /\ IsFiniteSet(R)
    BY <1>10, SeqFacts, FS_Subset
  <2>2. \A j \in DOMAIN q : q[j] \in Int /\ q[j] >= 0
    BY SeqFacts
  <2>3. I \cap R = {} /\ I \cup R = DOMAIN q
    BY <1>10
  <2>4. \A j \in R : q[j] \in Int /\ q[j] >= 0
    BY <2>2
  <2>5. \A j \in I \cup R : q[j] \in Int
    BY <2>2, <2>3
  <2>6. \A j \in I : q[j] \in Int
    BY <2>2, <1>10
  <2> HIDE DEF R
  <2>7. Weight(q, I \cup R) = Weight(q, I) + Weight(q, R)
    BY <2>1, <2>3, <2>5, WeightUnion
  <2>8. Weight(q, R) \in Nat /\ Weight(q, I) \in Int
    BY <2>1, <2>4, <2>6, WeightPositive, WeightType
  <2>9. Weight(q, DOMAIN q) = Weight(q, I) + Weight(q, R)
    BY Zenon, <2>3, <2>7
  <2> QED
    BY <2>8, <2>9
<1>12. PaidSum(r) = Weight(r, DOMAIN r) /\ PaidSum(r) \in Nat /\ PaidSum(q) = Weight(q, DOMAIN q) /\ PaidSum(q) \in Nat
  BY <1>5, SeqFacts
<1>13. PaidSum(r) \in 0..PaidSum(q)
  BY <1>9, <1>11, <1>12
<1> QED
  BY <1>5, <1>13 DEF r

LEMMA PaidIs ==
  ASSUME NEW s
  PROVE  Paid(s) = PaidSum(charges[s]) /\ Paid(s)' = PaidSum(charges'[s])
  BY DEF Paid, PaidSum

---------------------------------------------------------------------------
(* Tickets and what a sale is worth.                                       *)

LEMMA ConstantFacts ==
  /\ IsFiniteSet(Seasons) /\ IsFiniteSet(Users) /\ IsFiniteSet(Functions)
  /\ ActiveSeason \in Seasons
  /\ \A s \in Sales : /\ s \in Nat
                      /\ FunctionOf[s] \in Functions /\ SellerOf[s] \in Users
                      /\ SeasonOf[FunctionOf[s]] \in Seasons
                      /\ IsFiniteSet(TicketsOf(s))
  /\ \A t \in Tickets : SaleOf[t] \in Sales
  /\ \A f \in Functions : SeasonOf[f] \in Seasons
  BY LibrosAssumption DEF TicketsOf

LEMMA QuantityType ==
  ASSUME NEW s \in Sales
  PROVE  Quantity(s) \in Nat
  BY ConstantFacts, FS_CardinalityType DEF Quantity

LEMMA AmountType ==
  ASSUME NEW s \in Sales, worth \in [Sales -> Nat]
  PROVE  Amount(s) \in Nat
  BY DEF Amount

\* What a sale is worth the day it is made.
LEMMA SaleAmountType ==
  ASSUME NEW s \in Sales, NEW cents \in Nat
  PROVE  SaleAmount(s, cents) \in Nat
<1>1. Quantity(s) \in Nat
  BY QuantityType
<1>2. cents * Quantity(s) \in Nat
  BY <1>1
<1> QED
  BY <1>2 DEF SaleAmount

\* The tickets of some sales, whatever became of them.
TicketsIn(S) == {t \in Tickets : SaleOf[t] \in S}

LEMMA TicketsFinite ==
  ASSUME NEW S, S \subseteq Sales, IsFiniteSet(S)
  PROVE  IsFiniteSet(TicketsIn(S))
<1> DEFINE F == {U \in SUBSET S : IsFiniteSet(TicketsIn(U))}
<1>1. {} \in F
  <2>1. TicketsIn({}) = {}
    BY DEF TicketsIn
  <2> QED
    BY <2>1, FS_EmptySet
<1>2. ASSUME NEW U \in SUBSET S, U \in F, NEW s \in S \ U
      PROVE  U \cup {s} \in F
  <2>1. TicketsIn(U \cup {s}) = TicketsIn(U) \cup TicketsOf(s)
    BY DEF TicketsIn, TicketsOf
  <2>2. IsFiniteSet(TicketsIn(U)) /\ IsFiniteSet(TicketsOf(s))
    BY <1>2, ConstantFacts
  <2>3. IsFiniteSet(TicketsIn(U) \cup TicketsOf(s))
    BY <2>2, FS_Union
  <2> QED
    BY <2>1, <2>3
<1> HIDE DEF F
<1>3. S \in F
  BY <1>1, <1>2, SubsetInduction
<1> QED
  BY <1>3 DEF F

LEMMA LiveIsPart ==
  ASSUME NEW S
  PROVE  LiveTickets(S) \subseteq TicketsIn(S)
  BY DEF LiveTickets, TicketsIn

LEMMA LiveFinite ==
  ASSUME Books, NEW S, S \subseteq sold
  PROVE  IsFiniteSet(S) /\ IsFiniteSet(LiveTickets(S)) /\ Cardinality(LiveTickets(S)) \in Nat
<1>1. IsFiniteSet(S) /\ S \subseteq Sales
  BY FS_Subset DEF Books, TypeOK
<1>2. IsFiniteSet(TicketsIn(S))
  BY <1>1, TicketsFinite
<1>3. IsFiniteSet(LiveTickets(S))
  BY <1>2, LiveIsPart, FS_Subset
<1> QED
  BY <1>1, <1>3, FS_CardinalityType

---------------------------------------------------------------------------
(* The books keep their invariant.                                         *)

LEMMA InitBooks ==
  ASSUME Init
  PROVE  Books
<1>1. worth \in [Sales -> Nat] /\ \A s \in Sales \ sold : worth[s] = 0
  <2>1. \A s \in Sales : SaleAmount(s, FirstPrice[FunctionOf[s]]) \in Nat
    BY LibrosAssumption, SaleAmountType
  <2>2. worth = FirstWorth /\ sold = FirstSales
    BY DEF Init
  <2> QED
    BY <2>1, <2>2 DEF FirstWorth
<1>2. \A s \in Sales : Paid(s) \in 0..Amount(s)
  <2> SUFFICES ASSUME NEW s \in Sales
               PROVE  Paid(s) \in 0..Amount(s)
    OBVIOUS
  <2>1. charges[s] \in Seq(Cents)
    BY LibrosAssumption DEF Init, Cents
  <2>2. Paid(s) \in Nat
    BY <2>1, SeqFacts, PaidIs
  <2>3. Paid(s) <= Amount(s)
    BY FirstBooksAssumption DEF Init, Paid, Amount
  <2> QED
    BY <1>1, <2>2, <2>3, AmountType
<1>3. \A t \in Tickets : ticket[t] = "none" <=> SaleOf[t] \notin sold
  BY DEF Init
<1>4. TypeOK
  BY <1>1, <1>2, <1>3, LibrosAssumption DEF Init, TypeOK, Roles
<1>5. SalesAreDated /\ VoidedIsEmpty /\ EnteredHasTicket /\ IsFiniteSet(sold)
  BY LibrosAssumption DEF Init, SalesAreDated, VoidedIsEmpty, EnteredHasTicket
<1> QED
  BY <1>4, <1>5 DEF Books

---------------------------------------------------------------------------
(* A writer touches a few tables and leaves the others alone.              *)

TeamOK == /\ role \in [Seasons -> [Users -> Roles \cup {"none"}]]
          /\ left \in [Seasons -> SUBSET Users]
          /\ \A e \in Seasons : \A u \in left[e] : role[e][u] # "none"
          /\ logged \subseteq Users

AgendaOK == /\ start \in [Functions -> 0..MaxTime] /\ now \in 0..MaxTime
            /\ capacity \in [Functions -> Nat \ {0}] /\ price \in [Functions -> Nat]
            /\ editing \subseteq Edits
            /\ quota \in [Functions -> [Users -> Nat]]

SalesOK == /\ sold \subseteq Sales /\ voided \subseteq sold /\ IsFiniteSet(sold)
           /\ made \in [Sales -> 0..MaxTime] /\ worth \in [Sales -> Nat]
           /\ \A s \in Sales \ sold : worth[s] = 0

TicketsOK == /\ ticket \in [Tickets -> {"none", "issued", "checked_in", "void"}]
             /\ \A t \in Tickets : ticket[t] = "none" <=> SaleOf[t] \notin sold
             /\ arriving \subseteq Tickets /\ checkins \subseteq Tickets

ChargesOK == /\ charges \in [Sales -> Seq(Cents)]
             /\ \A s \in Sales : PaidSum(charges[s]) \in 0..Amount(s)

SettledOK == settled \in [Seasons -> [Users -> Nat]]

WritesOK == writes \in 0..MaxWrites

LEMMA BooksParts ==
  /\ Books <=> /\ TeamOK /\ AgendaOK /\ SalesOK /\ TicketsOK /\ ChargesOK /\ SettledOK /\ WritesOK
               /\ SalesAreDated /\ VoidedIsEmpty /\ EnteredHasTicket
  /\ Books' <=> /\ TeamOK' /\ AgendaOK' /\ SalesOK' /\ TicketsOK' /\ ChargesOK' /\ SettledOK' /\ WritesOK'
                /\ SalesAreDated' /\ VoidedIsEmpty' /\ EnteredHasTicket'
<1>1. TypeOK /\ IsFiniteSet(sold) <=>
        TeamOK /\ AgendaOK /\ SalesOK /\ TicketsOK /\ ChargesOK /\ SettledOK /\ WritesOK
  BY PaidIs DEF TypeOK, TeamOK, AgendaOK, SalesOK, TicketsOK, ChargesOK, SettledOK, WritesOK, Cents
<1>2. TypeOK' /\ IsFiniteSet(sold)' <=>
        TeamOK' /\ AgendaOK' /\ SalesOK' /\ TicketsOK' /\ ChargesOK' /\ SettledOK' /\ WritesOK'
  BY PaidIs DEF TypeOK, TeamOK, AgendaOK, SalesOK, TicketsOK, ChargesOK, SettledOK, WritesOK, Cents
<1> QED
  BY <1>1, <1>2 DEF Books

LEMMA TeamSame == ASSUME TeamOK, UNCHANGED team PROVE TeamOK'
  BY DEF TeamOK, team

LEMMA AgendaSame == ASSUME AgendaOK, UNCHANGED agenda PROVE AgendaOK'
  BY DEF AgendaOK, agenda

LEMMA MoneySame ==
  ASSUME ChargesOK, SettledOK, UNCHANGED money, worth' = worth
  PROVE  ChargesOK' /\ SettledOK'
<1>1. charges' = charges /\ settled' = settled
  BY DEF money
<1>2. \A s \in Sales : PaidSum(charges[s])' = PaidSum(charges[s]) /\ Amount(s)' = Amount(s)
  BY <1>1 DEF PaidSum, Amount
<1> QED
  BY <1>1, <1>2 DEF ChargesOK, SettledOK

LEMMA DeskSame ==
  ASSUME Books, UNCHANGED desk, now' = now
  PROVE  /\ SalesOK' /\ TicketsOK'
         /\ SalesAreDated' /\ VoidedIsEmpty' /\ EnteredHasTicket'
<1> QED
  BY BooksParts DEF desk, SalesOK, TicketsOK, SalesAreDated, VoidedIsEmpty, EnteredHasTicket

LEMMA WriteOK == ASSUME WritesOK, Write PROVE WritesOK' /\ writes' = writes + 1 /\ writes \in Nat /\ writes' \in Nat
  BY LibrosAssumption DEF WritesOK, Write

---------------------------------------------------------------------------
(* ... the tickets and the sales,                                          *)

LEMMA VoidTicketKeeps ==
  ASSUME Books, NEW t \in Tickets, VoidTicket(t)
  PROVE  Books'
<1> USE BooksParts
<1>1. TeamOK' /\ AgendaOK' /\ ChargesOK' /\ SettledOK' /\ WritesOK'
  BY TeamSame, AgendaSame, MoneySame, WriteOK DEF VoidTicket
<1>2. SalesOK' /\ TicketsOK' /\ SalesAreDated' /\ VoidedIsEmpty' /\ EnteredHasTicket'
  BY DEF VoidTicket, SalesOK, TicketsOK, SalesAreDated, VoidedIsEmpty, EnteredHasTicket, agenda
<1> QED
  BY <1>1, <1>2

LEMMA VoidSaleKeeps ==
  ASSUME Books, NEW s \in Sales, VoidSale(s)
  PROVE  Books'
<1> USE BooksParts
<1>1. TeamOK' /\ AgendaOK' /\ ChargesOK' /\ SettledOK' /\ WritesOK'
  BY TeamSame, AgendaSame, MoneySame, WriteOK DEF VoidSale
<1>2. SalesOK' /\ TicketsOK' /\ SalesAreDated' /\ VoidedIsEmpty' /\ EnteredHasTicket'
  BY DEF VoidSale, SalesOK, TicketsOK, SalesAreDated, VoidedIsEmpty, EnteredHasTicket, agenda
<1> QED
  BY <1>1, <1>2

LEMMA ArriveKeeps ==
  ASSUME Books, NEW t \in Tickets, Arrive(t)
  PROVE  Books'
<1> USE BooksParts
<1>1. TeamOK' /\ AgendaOK' /\ ChargesOK' /\ SettledOK' /\ WritesOK'
  BY TeamSame, AgendaSame, MoneySame, WriteOK DEF Arrive
<1>2. SalesOK' /\ TicketsOK' /\ SalesAreDated' /\ VoidedIsEmpty' /\ EnteredHasTicket'
  BY DEF Arrive, SalesOK, TicketsOK, SalesAreDated, VoidedIsEmpty, EnteredHasTicket, agenda
<1> QED
  BY <1>1, <1>2

LEMMA InsertCheckinKeeps ==
  ASSUME Books, NEW t \in Tickets, InsertCheckin(t)
  PROVE  Books'
<1> USE BooksParts
<1>1. TeamOK' /\ AgendaOK' /\ ChargesOK' /\ SettledOK' /\ WritesOK'
  BY TeamSame, AgendaSame, MoneySame, WriteOK DEF InsertCheckin
<1>2. SalesOK' /\ TicketsOK' /\ SalesAreDated' /\ VoidedIsEmpty' /\ EnteredHasTicket'
  BY DEF InsertCheckin, SalesOK, TicketsOK, SalesAreDated, VoidedIsEmpty, EnteredHasTicket, agenda
<1> QED
  BY <1>1, <1>2

LEMMA CreateSaleFacts ==
  ASSUME Books, NEW s \in Sales, CreateSale(s)
  PROVE  /\ s \notin sold /\ sold' = sold \cup {s} /\ voided' = voided
         /\ \A t \in TicketsOf(s) : ticket[t] = "none" /\ ticket'[t] = "issued"
         /\ \A t \in Tickets \ TicketsOf(s) : ticket'[t] = ticket[t]
<1>1. s \in Sales \ sold
  <2>1. Sales \ sold # {} /\ Sales \ sold \subseteq Nat
    BY LibrosAssumption, BooksParts DEF CreateSale, SalesOK
  <2>2. \E x \in Sales \ sold : \A y \in Sales \ sold : x <= y
    <3> DEFINE N == Sales \ sold
    <3>1. N \subseteq Nat /\ N # {}
      BY <2>1
    <3>2. PICK n \in N : TRUE
      BY <3>1
    <3> DEFINE L == {m \in N : m <= n}
               k == [x \in L |-> x]
    <3>3. IsFiniteSet(L) /\ L # {} /\ \A x \in L : k[x] \in Int /\ k[x] = x
      <4>1. L \subseteq 0..n /\ n \in Nat /\ IsFiniteSet(0..n)
        BY <3>1, FS_Interval
      <4> QED
        BY <3>1, <4>1, FS_Subset
    <3> HIDE DEF L, k
    <3>4. PICK x \in L : \A y \in L : k[x] <= k[y]
      BY <3>3, SomeLeast
    <3>5. x \in N /\ \A y \in N : x <= y
      <4>1. \A y \in L : x <= y
        BY <3>3, <3>4
      <4> HIDE DEF N
      <4>2. x \in N /\ x \in Nat /\ x <= n /\ n \in Nat
        BY <3>1 DEF L
      <4> QED
        BY <3>1, <4>1, <4>2 DEF L
    <3> QED
      BY <3>5
  <2>3. Min(Sales \ sold) \in Sales \ sold
    BY <2>2 DEF Min
  <2> QED
    BY <2>3 DEF CreateSale
<1> QED
  BY <1>1, BooksParts DEF CreateSale, TicketsOK, TicketsOf

LEMMA CreateSaleKeeps ==
  ASSUME Books, NEW s \in Sales, CreateSale(s)
  PROVE  Books'
<1> USE BooksParts
<1>1. TeamOK' /\ AgendaOK' /\ SettledOK' /\ WritesOK'
  BY TeamSame, AgendaSame, WriteOK DEF CreateSale, SettledOK, money
<1> DEFINE w == SaleAmount(s, price[FunctionOf[s]])
<1>2. SalesOK'
  <2>1. IsFiniteSet(sold')
    BY CreateSaleFacts, FS_AddElement DEF SalesOK
  <2>2. w \in Nat /\ worth' = [worth EXCEPT ![s] = w]
    <3>1. price[FunctionOf[s]] \in Nat
      BY ConstantFacts DEF AgendaOK
    <3> QED
      BY <3>1, SaleAmountType DEF CreateSale
  <2> HIDE DEF w
  <2>3. worth' \in [Sales -> Nat] /\ \A x \in Sales \ sold' : worth'[x] = 0
    BY <2>2, CreateSaleFacts DEF SalesOK
  <2> QED
    BY <2>1, <2>3, CreateSaleFacts DEF CreateSale, SalesOK, AgendaOK
<1>3. TicketsOK'
  BY CreateSaleFacts, ConstantFacts DEF CreateSale, SalesOK, TicketsOK, TicketsOf
<1>4. SalesAreDated'
  BY CreateSaleFacts DEF CreateSale, SalesAreDated, SalesOK, AgendaOK, agenda
<1>5. VoidedIsEmpty' /\ EnteredHasTicket'
  BY CreateSaleFacts DEF CreateSale, VoidedIsEmpty, EnteredHasTicket, SalesOK, TicketsOK, TicketsOf
<1>6. ChargesOK'
  <2>1. charges' = charges
    BY DEF CreateSale, money
  <2>2. worth \in [Sales -> Nat] /\ worth[s] = 0 /\ w \in Nat /\ worth' = [worth EXCEPT ![s] = w]
    <3>1. price[FunctionOf[s]] \in Nat
      BY ConstantFacts DEF AgendaOK
    <3> QED
      BY <3>1, SaleAmountType, CreateSaleFacts DEF CreateSale, SalesOK
  <2> HIDE DEF w
  <2>3. ASSUME NEW x \in Sales
        PROVE  PaidSum(charges'[x]) \in 0..worth'[x]
    <3>1. PaidSum(charges[x]) \in 0..worth[x]
      BY DEF ChargesOK, Amount
    <3>2. worth[x] \in Nat /\ worth'[x] \in Nat /\ worth[x] <= worth'[x]
      BY <2>2
    <3> DEFINE c == PaidSum(charges[x])
    <3> HIDE DEF c
    <3>3. c \in 0..worth[x]
      BY <3>1 DEF c
    <3>4. c \in 0..worth'[x]
      BY <3>2, <3>3
    <3> QED
      BY <2>1, <3>4 DEF c
  <2>4. \A x \in Sales : PaidSum(charges[x])' = PaidSum(charges'[x]) /\ Amount(x)' = worth'[x]
    BY DEF PaidSum, Amount
  <2> QED
    BY <2>1, <2>3, <2>4 DEF ChargesOK
<1> QED
  BY <1>1, <1>2, <1>3, <1>4, <1>5, <1>6

---------------------------------------------------------------------------
(* ... the money,                                                          *)

\* The charges of one sale become q.
LEMMA ChargesChange ==
  ASSUME ChargesOK, NEW s \in Sales, NEW q \in Seq(Cents), PaidSum(q) \in 0..Amount(s),
         charges' = [charges EXCEPT ![s] = q], worth' = worth
  PROVE  ChargesOK'
<1>1. charges' \in [Sales -> Seq(Cents)]
  BY DEF ChargesOK
<1>2. \A x \in Sales : charges'[x] = IF x = s THEN q ELSE charges[x]
  BY DEF ChargesOK
<1>3. \A x \in Sales : PaidSum(charges'[x]) \in 0..Amount(x)
  BY <1>2 DEF ChargesOK
<1>4. \A x \in Sales : PaidSum(charges[x])' = PaidSum(charges'[x]) /\ Amount(x)' = Amount(x)
  BY DEF PaidSum, Amount
<1> QED
  BY <1>1, <1>3, <1>4 DEF ChargesOK

LEMMA CreateSalePaymentKeeps ==
  ASSUME Books, NEW s \in Sales, NEW c \in 1..MaxCents, CreateSalePayment(s, c)
  PROVE  Books'
<1> USE BooksParts
<1>1. TeamOK' /\ AgendaOK' /\ WritesOK'
  BY TeamSame, AgendaSame, WriteOK DEF CreateSalePayment
<1>2. /\ SalesOK' /\ TicketsOK'
      /\ SalesAreDated' /\ VoidedIsEmpty' /\ EnteredHasTicket'
  BY DeskSame DEF CreateSalePayment, agenda
<1>3. SettledOK'
  BY DEF CreateSalePayment, SettledOK
<1>4. ChargesOK'
  <2>1. charges[s] \in Seq(Cents) /\ PaidSum(charges[s]) \in 0..Amount(s) /\ Amount(s) \in Nat
    BY AmountType DEF ChargesOK, SalesOK
  <2>2. c \in Cents /\ c \in Nat /\ c <= Amount(s) - PaidSum(charges[s])
    BY <2>1, PaidIs, LibrosAssumption DEF CreateSalePayment, Cents, Debt
  <2>3. Append(charges[s], c) \in Seq(Cents) /\ PaidSum(Append(charges[s], c)) = PaidSum(charges[s]) + c
    BY <2>1, <2>2, PaidAppend
  <2>4. PaidSum(Append(charges[s], c)) \in 0..Amount(s)
    BY <2>1, <2>2, <2>3
  <2>5. charges' = [charges EXCEPT ![s] = Append(charges[s], c)]
    BY DEF CreateSalePayment
  <2>6. worth' = worth
    BY DEF CreateSalePayment, desk
  <2> QED
    BY <2>3, <2>4, <2>5, <2>6, ChargesChange
<1> QED
  BY <1>1, <1>2, <1>3, <1>4

LEMMA DeleteSalePaymentKeeps ==
  ASSUME Books, NEW s \in Sales, NEW i, DeleteSalePayment(s, i)
  PROVE  Books'
<1> USE BooksParts
<1>1. TeamOK' /\ AgendaOK' /\ WritesOK'
  BY TeamSame, AgendaSame, WriteOK DEF DeleteSalePayment
<1>2. /\ SalesOK' /\ TicketsOK'
      /\ SalesAreDated' /\ VoidedIsEmpty' /\ EnteredHasTicket'
  BY DeskSame DEF DeleteSalePayment, agenda
<1>3. SettledOK'
  BY DEF DeleteSalePayment, SettledOK
<1>4. ChargesOK'
  <2>1. charges[s] \in Seq(Cents) /\ PaidSum(charges[s]) \in 0..Amount(s) /\ Amount(s) \in Nat
    BY AmountType DEF ChargesOK, SalesOK
  <2>2. i \in DOMAIN charges[s] /\ charges' = [charges EXCEPT ![s] = RemoveAt(charges[s], i)]
    BY DEF DeleteSalePayment
  <2>3. RemoveAt(charges[s], i) \in Seq(Cents) /\ PaidSum(RemoveAt(charges[s], i)) \in 0..PaidSum(charges[s])
    BY <2>1, <2>2, PaidRemoveAt
  <2>4. PaidSum(RemoveAt(charges[s], i)) \in 0..Amount(s)
    BY <2>1, <2>3
  <2>5. worth' = worth
    BY DEF DeleteSalePayment, desk
  <2> QED
    BY <2>2, <2>3, <2>4, <2>5, ChargesChange
<1> QED
  BY <1>1, <1>2, <1>3, <1>4

LEMMA DeleteSalePaymentsKeeps ==
  ASSUME Books, NEW s \in Sales, DeleteSalePayments(s)
  PROVE  Books'
<1> USE BooksParts
<1>1. TeamOK' /\ AgendaOK' /\ WritesOK'
  BY TeamSame, AgendaSame, WriteOK DEF DeleteSalePayments
<1>2. /\ SalesOK' /\ TicketsOK'
      /\ SalesAreDated' /\ VoidedIsEmpty' /\ EnteredHasTicket'
  BY DeskSame DEF DeleteSalePayments, agenda
<1>3. SettledOK'
  BY DEF DeleteSalePayments, SettledOK
<1>4. ChargesOK'
  <2>1. <<>> \in Seq(Cents) /\ PaidSum(<<>>) \in 0..Amount(s)
    BY PaidEmpty, AmountType DEF SalesOK
  <2>2. charges' = [charges EXCEPT ![s] = <<>>] /\ worth' = worth
    BY DEF DeleteSalePayments, desk
  <2> QED
    BY <2>1, <2>2, ChargesChange
<1> QED
  BY <1>1, <1>2, <1>3, <1>4

LEMMA CreateSettlementKeeps ==
  ASSUME Books, NEW e \in Seasons, NEW u \in Users, NEW c \in 1..MaxCents, CreateSettlement(e, u, c)
  PROVE  Books'
<1> USE BooksParts
<1>1. TeamOK' /\ AgendaOK' /\ WritesOK'
  BY TeamSame, AgendaSame, WriteOK DEF CreateSettlement
<1>2. /\ SalesOK' /\ TicketsOK'
      /\ SalesAreDated' /\ VoidedIsEmpty' /\ EnteredHasTicket'
  BY DeskSame DEF CreateSettlement, agenda
<1>3. SettledOK'
  <2>1. settled[e][u] + c \in Nat
    BY LibrosAssumption DEF SettledOK
  <2> QED
    BY <2>1 DEF CreateSettlement, SettledOK
<1>4. ChargesOK'
  BY DEF CreateSettlement, ChargesOK, Amount, desk, PaidSum
<1> QED
  BY <1>1, <1>2, <1>3, <1>4

---------------------------------------------------------------------------
(* ... the team and the agenda.                                            *)

LEMMA JoinsKeeps ==
  ASSUME TeamOK, NEW e \in Seasons, NEW u \in Users, NEW r \in Roles, Joins(e, u, r), logged' = logged
  PROVE  TeamOK'
<1>1. /\ role' = [role EXCEPT ![e][u] = r]
      /\ left' = [left EXCEPT ![e] = @ \ {u}]
  BY DEF Joins
<1>2. /\ role' \in [Seasons -> [Users -> Roles \cup {"none"}]]
      /\ left' \in [Seasons -> SUBSET Users]
  BY <1>1 DEF TeamOK
<1>3. \A x \in Seasons : \A y \in left'[x] : role'[x][y] # "none"
  <2> SUFFICES ASSUME NEW x \in Seasons, NEW y \in left'[x]
               PROVE  role'[x][y] # "none"
    OBVIOUS
  <2>1. y \in left[x] /\ y \in Users /\ role[x][y] # "none" /\ (x = e => y # u)
    BY <1>1 DEF TeamOK
  <2>2. role'[x][y] = role[x][y]
    BY <1>1, <2>1 DEF TeamOK
  <2> QED
    BY <2>1, <2>2
<1> QED
  BY <1>2, <1>3 DEF TeamOK

LEMMA UpsertMembershipKeeps ==
  ASSUME Books, NEW e \in Seasons, NEW u \in Users, NEW r \in Roles, UpsertMembership(e, u, r)
  PROVE  Books'
<1> USE BooksParts
<1>1. AgendaOK' /\ WritesOK' /\ ChargesOK' /\ SettledOK'
  BY AgendaSame, MoneySame, WriteOK DEF UpsertMembership, desk
<1>2. /\ SalesOK' /\ TicketsOK'
      /\ SalesAreDated' /\ VoidedIsEmpty' /\ EnteredHasTicket'
  BY DeskSame DEF UpsertMembership, agenda
<1>3. TeamOK'
  BY JoinsKeeps DEF UpsertMembership
<1> QED
  BY <1>1, <1>2, <1>3

LEMMA UpdateUserKeeps ==
  ASSUME Books, NEW a, NEW u \in Users, NEW r \in Roles, NEW stays \in BOOLEAN, UpdateUser(a, u, r, stays)
  PROVE  Books'
<1> USE BooksParts
<1>1. WritesOK' /\ ChargesOK' /\ SettledOK'
  BY MoneySame, WriteOK DEF UpdateUser, desk
<1>2. /\ SalesOK' /\ TicketsOK'
      /\ SalesAreDated' /\ VoidedIsEmpty' /\ EnteredHasTicket'
  BY DeskSame DEF UpdateUser
<1>3. TeamOK'
  <2>1. logged' = logged /\ ActiveSeason \in Seasons
    BY ConstantFacts DEF UpdateUser
  <2>2. CASE stays
    BY <2>1, <2>2, JoinsKeeps DEF UpdateUser
  <2>3. CASE ~stays
    <3>1. /\ role' = role
          /\ left' = [left EXCEPT ![ActiveSeason] =
                         IF role[ActiveSeason][u] = "none" THEN @ ELSE @ \cup {u}]
      BY <2>3 DEF UpdateUser
    <3> QED
      BY <2>1, <3>1 DEF TeamOK
  <2> QED
    BY <2>2, <2>3
<1>4. AgendaOK'
  BY DEF UpdateUser, AgendaOK, NoQuota
<1> QED
  BY <1>1, <1>2, <1>3, <1>4

LEMMA RemoveMemberKeeps ==
  ASSUME Books, NEW e \in Seasons, NEW u \in Users, RemoveMember(e, u)
  PROVE  Books'
<1> USE BooksParts
<1>1. WritesOK' /\ ChargesOK' /\ SettledOK'
  BY MoneySame, WriteOK DEF RemoveMember, desk
<1>2. /\ SalesOK' /\ TicketsOK'
      /\ SalesAreDated' /\ VoidedIsEmpty' /\ EnteredHasTicket'
  BY DeskSame DEF RemoveMember
<1>3. TeamOK'
  <2>1. CASE /\ left' = [left EXCEPT ![e] = @ \cup {u}] /\ UNCHANGED role
    <3>1. role[e][u] # "none"
      BY DEF RemoveMember
    <3>2. logged' = logged
      BY DEF RemoveMember
    <3> QED
      BY <2>1, <3>1, <3>2 DEF TeamOK
  <2>2. CASE /\ role' = [role EXCEPT ![e][u] = "none"]
             /\ left' = [left EXCEPT ![e] = @ \ {u}]
    <3>1. logged' = logged
      BY DEF RemoveMember
    <3>2. /\ role' \in [Seasons -> [Users -> Roles \cup {"none"}]]
          /\ left' \in [Seasons -> SUBSET Users]
      BY <2>2 DEF TeamOK
    <3>3. \A x \in Seasons : \A y \in left'[x] : role'[x][y] # "none"
      <4> SUFFICES ASSUME NEW x \in Seasons, NEW y \in left'[x]
                   PROVE  role'[x][y] # "none"
        OBVIOUS
      <4>1. y \in left[x] /\ y \in Users /\ role[x][y] # "none" /\ (x = e => y # u)
        BY <2>2 DEF TeamOK
      <4>2. role'[x][y] = role[x][y]
        BY <2>2, <4>1 DEF TeamOK
      <4> QED
        BY <4>1, <4>2
    <3> QED
      BY <3>1, <3>2, <3>3 DEF TeamOK
  <2> QED
    BY <2>1, <2>2 DEF RemoveMember
<1>4. AgendaOK'
  BY DEF RemoveMember, AgendaOK, NoQuota
<1> QED
  BY <1>1, <1>2, <1>3, <1>4

LEMMA OtherWritersKeep ==
  ASSUME Books,
         \/ \E u \in Users : Login(u)
         \/ \E f \in Functions, u \in Users : \E n \in 0..capacity[f] : UpsertAllocation(f, u, n)
         \/ \E e \in Edits : EditFunction(e) \/ UpdateFunction(e)
  PROVE  Books'
<1> USE BooksParts
<1>1. WritesOK' /\ ChargesOK' /\ SettledOK'
  BY MoneySame, WriteOK DEF Login, UpsertAllocation, EditFunction, UpdateFunction, desk
<1>2. /\ SalesOK' /\ TicketsOK'
      /\ SalesAreDated' /\ VoidedIsEmpty' /\ EnteredHasTicket'
  BY DeskSame DEF Login, UpsertAllocation, EditFunction, UpdateFunction, agenda
<1>3. TeamOK'
  BY TeamSame DEF Login, UpsertAllocation, EditFunction, UpdateFunction, TeamOK
<1>4. AgendaOK'
  <2>1. ASSUME NEW f \in Functions, NEW u \in Users, NEW n \in 0..capacity[f], UpsertAllocation(f, u, n)
        PROVE  AgendaOK'
    <3>1. n \in Nat
      BY DEF AgendaOK
    <3> QED
      BY <2>1, <3>1 DEF UpsertAllocation, AgendaOK
  <2>2. ASSUME NEW e \in Edits, EditFunction(e) \/ UpdateFunction(e)
        PROVE  AgendaOK'
    <3>1. e.start \in 0..MaxTime /\ e.capacity \in Nat \ {0} /\ e.price \in Nat
      BY LibrosAssumption
    <3> QED
      BY <2>2, <3>1 DEF EditFunction, UpdateFunction, AgendaOK
  <2>3. ASSUME NEW u \in Users, Login(u)
        PROVE  AgendaOK'
    BY <2>3, AgendaSame DEF Login
  <2> QED
    BY <2>1, <2>2, <2>3
<1> QED
  BY <1>1, <1>2, <1>3, <1>4

LEMMA TickKeeps ==
  ASSUME Books, Tick
  PROVE  Books'
<1> USE BooksParts
<1>1. TeamOK' /\ WritesOK' /\ ChargesOK' /\ SettledOK'
  BY TeamSame, MoneySame, WriteOK DEF Tick, desk
<1>2. AgendaOK'
  BY LibrosAssumption DEF Tick, AgendaOK
<1>3. SalesOK' /\ TicketsOK' /\ VoidedIsEmpty' /\ EnteredHasTicket'
  BY DEF Tick, desk, SalesOK, TicketsOK, VoidedIsEmpty, EnteredHasTicket
<1>4. SalesAreDated'
  <2>1. sold' = sold /\ made' = made /\ now' = now + 1
    BY DEF Tick, desk
  <2>2. now \in Int /\ \A s \in sold : made[s] \in Int /\ made[s] <= now
    <3>1. AgendaOK /\ SalesOK /\ SalesAreDated
      OBVIOUS
    <3>2. now \in 0..MaxTime /\ \A s \in sold : s \in Sales /\ made[s] \in 0..MaxTime /\ made[s] <= now
      BY Zenon, <3>1 DEF SalesAreDated, SalesOK, AgendaOK
    <3> QED
      BY <3>2
  <2>3. \A s \in sold : made[s] <= now + 1
    BY <2>2
  <2> QED
    BY <2>1, <2>3 DEF SalesAreDated
<1> QED
  BY <1>1, <1>2, <1>3, <1>4

LEMMA BooksAreKept ==
  ASSUME Books, Writer
  PROVE  Books'
<1> QED
  BY CreateSaleKeeps, VoidSaleKeeps, DeleteSalePaymentsKeeps, CreateSalePaymentKeeps,
     DeleteSalePaymentKeeps, VoidTicketKeeps, ArriveKeeps, InsertCheckinKeeps, RemoveMemberKeeps,
     CreateSettlementKeeps, UpsertMembershipKeeps, UpdateUserKeeps, OtherWritersKeep, TickKeeps DEF Writer

LEMMA BooksUnchanged ==
  ASSUME Books, UNCHANGED books
  PROVE  Books'
<1>1. now' = now /\ UNCHANGED team /\ UNCHANGED agenda /\ UNCHANGED desk /\ UNCHANGED money /\ writes' = writes
      /\ worth' = worth
  BY DEF books, agenda, desk
<1> QED
  BY <1>1, BooksParts, TeamSame, AgendaSame, MoneySame, DeskSame DEF WritesOK

---------------------------------------------------------------------------
(* Who comes and goes does not change what is owed.                        *)

\* What the queries about money read.
Accounts == <<sold, voided, charges, settled>>

LEMMA CollectedSame ==
  ASSUME UNCHANGED Accounts, NEW e, NEW u
  PROVE  /\ (ChargedIn(e) \cap By(u))' = ChargedIn(e) \cap By(u)
         /\ PaidOf(ChargedIn(e) \cap By(u))' = PaidOf(ChargedIn(e) \cap By(u))
         /\ settled'[e][u] = settled[e][u]
         /\ Owes(e, u)' = Owes(e, u)
<1>1. sold' = sold /\ voided' = voided /\ charges' = charges /\ settled' = settled
  BY DEF Accounts
<1>2. (ChargedIn(e) \cap By(u))' = ChargedIn(e) \cap By(u)
  BY <1>1 DEF ChargedIn, OfSeason, Charged, By
<1> QED
  BY <1>1, <1>2 DEF Owes, Collected, PaidOf, MapThenSumSet, MapThenFoldSet, Paid

LEMMA AlertsSame ==
  ASSUME UNCHANGED Accounts, NEW e
  PROVE  AttentionSettlements(e)' = AttentionSettlements(e)
  BY CollectedSame DEF AttentionSettlements

\* The row of the report about u, and whether there is one.
Row(e, u) == [seller |-> u, collected |-> Collected(e, u),
              pending |-> DebtOf(ChargedIn(e) \cap By(u)), settled |-> settled[e][u]]
HasRow(e, u) == \/ role[e][u] = "seller"
                \/ ChargedIn(e) \cap By(u) # {}
                \/ settled[e][u] > 0

LEMMA ReportIs ==
  ASSUME NEW e
  PROVE  SettlementsReport(e) = {Row(e, u) : u \in {x \in Users : HasRow(e, x)}}
  BY DEF SettlementsReport, Row, HasRow, Collected

LEMMA ReportOfOne ==
  ASSUME NEW e, NEW u \in Users
  PROVE  {r \in SettlementsReport(e) : r.seller = u} = IF HasRow(e, u) THEN {Row(e, u)} ELSE {}
<1>1. \A x : Row(e, x).seller = x
  BY DEF Row
<1> QED
  BY <1>1, ReportIs

LEMMA PaidType ==
  ASSUME Books, NEW s \in Sales
  PROVE  Paid(s) \in Nat /\ Amount(s) \in Nat /\ Paid(s) <= Amount(s) /\ Debt(s) \in Nat
<1>1. Paid(s) \in 0..Amount(s) /\ Amount(s) \in Nat
  BY AmountType DEF Books, TypeOK
<1> QED
  BY <1>1 DEF Debt

\* Paid, Debt, Amount and Quantity as functions.
PaidW == [s \in Sales |-> Paid(s)]
DebtW == [s \in Sales |-> Debt(s)]
AmountW == [s \in Sales |-> Amount(s)]
QuantityW == [s \in Sales |-> Quantity(s)]

LEMMA PaidOfFacts ==
  ASSUME Books, NEW S, S \subseteq sold
  PROVE  PaidOf(S) = Weight(PaidW, S) /\ PaidOf(S) \in Nat
<1>1. IsFiniteSet(S) /\ \A s \in S : s \in Sales
  BY LiveFinite DEF Books, TypeOK
<1>2. \A s \in S : PaidW[s] = Paid(s) /\ PaidW[s] \in Int /\ PaidW[s] >= 0
  BY <1>1, PaidType DEF PaidW
<1>3. PaidOf(S) = Weight(PaidW, S)
  BY <1>1, <1>2, PaidOfIsWeight
<1>4. Weight(PaidW, S) \in Nat
  BY <1>1, <1>2, WeightPositive
<1> QED
  BY <1>3, <1>4

LEMMA OwesFacts ==
  ASSUME Books, NEW e \in Seasons, NEW u \in Users
  PROVE  /\ ChargedIn(e) \cap By(u) \subseteq sold
         /\ Collected(e, u) \in Nat /\ settled[e][u] \in Nat /\ Owes(e, u) \in Int
         /\ ~HasRow(e, u) => Owes(e, u) = 0 /\ Collected(e, u) = 0 /\ settled[e][u] = 0
<1>1. ChargedIn(e) \cap By(u) \subseteq sold
  BY DEF By
<1>2. Collected(e, u) \in Nat
  BY <1>1, PaidOfFacts DEF Collected
<1>3. settled[e][u] \in Nat
  BY DEF Books, TypeOK
<1>4. ASSUME ~HasRow(e, u)
      PROVE  Collected(e, u) = 0 /\ settled[e][u] = 0
  <2>1. ChargedIn(e) \cap By(u) = {} /\ ~(settled[e][u] > 0)
    BY <1>4 DEF HasRow
  <2>2. PaidOf({}) = 0
    BY PaidOfFacts, WeightEmpty
  <2> QED
    BY <1>3, <2>1, <2>2 DEF Collected
<1> QED
  BY <1>1, <1>2, <1>3, <1>4 DEF Owes

\* The rows are added up by what they hold to the seller's credit.
LEMMA BalanceSumIsWeight ==
  ASSUME NEW S, IsFiniteSet(S), NEW w, \A r \in S : w[r] \in Int /\ w[r] = SettlementBalance(r)
  PROVE  SumOver(S, SettlementBalance) = Weight(w, S)
<1> DEFINE Choice(T) == CHOOSE x \in T : TRUE
           Eq(g) == g = [T \in SUBSET S |->
                           IF T = {} THEN 0 ELSE SettlementBalance(Choice(T)) + g[T \ {Choice(T)}]]
<1>1. SumOver(S, SettlementBalance) = (CHOOSE g : Eq(g))[S]
  BY DEF SumOver, MapThenSumSet, MapThenFoldSet
<1>2. ASSUME NEW g
      PROVE  Eq(g) <=> IsSum(g, w, S)
  <2>1. \A T \in SUBSET S : T # {} => SettlementBalance(Choice(T)) = w[Choice(T)]
    OBVIOUS
  <2> HIDE DEF Choice
  <2> QED
    BY <2>1, ZenonT(40) DEF IsSum, Choice
<1> HIDE DEF Eq
<1> QED
  BY <1>1, <1>2, ChosenWeight

\* What the report says of u, with or without a row.
LEMMA BalanceIs ==
  Books => \A e \in Seasons : \A u \in Users :
             /\ Balance(u, e) = Owes(e, u)
             /\ SumOver({r \in SettlementsReport(e) : r.seller = u}, SettlementBalance) = Owes(e, u)
<1> SUFFICES ASSUME Books, NEW e \in Seasons, NEW u \in Users
             PROVE  SumOver({r \in SettlementsReport(e) : r.seller = u}, SettlementBalance) = Owes(e, u)
  BY DEF Balance
<1> DEFINE S == {r \in SettlementsReport(e) : r.seller = u}
           w == [r \in S |-> SettlementBalance(r)]
           row == Row(e, u)
<1>1. S = IF HasRow(e, u) THEN {row} ELSE {}
  BY ReportOfOne
<1>2. SettlementBalance(row) = Owes(e, u) /\ Owes(e, u) \in Int
  BY OwesFacts DEF SettlementBalance, Row, Owes, Collected
<1>3. \A r \in S : w[r] = SettlementBalance(r)
  OBVIOUS
<1> HIDE DEF S, w, row
<1>4. CASE HasRow(e, u)
  <2>1. S = {row} /\ w[row] = Owes(e, u) /\ IsFiniteSet(S) /\ IsFiniteSet({})
    BY <1>1, <1>2, <1>3, <1>4, FS_Singleton, FS_EmptySet
  <2>2. \A r \in S : w[r] \in Int /\ w[r] = SettlementBalance(r)
    BY <1>2, <1>3, <2>1
  <2>3. SumOver(S, SettlementBalance) = Weight(w, S)
    BY <2>1, <2>2, BalanceSumIsWeight
  <2>4. Weight(w, {} \cup {row}) = Weight(w, {}) + w[row]
    <3>1. row \notin {} /\ \A r \in {} \cup {row} : w[r] \in Int
      BY <1>2, <2>1
    <3> QED
      BY <2>1, <3>1, WeightAdd
  <2>5. Weight(w, {}) = 0 /\ {} \cup {row} = S
    BY <2>1, WeightEmpty
  <2>6. Weight(w, S) = 0 + w[row]
    BY Zenon, <2>4, <2>5
  <2> QED
    BY <1>2, <2>1, <2>3, <2>6 DEF S
<1>5. CASE ~HasRow(e, u)
  <2>1. S = {} /\ IsFiniteSet(S)
    BY <1>1, <1>5, FS_EmptySet
  <2>2. SumOver(S, SettlementBalance) = Weight(w, S)
    BY <2>1, BalanceSumIsWeight
  <2>3. Weight(w, S) = 0
    BY <2>1, WeightEmpty
  <2> QED
    BY <1>5, <2>2, <2>3, OwesFacts DEF S
<1> QED
  BY <1>4, <1>5

BalancesHold == \A e \in Seasons : \A u \in Users : Balance(u, e) = Owes(e, u)

LEMMA BalancesAreHeld == Books => BalancesHold
  BY BalanceIs DEF BalancesHold

LEMMA BalancesStillHeld == Books' => BalancesHold'
  BY BalancesAreHeld, PTL

LEMMA BalanceIsNext ==
  Books' => \A e \in Seasons : \A u \in Users : Balance(u, e)' = Owes(e, u)'
<1> SUFFICES ASSUME Books' PROVE \A e \in Seasons : \A u \in Users : Balance(u, e)' = Owes(e, u)'
  OBVIOUS
<1>1. BalancesHold'
  BY BalancesStillHeld
<1> QED
  BY <1>1 DEF BalancesHold

\* Whatever is written to the books: a cancelled sale has no good ticket, nobody is at
\* the door without one, sales are dated, and the tables keep their shape, for any
\* number of sales, people and functions and whatever is edited of them.
THEOREM BooksCorrect == Spec => []Books
<1>1. Init => Books
  BY InitBooks
<1>2. Books /\ [Writer]_books => Books'
  BY BooksAreKept, BooksUnchanged
<1> QED
  BY <1>1, <1>2, PTL DEF Spec

\* The books keep their shape, and no sale is charged more than it is worth nor less
\* than nothing, whichever of its payments are deleted.
THEOREM LibrosTypeCorrect == Spec => []TypeOK
<1>1. Books => TypeOK
  BY DEF Books
<1> QED
  BY <1>1, BooksCorrect, PTL

\* Only the steps about members write the team, and they write nothing of the accounts.
LEMMA MembersLeaveTheAccounts ==
  ASSUME Writer, <<role, left>>' # <<role, left>>
  PROVE  UNCHANGED Accounts
<1>1. \/ \E e \in Seasons, u \in Users : RemoveMember(e, u)
      \/ \E e \in Seasons, u \in Users, r \in Roles : UpsertMembership(e, u, r)
      \/ \E a, u \in Users, r \in Roles, stays \in BOOLEAN : UpdateUser(a, u, r, stays)
  <2> USE DEF team, Write
  <2>1. ~ \E s \in Sales : CreateSale(s) \/ VoidSale(s) \/ DeleteSalePayments(s)
    BY DEF CreateSale, VoidSale, DeleteSalePayments
  <2>2. ~ \E s \in Sales, c \in 1..MaxCents : CreateSalePayment(s, c) \/ DeleteSalePayment(s, c)
    BY DEF CreateSalePayment, DeleteSalePayment
  <2>3. ~ \E t \in Tickets : VoidTicket(t) \/ Arrive(t) \/ InsertCheckin(t)
    BY DEF VoidTicket, Arrive, InsertCheckin
  <2>4. ~ \E e \in Seasons, u \in Users : \E c \in 1..MaxCents : CreateSettlement(e, u, c)
    BY DEF CreateSettlement
  <2>5. ~ \E u \in Users : Login(u)
    BY DEF Login
  <2>6. ~ \E f \in Functions, u \in Users : \E n \in 0..capacity[f] : UpsertAllocation(f, u, n)
    BY DEF UpsertAllocation
  <2>7. ~ (\E e \in Edits : EditFunction(e) \/ UpdateFunction(e)) /\ ~ Tick
    BY DEF EditFunction, UpdateFunction, Tick
  <2> QED
    BY Zenon, <2>1, <2>2, <2>3, <2>4, <2>5, <2>6, <2>7 DEF Writer
<1> QED
  BY <1>1 DEF RemoveMember, UpsertMembership, UpdateUser, Accounts, desk, money

\* "Su deuda no desaparece porque dejo el coro": joining, leaving or changing roles, be
\* it added again with another role while she is there (POST of members) or edited
\* (PATCH of users), moves no balance and takes nobody off the alerts, with or without a
\* row in the team.
THEOREM DebtOutlives == Spec => DebtOutlivesMembership
<1>1. ASSUME Books, Books', [Writer]_books, <<role, left>>' # <<role, left>>
      PROVE  \A se \in Seasons :
                /\ AttentionSettlements(se)' = AttentionSettlements(se)
                /\ \A u \in Users : Balance(u, se)' = Balance(u, se)
  <2>1. Writer
    BY <1>1 DEF books, team
  <2>2. UNCHANGED Accounts
    BY <1>1, <2>1, MembersLeaveTheAccounts
  <2>3. \A e \in Seasons : \A u \in Users : Balance(u, e)' = Owes(e, u)' /\ Balance(u, e) = Owes(e, u)
    BY <1>1, BalanceIs, BalanceIsNext
  <2>4. \A e \in Seasons : AttentionSettlements(e)' = AttentionSettlements(e)
    BY <2>2, AlertsSame
  <2>5. \A e \in Seasons : \A u \in Users : Owes(e, u)' = Owes(e, u)
    BY <2>2, CollectedSame
  <2> QED
    BY <2>3, <2>4, <2>5
<1> QED
  BY <1>1, BooksCorrect, PTL DEF Spec, DebtOutlivesMembership

---------------------------------------------------------------------------
(* An export that goes on while the books are written.                     *)

LEMMA TimeGoesOn ==
  ASSUME [Writer]_books
  PROVE  now' = now \/ now' = now + 1
<1> USE DEF agenda, Write
<1>1. ASSUME \E s \in Sales : CreateSale(s) \/ VoidSale(s) \/ DeleteSalePayments(s)
      PROVE  now' = now
  BY <1>1 DEF CreateSale, VoidSale, DeleteSalePayments
<1>2. ASSUME \E s \in Sales, c \in 1..MaxCents : CreateSalePayment(s, c) \/ DeleteSalePayment(s, c)
      PROVE  now' = now
  BY <1>2 DEF CreateSalePayment, DeleteSalePayment
<1>3. ASSUME \E t \in Tickets : VoidTicket(t) \/ Arrive(t) \/ InsertCheckin(t)
      PROVE  now' = now
  BY <1>3 DEF VoidTicket, Arrive, InsertCheckin
<1>4. ASSUME \E e \in Seasons, u \in Users :
               \/ RemoveMember(e, u)
               \/ \E c \in 1..MaxCents : CreateSettlement(e, u, c)
               \/ \E r \in Roles : UpsertMembership(e, u, r)
      PROVE  now' = now
  BY <1>4 DEF RemoveMember, CreateSettlement, UpsertMembership
<1>5. ASSUME \/ \E u \in Users : Login(u)
             \/ \E a, u \in Users, r \in Roles, stays \in BOOLEAN : UpdateUser(a, u, r, stays)
      PROVE  now' = now
  BY <1>5 DEF Login, UpdateUser
<1>6. ASSUME \E f \in Functions, u \in Users : \E n \in 0..capacity[f] : UpsertAllocation(f, u, n)
      PROVE  now' = now
  BY <1>6 DEF UpsertAllocation
<1>7. ASSUME \E e \in Edits : EditFunction(e) \/ UpdateFunction(e)
      PROVE  now' = now
  BY <1>7 DEF EditFunction, UpdateFunction
<1>8. ASSUME Tick
      PROVE  now' = now + 1
  BY <1>8 DEF Tick
<1>9. ASSUME UNCHANGED books
      PROVE  now' = now
  BY <1>9 DEF books
<1> QED
  BY Zenon, <1>1, <1>2, <1>3, <1>4, <1>5, <1>6, <1>7, <1>8, <1>9 DEF Writer

\* What passes goes to the end of the list, behind any page that was read.
LEMMA RowStaysAhead ==
  ASSUME Books, now' = now \/ now' = now + 1,
         NEW c \in sold, NEW s \in sold,
         KeyBefore(Key(c), Key(s)), start'[FunctionOf[s]] = start[FunctionOf[s]]
  PROVE  KeyBefore(Key(c), Key(s)')
<1> DEFINE f == FunctionOf[s]
           d == Grace
<1>1. start[f] \in Int /\ now \in Int /\ d \in Int /\ s \in Int
  <2>1. s \in Sales /\ start \in [Functions -> 0..MaxTime] /\ now \in 0..MaxTime
    BY DEF Books, TypeOK
  <2>2. s \in Nat /\ f \in Functions /\ MaxTime \in Nat /\ Grace \in Nat
    BY <2>1, LibrosAssumption
  <2> QED
    BY <2>1, <2>2
<1>2. /\ Passed(f) <=> start[f] < now - d
      /\ Passed(f)' <=> start[f] < now' - d
  BY DEF Passed
<1>3. Passed(f) => Passed(f)'
  <2> HIDE DEF f, d
  <2> QED
    BY <1>1, <1>2
<1>4. Key(s)' = <<IF Passed(f)' THEN 1 ELSE 0, IF Passed(f)' THEN -start[f] ELSE start[f], s>>
  BY DEF Key, PastRank
<1>5. Key(s) = <<IF Passed(f) THEN 1 ELSE 0, IF Passed(f) THEN -start[f] ELSE start[f], s>>
  BY DEF Key, PastRank
<1>6. Key(c)[1] \in {0, 1}
  BY DEF Key, PastRank
<1>7. CASE Passed(f)' <=> Passed(f)
  BY <1>7, <1>4, <1>5
<1>8. CASE Passed(f)' /\ ~Passed(f)
  <2>1. Key(s)'[1] = 1 /\ Key(s)[1] = 0
    BY <1>4, <1>5, <1>8
  <2>2. Key(c)[1] = 0
    BY <1>6, <2>1 DEF KeyBefore
  <2> QED
    BY <2>1, <2>2 DEF KeyBefore
<1> QED
  BY <1>3, <1>7, <1>8

\* A sale an export has not reached stays ahead of its cursor, whatever is written
\* between two pages, unless its function is moved to another hour.
THEOREM ExportKeepsUpCorrect == Spec => ExportKeepsUp
<1>1. ASSUME Books, [Writer]_books
      PROVE  \A c, s \in sold :
               KeyBefore(Key(c), Key(s)) /\ start'[FunctionOf[s]] = start[FunctionOf[s]]
                 => KeyBefore(Key(c), Key(s)')
  BY <1>1, TimeGoesOn, RowStaysAhead
<1> QED
  BY <1>1, BooksCorrect, PTL DEF Spec, ExportKeepsUp

---------------------------------------------------------------------------
(* Which function is the current one.                                      *)

LEMMA AgendaFacts ==
  ASSUME Books
  PROVE  /\ now \in Int /\ Grace \in Int /\ now - Grace \in Int /\ now >= 0 /\ now <= MaxTime /\ Grace >= 0
         /\ \A f \in Functions : start[f] \in Int
<1>1. start \in [Functions -> 0..MaxTime] /\ now \in 0..MaxTime /\ Grace \in Nat /\ MaxTime \in Nat
  BY LibrosAssumption DEF Books, TypeOK
<1> QED
  BY <1>1

LEMMA FirstOf ==
  ASSUME Books, NEW F, F \subseteq Functions, F # {}
  PROVE  First(F) \in F /\ \A x \in F : start[First(F)] <= start[x]
<1>1. IsFiniteSet(F) /\ \A x \in F : start[x] \in Int
  BY ConstantFacts, AgendaFacts, FS_Subset
<1>2. \E f \in F : \A x \in F : start[f] <= start[x]
  BY <1>1, SomeLeast
<1> QED
  BY <1>2 DEF First

LEMMA LeastStart ==
  ASSUME Books, NEW F, F \subseteq Functions, F # {}
  PROVE  Min({start[f] : f \in F}) = start[First(F)]
<1> DEFINE H == {start[f] : f \in F}
           k == start[First(F)]
<1>1. H \subseteq Int /\ k \in H /\ \A h \in H : k <= h
  BY FirstOf, AgendaFacts
<1> HIDE DEF H, k
<1>2. Min(H) \in H /\ \A h \in H : Min(H) <= h
  BY <1>1 DEF Min
<1> DEFINE m == Min(H)
<1>3. m \in Int /\ k \in Int /\ m <= k /\ k <= m
  BY <1>1, <1>2
<1> HIDE DEF m
<1>4. m = k
  BY <1>3
<1> QED
  BY <1>4 DEF H, k, m

LEMMA LatestOf ==
  ASSUME Books, NEW F, F \subseteq Functions, F # {}
  PROVE  Latest(F) \in F /\ \A x \in F : start[Latest(F)] >= start[x]
<1> DEFINE w == [x \in F |-> 0 - start[x]]
<1>1. IsFiniteSet(F) /\ \A x \in F : start[x] \in Int /\ w[x] \in Int /\ w[x] = 0 - start[x]
  BY ConstantFacts, AgendaFacts, FS_Subset
<1> HIDE DEF w
<1>2. PICK f \in F : \A x \in F : w[f] <= w[x]
  BY <1>1, SomeLeast
<1>3. \A x \in F : start[f] >= start[x]
  BY <1>1, <1>2
<1> QED
  BY <1>3 DEF Latest

\* The functions to come: for Direction, and for home and the index.
ToCome(e) == {f \in FunctionsOf(e) : ~Done(f)}
NextOnes(e) == {f \in FunctionsOf(e) : start[f] > now - Grace}

LEMMA CurrentFacts ==
  ASSUME Books, NEW e
  PROVE  /\ NextOnes(e) \subseteq ToCome(e) /\ ToCome(e) \subseteq Functions
         /\ (~ \E f \in FunctionsOf(e) : start[f] = now - Grace) => NextOnes(e) = ToCome(e)
         /\ InSale(e) = IF ToCome(e) = {} THEN {} ELSE {First(ToCome(e))}
         /\ ProximaFuncion(e) = IF NextOnes(e) # {} THEN First(NextOnes(e)) ELSE Latest(FunctionsOf(e))
         /\ SeasonsOverview(e).next =
              IF NextOnes(e) = {} THEN -1 ELSE Min({start[f] : f \in NextOnes(e)})
<1>1. now - Grace \in Int /\ \A f \in FunctionsOf(e) : start[f] \in Int
  BY AgendaFacts DEF FunctionsOf
<1>2. \A f \in FunctionsOf(e) : start[f] > now - Grace => ~(start[f] < now - Grace)
  BY <1>1
<1>3. \A f \in FunctionsOf(e) : ~(start[f] < now - Grace) /\ start[f] # now - Grace => start[f] > now - Grace
  BY <1>1
<1>4. SeasonsOverview(e).next = IF NextOnes(e) = {} THEN -1 ELSE Min({start[f] : f \in NextOnes(e)})
  BY DEF SeasonsOverview, NextOnes
<1>5. /\ InSale(e) = IF ToCome(e) = {} THEN {} ELSE {First(ToCome(e))}
      /\ ProximaFuncion(e) = IF NextOnes(e) # {} THEN First(NextOnes(e)) ELSE Latest(FunctionsOf(e))
  BY DEF InSale, ToCome, ProximaFuncion, NextOnes
<1> QED
  BY <1>2, <1>3, <1>4, <1>5 DEF NextOnes, ToCome, Done, Passed, FunctionsOf

\* Of the season, only sales of a function at the same hour come before those of the
\* current one in the list.
LEMMA CurrentIsListedFirst ==
  ASSUME Books, NEW e \in Seasons, ~ \E f \in FunctionsOf(e) : start[f] = now - Grace,
         NEW s \in OfFunction(ProximaFuncion(e)), NEW x \in OfSeason(e), KeyBefore(Key(x), Key(s))
  PROVE  start[FunctionOf[x]] = start[ProximaFuncion(e)]
<1> DEFINE n == ProximaFuncion(e)
           f == FunctionOf[x]
           F == FunctionsOf(e)
           N == NextOnes(e)
           d == Grace
<1>1. f \in F /\ F \subseteq Functions /\ N \subseteq F /\ FunctionOf[s] = n /\ x \in Sales /\ s \in Sales
  BY ConstantFacts DEF FunctionsOf, OfSeason, OfFunction, NextOnes, Books, TypeOK
<1>2. /\ N = {g \in F : ~Passed(g)}
      /\ n = IF N # {} THEN First(N) ELSE Latest(F)
  BY CurrentFacts DEF ToCome, Done
<1>3. n \in F
  <2> HIDE DEF n, f, F, N
  <2> QED
    BY <1>1, <1>2, FirstOf, LatestOf
<1>4. start[f] \in Int /\ start[n] \in Int /\ x \in Int /\ s \in Int
  BY <1>1, <1>3, AgendaFacts, ConstantFacts
<1>5. /\ Key(x) = <<IF Passed(f) THEN 1 ELSE 0, IF Passed(f) THEN -start[f] ELSE start[f], x>>
      /\ Key(s) = <<IF Passed(n) THEN 1 ELSE 0, IF Passed(n) THEN -start[n] ELSE start[n], s>>
  BY <1>1 DEF Key, PastRank
<1> HIDE DEF n, f, F, N
<1>6. CASE N # {}
  <2>1. n \in N /\ \A g \in N : start[n] <= start[g]
    BY <1>1, <1>2, <1>6, FirstOf
  <2>2. ~Passed(n)
    BY <1>2, <2>1
  <2>3. ~Passed(f) /\ start[f] <= start[n]
    BY <1>4, <1>5, <2>2 DEF KeyBefore
  <2>4. start[n] <= start[f]
    BY <1>1, <1>2, <2>1, <2>3
  <2> QED
    BY <1>4, <2>3, <2>4 DEF n, f
<1>7. CASE N = {}
  <2>1. Passed(f) /\ Passed(n)
    BY <1>1, <1>2, <1>3, <1>7
  <2>2. start[n] >= start[f]
    BY <1>1, <1>2, <1>7, LatestOf
  <2>3. -start[f] <= -start[n]
    BY <1>4, <1>5, <2>1 DEF KeyBefore
  <2> QED
    BY <1>4, <2>2, <2>3 DEF n, f
<1> QED
  BY <1>6, <1>7

\* Home, Direction, the index of seasons and the order of the list agree on the current
\* function, but at the very end of its grace, and Direction and the alerts on the
\* seats nobody may sell.
THEOREM OneCurrentFunctionCorrect == Spec => []OneCurrentFunction
<1>1. Books => OneCurrentFunction
  <2> SUFFICES ASSUME Books, NEW e \in Seasons
               PROVE  /\ (~ \E f \in FunctionsOf(e) : start[f] = now - Grace) /\ InSale(e) # {}
                           => /\ start[ProximaFuncion(e)] = start[First(InSale(e))]
                              /\ SeasonsOverview(e).next = start[ProximaFuncion(e)]
                      /\ InSale(e) = {} => /\ SeasonsOverview(e).next = -1
                                           /\ ProximaFuncion(e) = Latest(FunctionsOf(e))
                      /\ (~ \E f \in FunctionsOf(e) : start[f] = now - Grace)
                           => \A s \in OfFunction(ProximaFuncion(e)), x \in OfSeason(e) :
                                 KeyBefore(Key(x), Key(s)) => start[FunctionOf[x]] = start[ProximaFuncion(e)]
                      /\ \A i \in Findings(e).unassigned :
                            Future(i.function) <=> i \in AttentionUnassigned(e)
    BY DEF OneCurrentFunction
  <2>1. ASSUME ~ \E f \in FunctionsOf(e) : start[f] = now - Grace, InSale(e) # {}
        PROVE  /\ start[ProximaFuncion(e)] = start[First(InSale(e))]
               /\ SeasonsOverview(e).next = start[ProximaFuncion(e)]
    <3> DEFINE x == First(ToCome(e))
    <3>1. NextOnes(e) = ToCome(e) /\ ToCome(e) # {} /\ InSale(e) = {x} /\ ProximaFuncion(e) = x
      BY <2>1, CurrentFacts
    <3>2. First({x}) = x
      <4>1. x \in Functions /\ {x} # {}
        BY <3>1, FirstOf, CurrentFacts
      <4>2. {x} \subseteq Functions
        BY <4>1
      <4> HIDE DEF x
      <4> QED
        BY <4>1, <4>2, FirstOf
    <3>3. SeasonsOverview(e).next = start[x]
      BY <3>1, CurrentFacts, LeastStart
    <3> QED
      BY <3>1, <3>2, <3>3
  <2>2. ASSUME InSale(e) = {}
        PROVE  SeasonsOverview(e).next = -1 /\ ProximaFuncion(e) = Latest(FunctionsOf(e))
    BY <2>2, CurrentFacts
  <2>3. ASSUME NEW i \in Findings(e).unassigned
        PROVE  Future(i.function) <=> i \in AttentionUnassigned(e)
    <3>1. Findings(e).unassigned =
            {[function |-> f, missing |-> capacity[f] - Assigned(f)] :
               f \in {g \in InSale(e) : capacity[g] > Assigned(g)}}
      BY DEF Findings
    <3>2. PICK f \in InSale(e) : /\ capacity[f] > Assigned(f)
                                 /\ i = [function |-> f, missing |-> capacity[f] - Assigned(f)]
      BY <2>3, <3>1
    <3>3. f \in FunctionsOf(e)
      <4> DEFINE T == ToCome(e)
      <4>1. T \subseteq Functions /\ InSale(e) = IF T = {} THEN {} ELSE {First(T)}
        BY CurrentFacts
      <4>2. T \subseteq FunctionsOf(e)
        BY DEF ToCome
      <4> HIDE DEF T
      <4>3. T # {} /\ f = First(T)
        BY <4>1
      <4>4. First(T) \in T
        BY <4>1, <4>3, FirstOf
      <4> QED
        BY <4>2, <4>3, <4>4
    <3>4. i.function = f
      BY <3>2
    <3> QED
      BY <3>2, <3>3, <3>4 DEF AttentionUnassigned
  <2>4. (~ \E f \in FunctionsOf(e) : start[f] = now - Grace)
          => \A s \in OfFunction(ProximaFuncion(e)), x \in OfSeason(e) :
                KeyBefore(Key(x), Key(s)) => start[FunctionOf[x]] = start[ProximaFuncion(e)]
    BY CurrentIsListedFirst
  <2> QED
    BY <2>1, <2>2, <2>3, <2>4
<1> QED
  BY <1>1, BooksCorrect, PTL

---------------------------------------------------------------------------
(* What the writers do to whoever is preparing a mail.                     *)

\* A step as the mails see it.
OnBooks == UNCHANGED books \/ Writer

LEMMA WriterWrites ==
  ASSUME Writer
  PROVE  writes' = writes + 1
<1> USE DEF Write
<1>1. ASSUME \E s \in Sales : CreateSale(s) \/ VoidSale(s) \/ DeleteSalePayments(s)
      PROVE  writes' = writes + 1
  BY <1>1 DEF CreateSale, VoidSale, DeleteSalePayments
<1>2. ASSUME \E s \in Sales, c \in 1..MaxCents : CreateSalePayment(s, c) \/ DeleteSalePayment(s, c)
      PROVE  writes' = writes + 1
  BY <1>2 DEF CreateSalePayment, DeleteSalePayment
<1>3. ASSUME \E t \in Tickets : VoidTicket(t) \/ Arrive(t) \/ InsertCheckin(t)
      PROVE  writes' = writes + 1
  BY <1>3 DEF VoidTicket, Arrive, InsertCheckin
<1>4. ASSUME \E e \in Seasons, u \in Users :
               \/ RemoveMember(e, u)
               \/ \E c \in 1..MaxCents : CreateSettlement(e, u, c)
               \/ \E r \in Roles : UpsertMembership(e, u, r)
      PROVE  writes' = writes + 1
  BY <1>4 DEF RemoveMember, CreateSettlement, UpsertMembership
<1>5. ASSUME \/ \E u \in Users : Login(u)
             \/ \E a, u \in Users, r \in Roles, stays \in BOOLEAN : UpdateUser(a, u, r, stays)
      PROVE  writes' = writes + 1
  BY <1>5 DEF Login, UpdateUser
<1>6. ASSUME \E f \in Functions, u \in Users : \E n \in 0..capacity[f] : UpsertAllocation(f, u, n)
      PROVE  writes' = writes + 1
  BY <1>6 DEF UpsertAllocation
<1>7. ASSUME (\E e \in Edits : EditFunction(e) \/ UpdateFunction(e)) \/ Tick
      PROVE  writes' = writes + 1
  BY <1>7 DEF EditFunction, UpdateFunction, Tick
<1> QED
  BY Zenon, <1>1, <1>2, <1>3, <1>4, <1>5, <1>6, <1>7 DEF Writer

\* A sale that was made stays, and a cancelled ticket stays cancelled.
LEMMA WhatStays ==
  ASSUME Books, OnBooks
  PROVE  sold \subseteq sold' /\ Cancelled \subseteq Cancelled'
<1> USE DEF Cancelled
<1>1. ASSUME NEW s \in Sales, CreateSale(s)
      PROVE  sold \subseteq sold' /\ Cancelled \subseteq Cancelled'
  <2>1. s \notin sold
    BY <1>1, CreateSaleFacts
  <2>2. \A t \in Tickets : ticket[t] = "void" => SaleOf[t] # s
    BY <2>1 DEF Books, TypeOK
  <2> QED
    BY <1>1, <2>2 DEF CreateSale
<1>2. ASSUME NEW s \in Sales, VoidSale(s)
      PROVE  sold \subseteq sold' /\ Cancelled \subseteq Cancelled'
  BY <1>2 DEF VoidSale
<1>3. ASSUME NEW s \in Sales, DeleteSalePayments(s)
      PROVE  UNCHANGED desk
  BY <1>3 DEF DeleteSalePayments
<1>4. ASSUME \E s \in Sales, c \in 1..MaxCents : CreateSalePayment(s, c) \/ DeleteSalePayment(s, c)
      PROVE  UNCHANGED desk
  BY <1>4 DEF CreateSalePayment, DeleteSalePayment
<1>5. ASSUME NEW t \in Tickets, VoidTicket(t) \/ Arrive(t) \/ InsertCheckin(t)
      PROVE  sold \subseteq sold' /\ Cancelled \subseteq Cancelled'
  <2>1. ticket \in [Tickets -> {"none", "issued", "checked_in", "void"}]
    BY DEF Books, TypeOK
  <2> QED
    BY <1>5, <2>1 DEF VoidTicket, Arrive, InsertCheckin
<1>6. ASSUME \E e \in Seasons, u \in Users :
               \/ RemoveMember(e, u)
               \/ \E c \in 1..MaxCents : CreateSettlement(e, u, c)
               \/ \E r \in Roles : UpsertMembership(e, u, r)
      PROVE  UNCHANGED desk
  BY <1>6 DEF RemoveMember, CreateSettlement, UpsertMembership
<1>7. ASSUME \/ \E u \in Users : Login(u)
             \/ \E a, u \in Users, r \in Roles, stays \in BOOLEAN : UpdateUser(a, u, r, stays)
      PROVE  UNCHANGED desk
  BY <1>7 DEF Login, UpdateUser
<1>8. ASSUME \E f \in Functions, u \in Users : \E n \in 0..capacity[f] : UpsertAllocation(f, u, n)
      PROVE  UNCHANGED desk
  BY <1>8 DEF UpsertAllocation
<1>9. ASSUME (\E e \in Edits : EditFunction(e) \/ UpdateFunction(e)) \/ Tick
      PROVE  UNCHANGED desk
  BY <1>9 DEF EditFunction, UpdateFunction, Tick
<1>10. ASSUME UNCHANGED books
       PROVE  UNCHANGED desk
  BY <1>10 DEF books
<1>11. ASSUME UNCHANGED desk
       PROVE  sold \subseteq sold' /\ Cancelled \subseteq Cancelled'
  BY <1>11 DEF desk
<1> QED
  BY Zenon, <1>1, <1>2, <1>3, <1>4, <1>5, <1>6, <1>7, <1>8, <1>9, <1>10, <1>11 DEF Writer, OnBooks

LEMMA StillTheSame ==
  ASSUME UNCHANGED books, NEW u
  PROVE  /\ writes' = writes
         /\ Owes(ActiveSeason, u)' = Owes(ActiveSeason, u)
         /\ settled'[ActiveSeason][u] = settled[ActiveSeason][u]
         /\ SellerDebtSources(u, ActiveSeason)' = SellerDebtSources(u, ActiveSeason)
<1>1. UNCHANGED Accounts /\ writes' = writes
  BY DEF books, desk, money, Accounts
<1>2. /\ (ChargedIn(ActiveSeason) \cap By(u))' = ChargedIn(ActiveSeason) \cap By(u)
      /\ Owes(ActiveSeason, u)' = Owes(ActiveSeason, u)
      /\ settled'[ActiveSeason][u] = settled[ActiveSeason][u]
  BY <1>1, CollectedSame
<1>3. \A s : Paid(s)' = Paid(s)
  BY <1>1 DEF Paid, Accounts
<1>4. SellerDebtSources(u, ActiveSeason)' = SellerDebtSources(u, ActiveSeason)
  BY <1>1, <1>2, <1>3 DEF SellerDebtSources, Accounts, ChargedIn, By, OfSeason, Charged
<1> QED
  BY <1>1, <1>2, <1>4

\* What a request has read of the books, but for what it has sent.
Read(j) == j.at <= writes /\ JobIsAbout(j) /\ TicketsAreGood(j) /\ StillSo(j)

\* Whatever is written, a request that does nothing meanwhile keeps its invariant.
LEMMA ReadIsKept ==
  ASSUME Books, OnBooks, NEW j, j.at \in Nat, Read(j)
  PROVE  Read(j)'
<1>1. sold \subseteq sold' /\ Cancelled \subseteq Cancelled'
  BY WhatStays
<1>2. JobIsAbout(j)'
  BY <1>1 DEF Read, JobIsAbout, Reminds
<1>3. TicketsAreGood(j)'
  <2>1. \A t \in Tickets : ticket[t] = "void" => ticket'[t] = "void"
    BY <1>1 DEF Cancelled
  <2>2. \A t \in TicketsOf(j.of) : t \in Tickets
    BY DEF TicketsOf
  <2> QED
    BY <1>1, <2>1, <2>2 DEF Read, TicketsAreGood
<1>4. writes \in Nat
  BY LibrosAssumption DEF Books, TypeOK
<1>5. CASE Writer
  <2>1. writes' = writes + 1
    BY <1>5, WriterWrites
  <2>2. j.at <= writes' /\ j.at # writes'
    BY <1>4, <2>1 DEF Read
  <2> QED
    BY <1>2, <1>3, <2>2 DEF Read, StillSo
<1>6. CASE UNCHANGED books
  <2>1. /\ writes' = writes
        /\ \A u : /\ Owes(ActiveSeason, u)' = Owes(ActiveSeason, u)
                  /\ settled'[ActiveSeason][u] = settled[ActiveSeason][u]
                  /\ SellerDebtSources(u, ActiveSeason)' = SellerDebtSources(u, ActiveSeason)
    BY <1>6, StillTheSame
  <2>2. StillSo(j)'
    BY <2>1 DEF Read, StillSo, Reminds
  <2> QED
    BY <1>2, <1>3, <2>1, <2>2 DEF Read
<1> QED
  BY <1>5, <1>6 DEF OnBooks

\* What left is not called back.
LEMMA SentIsKept ==
  ASSUME outbox \subseteq outbox'
  PROVE  /\ \A s : TicketsMailed(s) => TicketsMailed(s)'
         /\ \A u, a : Reminded(u, a) => Reminded(u, a)'
  BY DEF TicketsMailed, Reminded, RemindersSent

LEMMA HasSentIsKept ==
  ASSUME outbox \subseteq outbox', demo' = demo, NEW j, HasSent(j)
  PROVE  HasSent(j)'
  BY SentIsKept DEF HasSent, Reminds

LEMMA JobIs ==
  ASSUME NEW j
  PROVE  JobInv(j) <=> Read(j) /\ HasSent(j)
  BY DEF JobInv, Read

\* A step of one request: the others only see the books move.
LEMMA OthersAreKept ==
  ASSUME MailInv, OnBooks, outbox \subseteq outbox', demo' = demo,
         NEW p \in Requests, NEW n \in Job, job' = [job EXCEPT ![p] = n],
         Read(n)', HasSent(n)'
  PROVE  job' \in [Requests -> Job] /\ \A q \in Requests : JobInv(job[q])'
<1>1. job \in [Requests -> Job] /\ Books /\ demo \in BOOLEAN
  BY DEF MailInv, MailTypeOK
<1>2. job' \in [Requests -> Job]
  BY <1>1
<1>3. ASSUME NEW q \in Requests
      PROVE  JobInv(job[q])'
  <2>1. PICK j : j = job'[q]
    OBVIOUS
  <2>2. CASE q = p
    <3>1. j = n
      BY <1>1, <2>1, <2>2
    <3>2. Read(j)' /\ HasSent(j)'
      BY <3>1
    <3> QED
      BY <2>1, <3>2 DEF JobInv, Read
  <2>3. CASE q # p
    <3>1. j = job[q] /\ j \in Job
      BY <1>1, <2>1, <2>3
    <3>2. JobInv(j)
      BY <3>1 DEF MailInv
    <3>3. j.at \in Nat
      BY <3>1 DEF Job
    <3>4. Read(j)' /\ HasSent(j)'
      BY <1>1, <3>2, <3>3, JobIs, ReadIsKept, HasSentIsKept
    <3> QED
      BY <2>1, <3>4 DEF JobInv, Read
  <2> QED
    BY <2>2, <2>3
<1> QED
  BY <1>2, <1>3

LEMMA RowsNeverChange ==
  ASSUME NEW m
  PROVE  PaidOfRows(m)' = PaidOfRows(m)
  BY DEF PaidOfRows, SumOver, MapThenSumSet, MapThenFoldSet

LEMMA NewJobIs ==
  /\ NewJob \in Job
  /\ NewJob.pc = "idle" /\ NewJob.what = "none" /\ NewJob.todo = {} /\ NewJob.gone = {} /\ NewJob.at = 0
  BY DEF NewJob, Job, Answers

\* A step that sends and records nothing.
LEMMA QuietKeeps ==
  ASSUME MailInv, UNCHANGED books, Quiet,
         NEW p \in Requests, NEW n \in Job, job' = [job EXCEPT ![p] = n], Read(n)
  PROVE  HasSent(n) => MailInv'
<1> SUFFICES ASSUME HasSent(n)
             PROVE  MailInv'
  OBVIOUS
<1>1. /\ demo' = demo /\ outbox' = outbox /\ attempts' = attempts /\ reminders' = reminders
      /\ outbox \subseteq outbox' /\ OnBooks
  BY DEF Quiet, OnBooks
<1>2. Books /\ MailTypeOK /\ EverySentLeft /\ MailMatchesTickets /\ ReminderIsTrue
  BY DEF MailInv
<1>3. Books'
  BY <1>2, BooksUnchanged
<1>4. Read(n)' /\ HasSent(n)'
  <2>1. n.at \in Nat
    BY DEF Job
  <2> QED
    BY <1>1, <1>2, <2>1, ReadIsKept, HasSentIsKept
<1>5. job' \in [Requests -> Job] /\ \A q \in Requests : JobInv(job[q])'
  BY <1>1, <1>4, OthersAreKept
<1>6. MailTypeOK'
  BY <1>1, <1>2, <1>5 DEF MailTypeOK
<1>7. EverySentLeft'
  BY <1>1, <1>2 DEF EverySentLeft, TicketsMailed, Reminded, RemindersSent
<1>8. MailMatchesTickets'
  <2>1. ticket' = ticket
    BY DEF books, desk
  <2> QED
    BY <1>1, <1>2, <2>1 DEF MailMatchesTickets
<1>9. ReminderIsTrue'
  BY <1>1, <1>2, RowsNeverChange DEF ReminderIsTrue, RemindersSent
<1> QED
  BY <1>3, <1>5, <1>6, <1>7, <1>8, <1>9 DEF MailInv

LEMMA BeginKeeps ==
  ASSUME MailInv, UNCHANGED books, Quiet, NEW p \in Requests,
         NEW what \in {"tickets", "reminder", "reminders"}, NEW todo, Begin(p, what, todo),
         what = "tickets" => todo \subseteq sold,
         what # "tickets" => todo \subseteq Due,
         what = "reminders" => \A d \in todo : d.balance = Owes(ActiveSeason, d.seller) /\ d.balance > 0
  PROVE  MailInv'
<1> DEFINE n == [NewJob EXCEPT !.pc = "next", !.what = what, !.todo = todo, !.gone = Cancelled, !.at = writes]
<1>1. n.pc = "next" /\ n.what = what /\ n.todo = todo /\ n.gone = Cancelled /\ n.at = writes
  BY NewJobIs DEF Job
<1>2. job' = [job EXCEPT ![p] = n]
  BY DEF Begin
<1>3. writes \in Nat /\ sold \subseteq Sales /\ Cancelled \subseteq Tickets
  BY LibrosAssumption DEF MailInv, Books, TypeOK, Cancelled
<1>4. n \in Job
  <2>1. todo \in SUBSET (Sales \cup Due)
    BY <1>3
  <2> QED
    BY <1>3, <2>1, NewJobIs DEF Job
<1> HIDE DEF n
<1>5. Read(n)
  <2>1. JobIsAbout(n)
    BY <1>1 DEF JobIsAbout, Reminds
  <2>2. TicketsAreGood(n)
    BY <1>1 DEF TicketsAreGood
  <2>3. StillSo(n)
    BY <1>1 DEF StillSo, Reminds
  <2> QED
    BY <1>1, <1>3, <2>1, <2>2, <2>3 DEF Read
<1>6. HasSent(n)
  BY <1>1 DEF HasSent
<1> QED
  BY <1>2, <1>4, <1>5, <1>6, QuietKeeps

OwingIn(e) == {u \in Users : Owes(e, u) > 0}
AlertOf(e, u) == [seller |-> u, balance |-> Owes(e, u), collected |-> Collected(e, u), settled |-> settled[e][u]]

LEMMA AlertsAre ==
  ASSUME Books, NEW e \in Seasons
  PROVE  AttentionSettlements(e) = {AlertOf(e, u) : u \in OwingIn(e)}
<1>1. ASSUME NEW u \in Users
      PROVE  Owes(e, u) > 0 => ChargedIn(e) \cap By(u) # {}
  <2>1. Owes(e, u) > 0 => HasRow(e, u)
    BY OwesFacts
  <2>2. settled[e][u] \in Nat /\ Collected(e, u) \in Nat
    BY OwesFacts
  <2>3. PaidOf({}) = 0
    BY PaidOfFacts, WeightEmpty
  <2>4. ChargedIn(e) \cap By(u) = {} => Collected(e, u) = 0
    BY <2>3 DEF Collected
  <2> QED
    BY <2>2, <2>4 DEF Owes
<1>2. OwingIn(e) = {u \in Users : ChargedIn(e) \cap By(u) # {} /\ Owes(e, u) > 0}
  BY <1>1 DEF OwingIn
<1> QED
  BY <1>2 DEF AttentionSettlements, AlertOf, Owes, Collected

\* A resend leaves out the cancelled sales and those without an address; who owes
\* is listed with what she owes.
LEMMA BeginningsKeep ==
  ASSUME MailInv, NEW p \in Requests,
         \/ \E s \in Sales : ResendEmail(p, s)
         \/ \E S \in SUBSET sold : BulkResend(p, S)
         \/ \E u \in Users : RemindSeller(p, u)
         \/ RemindAll(p)
  PROVE  MailInv'
<1>1. CASE \E s \in Sales : ResendEmail(p, s)
  <2>1. PICK s \in Sales : ResendEmail(p, s)
    BY <1>1
  <2>2. {s} \subseteq sold /\ Begin(p, "tickets", {s}) /\ Quiet /\ UNCHANGED books
    BY <2>1 DEF ResendEmail
  <2> QED
    BY <2>2, BeginKeeps
<1>2. CASE \E S \in SUBSET sold : BulkResend(p, S)
  <2>1. PICK S \in SUBSET sold : BulkResend(p, S)
    BY <1>2
  <2> DEFINE T == (S \ voided) \cap Addressed
  <2>2. T \subseteq sold /\ Begin(p, "tickets", T) /\ Quiet /\ UNCHANGED books
    BY <2>1 DEF BulkResend
  <2> HIDE DEF T
  <2> QED
    BY <2>2, BeginKeeps
<1>3. CASE \E u \in Users : RemindSeller(p, u)
  <2>1. PICK u \in Users : RemindSeller(p, u)
    BY <1>3
  <2> DEFINE T == {[seller |-> u, balance |-> 0]}
  <2>2. T \subseteq Due /\ Begin(p, "reminder", T) /\ Quiet /\ UNCHANGED books
    BY <2>1 DEF RemindSeller, Due
  <2> HIDE DEF T
  <2> QED
    BY <2>2, BeginKeeps
<1>4. CASE RemindAll(p)
  <2> DEFINE O == AttentionSettlements(ActiveSeason)
             T == {[seller |-> a.seller, balance |-> a.balance] : a \in O}
  <2>1. Begin(p, "reminders", T) /\ Quiet /\ UNCHANGED books
    BY <1>4 DEF RemindAll
  <2>2. \A a \in O : a.seller \in Users /\ a.balance = Owes(ActiveSeason, a.seller) /\ a.balance > 0
    <3>1. O = {AlertOf(ActiveSeason, u) : u \in OwingIn(ActiveSeason)}
      BY AlertsAre, ConstantFacts DEF MailInv
    <3> HIDE DEF O
    <3> QED
      BY <3>1 DEF AlertOf, OwingIn
  <2>3. \A u \in Users : Owes(ActiveSeason, u) \in Int
    BY OwesFacts, ConstantFacts DEF MailInv
  <2> HIDE DEF O
  <2>4. \A d \in T : d \in Due /\ d.balance = Owes(ActiveSeason, d.seller) /\ d.balance > 0
    BY <2>2, <2>3 DEF Due
  <2> HIDE DEF T
  <2> QED
    BY <2>1, <2>4, BeginKeeps
<1> QED
  BY <1>1, <1>2, <1>3, <1>4

LEMMA JobFacts ==
  ASSUME MailInv, NEW p \in Requests
  PROVE  /\ job \in [Requests -> Job] /\ job[p] \in Job
         /\ Read(job[p]) /\ HasSent(job[p]) /\ Books
  BY JobIs DEF MailInv, MailTypeOK

\* ListTicketsBySale: the tickets that are not void, of a sale that was made.
LEMMA ReadTicketsKeeps ==
  ASSUME MailInv, NEW p \in Requests, NEW s \in Sales, ReadTickets(p, s)
  PROVE  MailInv'
<1> PICK j \in Job : j = job[p]
  BY JobFacts
<1> DEFINE n == [j EXCEPT !.pc = "send", !.of = s, !.todo = j.todo \ {s}, !.codes = LiveTickets({s})]
<1>1. job \in [Requests -> Job] /\ Read(j) /\ Books
  BY JobFacts
<1>2. job' = [job EXCEPT ![p] = n] /\ j.pc = "next" /\ j.what = "tickets" /\ s \in j.todo /\ Quiet /\ UNCHANGED books
  BY <1>1 DEF ReadTickets
<1>3. LiveTickets({s}) \subseteq Tickets /\ LiveTickets({s}) \cap Cancelled = {}
  BY DEF LiveTickets, Alive, Cancelled
<1>4. /\ n.pc = "send" /\ n.of = s /\ n.todo = j.todo \ {s} /\ n.codes = LiveTickets({s})
      /\ n.what = "tickets" /\ n.gone = j.gone /\ n.at = j.at /\ n \in Job
  BY <1>2, <1>3 DEF Job
<1> HIDE DEF n
<1>5. j.at <= writes /\ j.todo \subseteq sold /\ j.gone \subseteq Cancelled
  BY <1>1, <1>2 DEF Read, JobIsAbout, TicketsAreGood
<1>6. TicketsAreGood(n)
  <2>1. LiveTickets({s}) # {} \/ \A t \in TicketsOf(s) : ticket[t] = "void"
    <3>1. s \in sold
      BY <1>2, <1>5
    <3>2. \A t \in TicketsOf(s) : ticket[t] \in {"issued", "checked_in", "void"}
      <4>1. \A t \in Tickets : /\ ticket[t] \in {"none", "issued", "checked_in", "void"}
                               /\ ticket[t] = "none" <=> SaleOf[t] \notin sold
        BY <1>1 DEF Books, TypeOK
      <4> QED
        BY <3>1, <4>1 DEF TicketsOf
    <3> QED
      BY <3>2 DEF LiveTickets, Alive, TicketsOf
  <2> QED
    BY <1>3, <1>4, <1>5, <2>1 DEF TicketsAreGood
<1>7. JobIsAbout(n) /\ StillSo(n) /\ HasSent(n)
  BY <1>2, <1>4, <1>5 DEF JobIsAbout, StillSo, HasSent, Reminds
<1>8. Read(n)
  BY <1>4, <1>5, <1>6, <1>7 DEF Read
<1> QED
  BY <1>2, <1>4, <1>7, <1>8, QuietKeeps

\* sellerDetail: her row says what she owes.
LEMMA ReadReportKeeps ==
  ASSUME MailInv, NEW p \in Requests, NEW d \in job[p].todo, ReadReport(p, d)
  PROVE  MailInv'
<1> PICK j \in Job : j = job[p]
  BY JobFacts
<1> PICK r \in SettlementsReport(ActiveSeason) :
      /\ r.seller = d.seller
      /\ job' = [job EXCEPT ![p].pc = "sources", ![p].of = d.seller, ![p].todo = job[p].todo \ {d},
                            ![p].amount = SettlementBalance(r), ![p].settled = r.settled,
                            ![p].listed = d.balance]
  BY DEF ReadReport
<1> DEFINE u == d.seller
           n == [j EXCEPT !.pc = "sources", !.of = d.seller, !.todo = j.todo \ {d},
                          !.amount = SettlementBalance(r), !.settled = r.settled, !.listed = d.balance]
<1>1. job \in [Requests -> Job] /\ Read(j) /\ Books
  BY JobFacts
<1>2. job' = [job EXCEPT ![p] = n] /\ j.pc = "next" /\ Reminds(j) /\ d \in j.todo /\ Quiet /\ UNCHANGED books
  <2>1. j.pc = "next" /\ Reminds(j) /\ d \in j.todo /\ Quiet /\ UNCHANGED books
    BY DEF ReadReport, Reminds
  <2>2. job' = [job EXCEPT ![p] = n]
    BY <1>1
  <2> QED
    BY <2>1, <2>2
<1>3. j.at <= writes /\ j.todo \subseteq Due /\ j.gone \subseteq Cancelled /\ StillSo(j)
  BY <1>1, <1>2 DEF Read, JobIsAbout, TicketsAreGood
<1>4. u \in Users /\ d.balance \in Int
  BY <1>2, <1>3 DEF Due
<1>5. SettlementBalance(r) = Owes(ActiveSeason, u) /\ r.settled = settled[ActiveSeason][u]
  <2>1. PICK x \in Users : r = Row(ActiveSeason, x)
    BY ReportIs
  <2>2. x = u
    BY <2>1 DEF Row
  <2> QED
    BY <2>1, <2>2 DEF Row, SettlementBalance, Owes
<1>6. Owes(ActiveSeason, u) \in Int /\ settled[ActiveSeason][u] \in Int
  BY <1>1, <1>4, OwesFacts, ConstantFacts
<1>7. /\ n.pc = "sources" /\ n.of = u /\ n.todo = j.todo \ {d} /\ n.amount = Owes(ActiveSeason, u)
      /\ n.settled = settled[ActiveSeason][u] /\ n.listed = d.balance
      /\ n.what = j.what /\ n.gone = j.gone /\ n.at = j.at /\ n \in Job
  <2>1. SettlementBalance(r) \in Int /\ r.settled \in Int
    BY <1>5, <1>6
  <2> QED
    BY <1>4, <1>5, <2>1, ZenonT(40) DEF Job
<1> HIDE DEF n, u
<1>8. JobIsAbout(n) /\ TicketsAreGood(n) /\ HasSent(n)
  BY <1>2, <1>3, <1>4, <1>7 DEF JobIsAbout, TicketsAreGood, HasSent, Reminds
<1>9. StillSo(n)
  <2>1. n.at = writes /\ n.what = "reminders" =>
          /\ \A x \in j.todo : x.balance = Owes(ActiveSeason, x.seller) /\ x.balance > 0
          /\ d.balance = Owes(ActiveSeason, u) /\ d.balance > 0
    BY <1>2, <1>3, <1>7 DEF StillSo, Reminds, u
  <2> QED
    BY <1>7, <2>1 DEF StillSo
<1>10. Read(n)
  BY <1>3, <1>7, <1>8, <1>9 DEF Read
<1> QED
  BY <1>2, <1>7, <1>8, <1>10, QuietKeeps

LEMMA NoReportKeeps ==
  ASSUME MailInv, NEW p \in Requests, NEW d \in job[p].todo, NoReport(p, d)
  PROVE  MailInv'
<1> PICK j \in Job : j = job[p]
  BY JobFacts
<1> DEFINE n == [j EXCEPT !.todo = j.todo \ {d}]
<1>1. job \in [Requests -> Job] /\ Read(j) /\ Books
  BY JobFacts
<1>2. job' = [job EXCEPT ![p] = n] /\ j.pc = "next" /\ Reminds(j) /\ Quiet /\ UNCHANGED books
  BY <1>1 DEF NoReport, Reminds
<1>3. n.pc = "next" /\ n.todo = j.todo \ {d} /\ n.what = j.what /\ n.gone = j.gone /\ n.at = j.at /\ n \in Job
  BY <1>2 DEF Job
<1> HIDE DEF n
<1>4. HasSent(n) /\ Read(n)
  BY <1>1, <1>2, <1>3 DEF Read, JobIsAbout, TicketsAreGood, StillSo, HasSent, Reminds
<1> QED
  BY <1>2, <1>3, <1>4, QuietKeeps

\* sellerDetail, the sources: those of the report, or some of them.
LEMMA ReadSourcesKeeps ==
  ASSUME MailInv, NEW p \in Requests, ReadSources(p)
  PROVE  MailInv'
<1> PICK j \in Job : j = job[p]
  BY JobFacts
<1> DEFINE S == SellerDebtSources(j.of, ActiveSeason)
<1>1. PICK R \in SUBSET S :
        job' = [job EXCEPT ![p].pc = "send", ![p].rows = R, ![p].whole = (R = S)]
  BY DEF ReadSources, kSubset
<1> DEFINE n == [j EXCEPT !.pc = "send", !.rows = R, !.whole = (R = S)]
<1>2. job \in [Requests -> Job] /\ Read(j) /\ Books
  BY JobFacts
<1>3. job' = [job EXCEPT ![p] = n] /\ j.pc = "sources" /\ Quiet /\ UNCHANGED books
  BY <1>1, <1>2 DEF ReadSources
<1>4. S \subseteq [sale : Sales, paid : Int]
  <2>1. \A x \in ChargedIn(ActiveSeason) \cap By(j.of) : x \in Sales /\ Paid(x) \in Int
    BY <1>2, PaidType DEF By, Books, TypeOK
  <2> QED
    BY <2>1 DEF SellerDebtSources
<1>5. /\ n.pc = "send" /\ n.rows = R /\ n.whole = (R = S)
      /\ n.of = j.of /\ n.todo = j.todo /\ n.what = j.what /\ n.gone = j.gone /\ n.at = j.at
      /\ n.amount = j.amount /\ n.settled = j.settled /\ n.listed = j.listed /\ n \in Job
  BY <1>1, <1>3, <1>4, ZenonT(40) DEF Job
<1> HIDE DEF n
<1>6. Reminds(j)
  BY <1>2, <1>3 DEF Read, JobIsAbout
<1>7. JobIsAbout(n) /\ TicketsAreGood(n) /\ HasSent(n)
  BY <1>2, <1>3, <1>5, <1>6 DEF Read, JobIsAbout, TicketsAreGood, HasSent, Reminds
<1>8. StillSo(n)
  BY <1>1, <1>2, <1>3, <1>5, <1>6 DEF Read, StillSo, Reminds
<1>9. Read(n)
  BY <1>2, <1>5, <1>7, <1>8 DEF Read
<1> QED
  BY <1>3, <1>5, <1>7, <1>9, QuietKeeps

LEMMA EndingsKeep ==
  ASSUME MailInv, NEW p \in Requests, RecordFails(p) \/ Stop(p)
  PROVE  MailInv'
<1> PICK j \in Job : j = job[p]
  BY JobFacts
<1>1. job \in [Requests -> Job] /\ Read(j) /\ Books
  BY JobFacts
<1>2. CASE RecordFails(p)
  <2> DEFINE n == [j EXCEPT !.pc = "next"]
  <2>1. job' = [job EXCEPT ![p] = n] /\ j.pc = "record" /\ Quiet /\ UNCHANGED books
    BY <1>1, <1>2 DEF RecordFails
  <2>2. n.pc = "next" /\ n.todo = j.todo /\ n.what = j.what /\ n.gone = j.gone /\ n.at = j.at /\ n \in Job
    BY DEF Job
  <2> HIDE DEF n
  <2>3. HasSent(n) /\ Read(n)
    BY <1>1, <2>1, <2>2 DEF Read, JobIsAbout, TicketsAreGood, StillSo, HasSent, Reminds
  <2> QED
    BY <2>1, <2>2, <2>3, QuietKeeps
<1>3. CASE Stop(p)
  <2> DEFINE n == [NewJob EXCEPT !.pc = "done"]
  <2>1. job' = [job EXCEPT ![p] = n] /\ Quiet /\ UNCHANGED books
    BY <1>3 DEF Stop
  <2>2. n.pc = "done" /\ n.what = "none" /\ n.gone = {} /\ n.at = 0
    BY NewJobIs DEF Job
  <2>3. n \in Job
    BY NewJobIs DEF Job
  <2> HIDE DEF n
  <2>4. 0 <= writes
    BY <1>1, LibrosAssumption DEF Books, TypeOK
  <2>5. HasSent(n) /\ Read(n)
    BY <2>2, <2>4 DEF Read, JobIsAbout, TicketsAreGood, StillSo, HasSent, Reminds
  <2> QED
    BY <2>1, <2>3, <2>5, QuietKeeps
<1> QED
  BY <1>2, <1>3

LEMMA RowsAreWeighed ==
  ASSUME NEW m, IsFiniteSet(m.rows), NEW w, \A r \in m.rows : w[r] \in Int /\ w[r] = r.paid
  PROVE  PaidOfRows(m) = Weight(w, m.rows)
<1> DEFINE S == m.rows
           Choice(T) == CHOOSE x \in T : TRUE
           Eq(g) == g = [T \in SUBSET S |->
                           IF T = {} THEN 0 ELSE Choice(T).paid + g[T \ {Choice(T)}]]
<1>1. PaidOfRows(m) = (CHOOSE g : Eq(g))[S]
  BY DEF PaidOfRows, SumOver, MapThenSumSet, MapThenFoldSet
<1> HIDE DEF S
<1>2. ASSUME NEW g
      PROVE  Eq(g) <=> IsSum(g, w, S)
  <2>1. \A T \in SUBSET S : T # {} => Choice(T).paid = w[Choice(T)]
    BY DEF S
  <2> HIDE DEF Choice
  <2> QED
    BY <2>1 DEF IsSum, Choice
<1>3. \A r \in S : w[r] \in Int
  BY DEF S
<1>4. IsFiniteSet(S)
  BY DEF S
<1> HIDE DEF Eq
<1>5. PaidOfRows(m) = Weight(w, S)
  BY <1>1, <1>2, <1>3, <1>4, ChosenWeight
<1> QED
  BY <1>5 DEF S

\* The sources of what she has charged are worth it, and fewer of them less.
LEMMA SourcesAreWorth ==
  ASSUME Books, NEW u \in Users, NEW m, m.rows \subseteq SellerDebtSources(u, ActiveSeason)
  PROVE  /\ m.rows = SellerDebtSources(u, ActiveSeason) => PaidOfRows(m) = Collected(ActiveSeason, u)
         /\ m.rows # SellerDebtSources(u, ActiveSeason) => PaidOfRows(m) < Collected(ActiveSeason, u)
<1> DEFINE S == SellerDebtSources(u, ActiveSeason)
           R == m.rows
           C == ChargedIn(ActiveSeason) \cap By(u)
           D == {s \in C : Paid(s) > 0}
           h == [s \in D |-> [sale |-> s, paid |-> Paid(s)]]
           w == [r \in S |-> r.paid]
<1>1. C \subseteq sold /\ IsFiniteSet(C) /\ C \subseteq Sales
  BY LiveFinite DEF By, Books, TypeOK
<1>2. \A s \in C : PaidW[s] = Paid(s) /\ PaidW[s] \in Nat
  BY <1>1, PaidType DEF PaidW
<1>3. Collected(ActiveSeason, u) = Weight(PaidW, C)
  BY <1>1, PaidOfFacts DEF Collected
<1>4. S = {h[s] : s \in D} /\ \A s \in D : h[s] = [sale |-> s, paid |-> Paid(s)]
  BY DEF SellerDebtSources
<1>5. D \subseteq C /\ (\A s \in D : Paid(s) > 0) /\ \A s \in C \ D : ~(Paid(s) > 0)
  OBVIOUS
<1>6. \A r \in S : w[r] = r.paid
  OBVIOUS
<1>7. R \subseteq S
  OBVIOUS
<1>16. \A s \in D : h[s].sale = s /\ h[s].paid = Paid(s) /\ h[s] \in S
  BY <1>4
<1> HIDE DEF C, D, h, w, S
<1>8. Weight(PaidW, D) = Weight(PaidW, C)
  <2>1. \A s \in C \ D : PaidW[s] = 0
    BY <1>2, <1>5
  <2>2. \A s \in C : PaidW[s] \in Int
    BY <1>2
  <2> QED
    BY <1>1, <1>5, <2>1, <2>2, WeightOfPart
<1>9. Renames(h, D, S)
  BY <1>4, <1>16 DEF Renames
<1>10. \A s \in D : PaidW[s] \in Int /\ w[h[s]] = PaidW[s] /\ PaidW[s] > 0
  BY <1>2, <1>5, <1>6, <1>16
<1>11. IsFiniteSet(S) /\ Weight(w, S) = Weight(PaidW, D)
  <2>1. IsFiniteSet(D)
    BY <1>1, <1>5, FS_Subset
  <2> QED
    BY <1>9, <1>10, <2>1, WeightOfImage
<1>12. \A r \in S : w[r] \in Int /\ w[r] > 0
  BY <1>4, <1>10
<1>13. PaidOfRows(m) = Weight(w, R)
  <2>1. IsFiniteSet(m.rows) /\ \A r \in m.rows : w[r] \in Int /\ w[r] = r.paid
    BY <1>6, <1>7, <1>11, <1>12, FS_Subset
  <2> QED
    BY <2>1, RowsAreWeighed
<1> HIDE DEF R
<1>14. R # S => Weight(w, R) < Weight(w, S)
  BY <1>7, <1>11, <1>12, WeightOfFewer
<1>15. PaidOfRows(m) = Weight(w, R) /\ Weight(w, S) = Collected(ActiveSeason, u)
  BY <1>3, <1>8, <1>11, <1>13
<1> QED
  BY <1>14, <1>15 DEF R, S

\* What a reminder says if nothing was written while it was prepared.
LEMMA WhatIsSentIsTrue ==
  ASSUME Books, NEW j \in Job, Read(j), j.pc = "send", Reminds(j), j.at = writes,
         NEW m, m.rows = j.rows, m.whole = j.whole, m.amount = j.amount, m.settled = j.settled,
         m.listed = j.listed, m.what = j.what
  PROVE  /\ m.what = "reminders" => m.amount = m.listed /\ m.amount > 0
         /\ IF m.whole THEN PaidOfRows(m) = m.amount + m.settled
                       ELSE PaidOfRows(m) < m.amount + m.settled
<1>1. j.of \in Users
  BY DEF Read, JobIsAbout
<1>2. /\ j.amount = Owes(ActiveSeason, j.of) /\ j.settled = settled[ActiveSeason][j.of]
      /\ j.what = "reminders" => j.amount = j.listed /\ j.amount > 0
      /\ m.rows \subseteq SellerDebtSources(j.of, ActiveSeason)
      /\ m.whole <=> m.rows = SellerDebtSources(j.of, ActiveSeason)
  BY DEF Read, StillSo
<1>3. /\ m.whole => PaidOfRows(m) = Collected(ActiveSeason, j.of)
      /\ ~m.whole => PaidOfRows(m) < Collected(ActiveSeason, j.of)
  BY <1>1, <1>2, SourcesAreWorth
<1>4. Collected(ActiveSeason, j.of) \in Int /\ settled[ActiveSeason][j.of] \in Int
  BY <1>1, OwesFacts, ConstantFacts
<1>5. Collected(ActiveSeason, j.of) = j.amount + j.settled
  BY <1>2, <1>4 DEF Owes
<1> QED
  BY <1>2, <1>3, <1>5

\* What has left and what is recorded, while the books are written.
LEMMA TheRestIsKept ==
  ASSUME MailInv, OnBooks, Quiet
  PROVE  Books' /\ EverySentLeft' /\ MailMatchesTickets' /\ ReminderIsTrue'
<1>1. demo' = demo /\ outbox' = outbox /\ attempts' = attempts /\ reminders' = reminders
  BY DEF Quiet
<1>2. Books /\ EverySentLeft /\ MailMatchesTickets /\ ReminderIsTrue
  BY DEF MailInv
<1>3. Books'
  BY <1>2, BooksUnchanged, BooksAreKept DEF OnBooks
<1>4. EverySentLeft'
  BY <1>1, <1>2 DEF EverySentLeft, TicketsMailed, Reminded, RemindersSent
<1>5. MailMatchesTickets'
  <2>1. \A t \in Tickets : ticket[t] = "void" => ticket'[t] = "void"
    BY <1>2, WhatStays DEF Cancelled
  <2>2. \A m : \A t \in TicketsOf(m.of) : t \in Tickets
    BY DEF TicketsOf
  <2> QED
    BY <1>1, <1>2, <2>1, <2>2 DEF MailMatchesTickets
<1>6. ReminderIsTrue'
  BY <1>1, <1>2, RowsNeverChange DEF ReminderIsTrue, RemindersSent
<1> QED
  BY <1>3, <1>4, <1>5, <1>6

LEMMA MeanwhileKeeps ==
  ASSUME MailInv, OnBooks, UNCHANGED mails
  PROVE  MailInv'
<1>1. Quiet /\ OnBooks /\ outbox \subseteq outbox' /\ demo' = demo /\ job' = job
      /\ attempts' = attempts /\ reminders' = reminders
  BY DEF mails, Quiet
<1>2. Books' /\ EverySentLeft' /\ MailMatchesTickets' /\ ReminderIsTrue'
  BY <1>1, TheRestIsKept
<1>3. ASSUME NEW q \in Requests
      PROVE  JobInv(job[q])'
  <2> PICK j \in Job : j = job[q]
    BY JobFacts
  <2>1. Books /\ Read(j) /\ HasSent(j) /\ j.at \in Nat
    BY JobFacts DEF Job
  <2>2. Read(j)' /\ HasSent(j)'
    BY <1>1, <2>1, ReadIsKept, HasSentIsKept
  <2> QED
    BY <1>1, <2>2 DEF JobInv, Read
<1>4. MailTypeOK'
  BY <1>1 DEF MailInv, MailTypeOK
<1> QED
  BY <1>2, <1>3, <1>4 DEF MailInv

\* handleCreateSale: the mail has the tickets of the transaction.
LEMMA MailNewSaleKeeps ==
  ASSUME MailInv, NEW p \in Requests, NEW s \in Sales, MailNewSale(p, s)
  PROVE  MailInv'
<1> PICK n : n = [NewJob EXCEPT !.pc = "send", !.what = "tickets", !.of = s,
                                !.codes = TicketsOf(s), !.at = writes]
  OBVIOUS
<1>1. /\ n.pc = "send" /\ n.what = "tickets" /\ n.of = s /\ n.codes = TicketsOf(s) /\ n.at = writes
      /\ n.gone = {} /\ n.todo = {}
  BY NewJobIs DEF Job
<1>2. CreateSale(s) /\ Quiet /\ job' = [job EXCEPT ![p] = n]
  BY DEF MailNewSale
<1>3. Writer
  BY <1>2 DEF Writer
<1>4. OnBooks /\ outbox \subseteq outbox' /\ demo' = demo /\ attempts' = attempts /\ reminders' = reminders
  BY <1>2, <1>3 DEF OnBooks, Quiet
<1>5. writes \in Nat /\ writes' = writes + 1 /\ TicketsOf(s) \subseteq Tickets
  BY <1>3, WriterWrites, LibrosAssumption DEF MailInv, Books, TypeOK, TicketsOf
<1>6. n \in Job
  BY <1>5, NewJobIs DEF Job
<1>7. s \in sold'
  BY <1>2 DEF CreateSale
<1>8. Read(n)'
  <2>1. n.at <= writes'
    BY <1>1, <1>5
  <2>2. JobIsAbout(n)'
    BY <1>1, <1>7 DEF JobIsAbout, Reminds
  <2>3. TicketsAreGood(n)'
    BY <1>1 DEF TicketsAreGood
  <2>4. StillSo(n)'
    BY <1>1 DEF StillSo, Reminds
  <2> QED
    BY <2>1, <2>2, <2>3, <2>4 DEF Read
<1>9. HasSent(n)'
  BY <1>1 DEF HasSent
<1>10. job' \in [Requests -> Job] /\ \A q \in Requests : JobInv(job[q])'
  BY <1>2, <1>4, <1>6, <1>8, <1>9, OthersAreKept
<1>11. Books' /\ EverySentLeft' /\ MailMatchesTickets' /\ ReminderIsTrue'
  BY <1>2, <1>4, TheRestIsKept
<1>12. MailTypeOK'
  BY <1>4, <1>10 DEF MailInv, MailTypeOK
<1> QED
  BY <1>10, <1>11, <1>12 DEF MailInv

\* sendTicketEmail, recordarA: what is answered as sent has left, and what leaves
\* is what was read.
LEMMA SendKeeps ==
  ASSUME MailInv, NEW p \in Requests, Send(p)
  PROVE  MailInv'
<1> PICK j \in Job : j = job[p]
  BY JobFacts
<1> PICK mail : mail = Mail(p)
  OBVIOUS
<1>1. PICK status \in {"preview", "sent", "failed"}, out \in SUBSET {mail} :
        /\ Outcome(p, status, out)
        /\ status = "sent" => ~demo /\ out = {mail}
        /\ demo => out = {}
  BY DEF Send
<1> DEFINE n == [j EXCEPT !.pc = "record", !.status = status]
<1>2. job \in [Requests -> Job] /\ Read(j) /\ Books
  BY JobFacts
<1>3. /\ job' = [job EXCEPT ![p] = n] /\ j.pc = "send" /\ outbox' = outbox \cup out
      /\ UNCHANGED books /\ demo' = demo /\ attempts' = attempts /\ reminders' = reminders
  BY <1>1, <1>2 DEF Outcome
<1>4. /\ mail.what = j.what /\ mail.of = j.of /\ mail.codes = j.codes /\ mail.gone = j.gone
      /\ mail.amount = j.amount /\ mail.settled = j.settled /\ mail.rows = j.rows
      /\ mail.whole = j.whole /\ mail.listed = j.listed /\ (mail.calm <=> j.at = writes)
  BY DEF Mail
<1>5. /\ n.pc = "record" /\ n.status = status /\ n.what = j.what /\ n.of = j.of /\ n.amount = j.amount
      /\ n.todo = j.todo /\ n.gone = j.gone /\ n.at = j.at /\ j.at \in Nat
  BY DEF Job
<1>15. n \in Job /\ n.at \in Nat
  <2>1. status \in Answers
    BY <1>1 DEF Answers
  <2> QED
    BY <2>1 DEF Job
<1> HIDE DEF n
<1>6. OnBooks /\ outbox \subseteq outbox'
  BY <1>3 DEF OnBooks
<1>7. Read(n)'
  <2>1. Read(n)
    BY <1>2, <1>3, <1>5 DEF Read, JobIsAbout, TicketsAreGood, StillSo, Reminds
  <2> QED
    BY <1>2, <1>5, <1>6, <1>15, <2>1, ReadIsKept
<1>8. j.what # "tickets" <=> Reminds(j)
  BY <1>2, <1>3 DEF Read, JobIsAbout, Job, Reminds
<1>9. HasSent(n)'
  <2> SUFFICES ASSUME status = "sent"
               PROVE  /\ ~demo'
                      /\ n.what = "tickets" => TicketsMailed(n.of)'
                      /\ Reminds(n) => Reminded(n.of, n.amount)'
    BY <1>5 DEF HasSent, Reminds
  <2>1. ~demo' /\ mail \in outbox'
    BY <1>1, <1>3
  <2>2. n.what = "tickets" => TicketsMailed(n.of)'
    BY <1>4, <1>5, <2>1 DEF TicketsMailed
  <2>3. Reminds(n) => Reminded(n.of, n.amount)'
    BY <1>4, <1>5, <1>8, <2>1 DEF Reminded, RemindersSent, Reminds
  <2> QED
    BY <2>1, <2>2, <2>3
<1>10. job' \in [Requests -> Job] /\ \A q \in Requests : JobInv(job[q])'
  BY <1>3, <1>5, <1>6, <1>7, <1>9, <1>15, OthersAreKept
<1>11. MailTypeOK' /\ Books'
  BY <1>2, <1>3, <1>10, BooksUnchanged DEF MailInv, MailTypeOK
<1>12. EverySentLeft'
  <2>1. EverySentLeft
    BY DEF MailInv
  <2>2. demo' => outbox' = {}
    BY <1>1, <1>3, <2>1 DEF EverySentLeft
  <2> QED
    BY <1>3, <1>6, <2>1, <2>2, SentIsKept DEF EverySentLeft
<1>13. MailMatchesTickets'
  <2>1. ticket' = ticket
    BY <1>3 DEF books, desk
  <2>2. ASSUME NEW m \in outbox', m.what = "tickets"
        PROVE  m.codes \cap m.gone = {} /\ (m.codes # {} \/ \A t \in TicketsOf(m.of) : ticket[t] = "void")
    <3>1. CASE m \in outbox
      BY <2>2, <3>1 DEF MailInv, MailMatchesTickets
    <3>2. CASE m = mail
      BY <1>2, <1>3, <1>4, <2>2, <3>2 DEF Read, TicketsAreGood
    <3> QED
      BY <1>3, <3>1, <3>2
  <2> QED
    BY <2>1, <2>2 DEF MailMatchesTickets
<1>14. ReminderIsTrue'
  <2>1. ASSUME NEW m \in outbox', m.what # "tickets", m.calm
        PROVE  /\ m.what = "reminders" => m.amount = m.listed /\ m.amount > 0
               /\ IF m.whole THEN PaidOfRows(m) = m.amount + m.settled
                             ELSE PaidOfRows(m) < m.amount + m.settled
    <3>1. CASE m \in outbox
      BY <2>1, <3>1 DEF MailInv, ReminderIsTrue, RemindersSent
    <3>2. CASE m = mail
      <4>1. Reminds(j) /\ j.at = writes
        BY <1>4, <1>8, <2>1, <3>2
      <4> QED
        BY <1>2, <1>3, <1>4, <3>2, <4>1, WhatIsSentIsTrue
    <3> QED
      BY <1>3, <3>1, <3>2
  <2> QED
    BY <2>1, RowsNeverChange DEF ReminderIsTrue, RemindersSent
<1> QED
  BY <1>10, <1>11, <1>12, <1>13, <1>14 DEF MailInv

LEMMA AppendedTo ==
  ASSUME NEW A, NEW q \in Seq(A), NEW x \in A
  PROVE  /\ Append(q, x) \in Seq(A)
         /\ \A i \in DOMAIN Append(q, x) : \/ i \in DOMAIN q /\ Append(q, x)[i] = q[i]
                                           \/ Append(q, x)[i] = x
<1> DEFINE r == Append(q, x)
<1>1. r \in Seq(A) /\ Len(r) = Len(q) + 1 /\ (\A i \in 1..Len(q) : r[i] = q[i]) /\ r[Len(q) + 1] = x
  BY AppendProperties
<1> HIDE DEF r
<1>2. Len(q) \in Nat /\ DOMAIN q = 1..Len(q) /\ DOMAIN r = 1..Len(r)
  BY <1>1, LenProperties
<1>3. \A i \in DOMAIN r : (i \in DOMAIN q /\ r[i] = q[i]) \/ r[i] = x
  BY <1>1, <1>2
<1> QED
  BY <1>1, <1>3 DEF r

\* RecordEmailSend, CreateReminder: a row "sent" is of a mail that left.
LEMMA RecordKeeps ==
  ASSUME MailInv, NEW p \in Requests, Record(p)
  PROVE  MailInv'
<1> PICK j \in Job : j = job[p]
  BY JobFacts
<1> DEFINE n == [j EXCEPT !.pc = "next"]
<1>1. job \in [Requests -> Job] /\ Read(j) /\ HasSent(j) /\ Books /\ MailTypeOK /\ EverySentLeft
  BY JobFacts DEF MailInv
<1>2. job' = [job EXCEPT ![p] = n] /\ j.pc = "record" /\ UNCHANGED books /\ demo' = demo /\ outbox' = outbox
  BY <1>1 DEF Record
<1>3. n.pc = "next" /\ n.todo = j.todo /\ n.what = j.what /\ n.gone = j.gone /\ n.at = j.at
      /\ n \in Job /\ n.at \in Nat
  BY DEF Job
<1> HIDE DEF n
<1>4. OnBooks /\ outbox \subseteq outbox'
  BY <1>2 DEF OnBooks
<1>5. Read(n)' /\ HasSent(n)'
  <2>1. Read(n) /\ HasSent(n)
    BY <1>1, <1>2, <1>3 DEF Read, JobIsAbout, TicketsAreGood, StillSo, HasSent, Reminds
  <2> QED
    BY <1>1, <1>2, <1>3, <1>4, <2>1, ReadIsKept, HasSentIsKept
<1>6. job' \in [Requests -> Job] /\ \A q \in Requests : JobInv(job[q])'
  BY <1>2, <1>3, <1>4, <1>5, OthersAreKept
<1>7. Books'
  BY <1>1, <1>2, BooksUnchanged
<1>8. MailMatchesTickets' /\ ReminderIsTrue'
  <2>1. ticket' = ticket
    BY <1>2 DEF books, desk
  <2> QED
    BY <1>2, <2>1, RowsNeverChange DEF MailInv, MailMatchesTickets, ReminderIsTrue, RemindersSent
<1>9. MailTypeOK' /\ EverySentLeft'
  <2>1. CASE j.what = "tickets"
    <3>1. attempts' = [attempts EXCEPT ![j.of] = Append(@, j.status)] /\ reminders' = reminders
      BY <2>1 DEF Record
    <3>2. j.of \in Sales /\ j.status \in Answers
      BY <1>1, <1>2, <2>1 DEF Read, JobIsAbout, Books, TypeOK, Job
    <3> DEFINE q == attempts[j.of]
               r == Append(q, j.status)
    <3>3. q \in Seq(Answers) /\ attempts \in [Sales -> Seq(Answers)]
      BY <1>1, <3>2 DEF MailTypeOK
    <3>4. r \in Seq(Answers) /\ \A i \in DOMAIN r : (i \in DOMAIN q /\ r[i] = q[i]) \/ r[i] = j.status
      BY <3>2, <3>3, AppendedTo
    <3>5. attempts'[j.of] = r /\ \A s \in Sales : s # j.of => attempts'[s] = attempts[s]
      BY <3>1, <3>2, <3>3
    <3> HIDE DEF r, q
    <3>6. attempts' \in [Sales -> Seq(Answers)]
      BY <3>1, <3>2, <3>3, <3>4 DEF r, q
    <3>7. j.status = "sent" => TicketsMailed(j.of)
      BY <1>1, <1>2, <2>1 DEF HasSent
    <3>8. \A s \in Sales : \A i \in DOMAIN attempts'[s] : attempts'[s][i] = "sent" => TicketsMailed(s)
      <4> SUFFICES ASSUME NEW s \in Sales, NEW i \in DOMAIN attempts'[s], attempts'[s][i] = "sent"
                   PROVE  TicketsMailed(s)
        OBVIOUS
      <4>1. CASE s = j.of
        BY <1>1, <3>4, <3>5, <3>7, <4>1 DEF q, EverySentLeft
      <4>2. CASE s # j.of
        BY <1>1, <3>5, <4>2 DEF EverySentLeft
      <4> QED
        BY <4>1, <4>2
    <3>9. EverySentLeft'
      BY <1>1, <1>2, <3>1, <3>8 DEF EverySentLeft, TicketsMailed, Reminded, RemindersSent
    <3> QED
      BY <1>1, <1>2, <1>6, <3>1, <3>6, <3>9 DEF MailTypeOK
  <2>2. CASE j.what # "tickets"
    <3> DEFINE x == [status |-> j.status, amount |-> j.amount]
               Rows == [status : Answers, amount : Int]
    <3>1. reminders' = [reminders EXCEPT ![j.of] = Append(@, x)] /\ attempts' = attempts
      BY <2>2 DEF Record
    <3>2. Reminds(j) /\ j.of \in Users /\ x \in Rows
      BY <1>1, <1>2, <2>2 DEF Read, JobIsAbout, Job, Reminds
    <3> DEFINE q == reminders[j.of]
               r == Append(q, x)
    <3>3. q \in Seq(Rows) /\ reminders \in [Users -> Seq(Rows)]
      BY <1>1, <3>2 DEF MailTypeOK
    <3>4. x.status = j.status /\ x.amount = j.amount
      OBVIOUS
    <3> HIDE DEF x, Rows
    <3>5. r \in Seq(Rows) /\ \A i \in DOMAIN r : (i \in DOMAIN q /\ r[i] = q[i]) \/ r[i] = x
      BY <3>2, <3>3, AppendedTo
    <3>6. reminders'[j.of] = r /\ \A u \in Users : u # j.of => reminders'[u] = reminders[u]
      BY <3>1, <3>2, <3>3
    <3> HIDE DEF r, q
    <3>7. reminders' \in [Users -> Seq(Rows)]
      BY <3>1, <3>2, <3>3, <3>5 DEF r, q
    <3>8. x.status = "sent" => Reminded(j.of, x.amount)
      BY <1>1, <1>2, <3>2, <3>4 DEF HasSent
    <3>9. \A u \in Users : \A i \in DOMAIN reminders'[u] :
             reminders'[u][i].status = "sent" => Reminded(u, reminders'[u][i].amount)
      <4> SUFFICES ASSUME NEW u \in Users, NEW i \in DOMAIN reminders'[u], reminders'[u][i].status = "sent"
                   PROVE  Reminded(u, reminders'[u][i].amount)
        OBVIOUS
      <4>1. CASE u = j.of
        BY <1>1, <3>5, <3>6, <3>8, <4>1 DEF q, EverySentLeft
      <4>2. CASE u # j.of
        BY <1>1, <3>6, <4>2 DEF EverySentLeft
      <4> QED
        BY <4>1, <4>2
    <3>10. EverySentLeft'
      BY <1>1, <1>2, <3>1, <3>9 DEF EverySentLeft, TicketsMailed, Reminded, RemindersSent
    <3> QED
      BY <1>1, <1>2, <1>6, <3>1, <3>7, <3>10 DEF MailTypeOK, Rows
  <2> QED
    BY <2>1, <2>2
<1> QED
  BY <1>6, <1>7, <1>8, <1>9 DEF MailInv

LEMMA AInitIsGood ==
  ASSUME AInit
  PROVE  MailInv
<1>1. Books
  BY InitBooks DEF AInit
<1>2. /\ job = [p \in Requests |-> NewJob] /\ outbox = {} /\ demo \in BOOLEAN
      /\ attempts = [s \in Sales |-> <<>>] /\ reminders = [u \in Users |-> <<>>]
  BY DEF AInit
<1>3. NewJob \in Job
  BY DEF NewJob, Job, Answers
<1>4. MailTypeOK
  <2>1. \A A : <<>> \in Seq(A)
    BY EmptySeq
  <2> QED
    BY <1>2, <1>3, <2>1 DEF MailTypeOK
<1>5. writes = 0 /\ 0 \in Nat
  BY DEF AInit, Init
<1>6. Read(NewJob) /\ HasSent(NewJob)
  BY <1>5 DEF NewJob, Read, JobIsAbout, TicketsAreGood, StillSo, HasSent, Reminds
<1>7. \A p \in Requests : JobInv(job[p])
  BY <1>2, <1>6, JobIs
<1>8. EverySentLeft /\ MailMatchesTickets /\ ReminderIsTrue
  <2>1. \A A : DOMAIN <<>> = {}
    OBVIOUS
  <2> QED
    BY <1>2, <2>1 DEF EverySentLeft, MailMatchesTickets, ReminderIsTrue, RemindersSent
<1> QED
  BY <1>1, <1>4, <1>7, <1>8 DEF MailInv

LEMMA NextKeeps ==
  ASSUME MailInv, [Next]_vars
  PROVE  MailInv'
<1>1. CASE Meanwhile
  <2>1. ActiveSeason \in Seasons
    BY ConstantFacts
  <2>2. Writer /\ UNCHANGED mails
    BY <1>1, <2>1 DEF Meanwhile, Writer
  <2> QED
    BY <2>2, MeanwhileKeeps DEF OnBooks
<1>2. CASE UNCHANGED vars
  BY <1>2, MeanwhileKeeps DEF vars, OnBooks
<1>3. ASSUME NEW p \in Requests, Serve(p)
      PROVE  MailInv'
  BY Zenon, <1>3, MailNewSaleKeeps, ReadTicketsKeeps, BeginningsKeep, ReadReportKeeps, NoReportKeeps,
     ReadSourcesKeeps, SendKeeps, RecordKeeps, EndingsKeep DEF Serve
<1> QED
  BY <1>1, <1>2, <1>3 DEF Next

\* The inductive invariant of the mails: what a request that waits for the provider has
\* read is still accounted for, in spite of everything written meanwhile.
THEOREM MailInvCorrect == MailSpec => []MailInv
<1>1. AInit => MailInv
  BY AInitIsGood
<1>2. MailInv /\ [Next]_vars => MailInv'
  BY NextKeeps
<1> QED
  BY <1>1, <1>2, PTL DEF MailSpec

\* However the tickets are cancelled while mails are prepared, one that was cancelled
\* before a mail was asked for is not in it, and a mail without tickets leaves only
\* when all those of the sale are cancelled.
THEOREM MailMatchesTicketsCorrect == MailSpec => []MailMatchesTickets
<1>1. MailInv => MailMatchesTickets
  BY DEF MailInv
<1> QED
  BY <1>1, MailInvCorrect, PTL

\* Nobody is told of a mail that did not leave, and in the demo none leaves.
THEOREM ToldAsSentCorrect == MailSpec => []ToldAsSent
<1>1. MailInv => ToldAsSent
  <2> SUFFICES ASSUME MailInv
               PROVE  ToldAsSent
    OBVIOUS
  <2>1. EverySentLeft /\ MailTypeOK
    BY DEF MailInv
  <2>2. ASSUME NEW s \in Sales, Entrega(s) = "sent"
        PROVE  TicketsMailed(s)
    <3> DEFINE q == attempts[s]
    <3>1. s \in Addressed /\ q # <<>> /\ Last(q) = "sent"
      BY <2>2 DEF Entrega
    <3>2. q \in Seq(Answers)
      BY <2>1 DEF MailTypeOK
    <3>3. Len(q) \in DOMAIN q
      BY <3>1, <3>2, LenProperties, EmptySeq
    <3>4. q[Len(q)] = "sent"
      BY <3>1 DEF Last
    <3> QED
      BY <2>1, <3>3, <3>4 DEF EverySentLeft
  <2> QED
    BY <2>1, <2>2 DEF ToldAsSent, EverySentLeft, TicketsMailed, Reminded
<1> QED
  BY <1>1, MailInvCorrect, PTL

\* A reminder prepared while the books were still claims what the seller owes, and the
\* sales it names are worth it and what she has settled, or less if some do not fit.
THEOREM ReminderIsTrueCorrect == MailSpec => []ReminderIsTrue
<1>1. MailInv => ReminderIsTrue
  BY DEF MailInv
<1> QED
  BY <1>1, MailInvCorrect, PTL

---------------------------------------------------------------------------
(* What a seller owes, on every screen.                                    *)

LEMMA AlertsOfOne ==
  ASSUME Books, NEW e \in Seasons, NEW u \in Users
  PROVE  {a.balance : a \in {x \in AttentionSettlements(e) : x.seller = u}}
           = IF Owes(e, u) > 0 THEN {Owes(e, u)} ELSE {}
<1>1. \A x : AlertOf(e, x).seller = x /\ AlertOf(e, x).balance = Owes(e, x)
  BY DEF AlertOf
<1>2. {x \in AttentionSettlements(e) : x.seller = u} = IF Owes(e, u) > 0 THEN {AlertOf(e, u)} ELSE {}
  BY <1>1, AlertsAre DEF OwingIn
<1> QED
  BY <1>1, <1>2

\* As many alerts as rows with a balance.
LEMMA AsManyAlerts ==
  ASSUME Books, NEW e \in Seasons
  PROVE  /\ Count(AttentionSettlements(e)) = Count({r \in SettlementsReport(e) : SettlementBalance(r) > 0})
         /\ IsFiniteSet(OwingIn(e)) /\ IsFiniteSet(AttentionSettlements(e))
<1> DEFINE O == OwingIn(e)
           h == [u \in O |-> AlertOf(e, u)]
           k == [u \in O |-> Row(e, u)]
           J == AttentionSettlements(e)
           K == {r \in SettlementsReport(e) : SettlementBalance(r) > 0}
<1>1. IsFiniteSet(O)
  BY ConstantFacts, FS_Subset DEF OwingIn
<1>2. \A u : AlertOf(e, u).seller = u /\ Row(e, u).seller = u /\ SettlementBalance(Row(e, u)) = Owes(e, u)
  BY DEF AlertOf, Row, SettlementBalance, Owes
<1>3. \A u \in Users : Owes(e, u) > 0 => HasRow(e, u)
  BY OwesFacts
<1>4. K = {Row(e, u) : u \in O}
  <2>1. K \subseteq {Row(e, u) : u \in O}
    BY <1>2, ReportIs DEF OwingIn
  <2>2. ASSUME NEW u \in O
        PROVE  Row(e, u) \in K
    BY <1>2, <1>3, ReportIs DEF OwingIn
  <2> QED
    BY <2>1, <2>2
<1>5. Renames(h, O, J)
  BY <1>2, AlertsAre DEF Renames
<1>6. Renames(k, O, K)
  BY <1>2, <1>4 DEF Renames
<1> HIDE DEF O, h, k, J, K
<1>7. IsFiniteSet(J) /\ Cardinality(J) = Cardinality(O) /\ Cardinality(K) = Cardinality(O)
  BY <1>1, <1>5, <1>6, CountOfImage
<1> QED
  BY <1>1, <1>7 DEF Count, O, J, K

\* The heading of the team and the alerts, added up.
LEMMA OwedIsWeight ==
  ASSUME NEW e, IsFiniteSet(DOMAIN TeamForSeason(e)), NEW w, \A x \in DOMAIN TeamForSeason(e) : w[x] \in Int /\ w[x] = (IF TeamForSeason(e)[x].balance > 0 THEN TeamForSeason(e)[x].balance ELSE 0)
  PROVE  Team(e).balance = Weight(w, DOMAIN TeamForSeason(e))
<1> DEFINE Choice(T) == CHOOSE x \in T : TRUE
           S == DOMAIN TeamForSeason(e)
           Eq(g) == g = [T \in SUBSET S |->
                           IF T = {} THEN 0 ELSE (IF TeamForSeason(e)[Choice(T)].balance > 0 THEN TeamForSeason(e)[Choice(T)].balance ELSE 0) + g[T \ {Choice(T)}]]
<1>1. Team(e).balance = (CHOOSE g : Eq(g))[S]
  BY DEF Team, SumOver, MapThenSumSet, MapThenFoldSet
<1>2. ASSUME NEW g
      PROVE  Eq(g) <=> IsSum(g, w, S)
  <2>1. \A T \in SUBSET S : T # {} => (IF TeamForSeason(e)[Choice(T)].balance > 0 THEN TeamForSeason(e)[Choice(T)].balance ELSE 0) = w[Choice(T)]
    OBVIOUS
  <2> HIDE DEF Choice
  <2> QED
    BY <2>1 DEF IsSum, Choice
<1> HIDE DEF Eq
<1> QED
  BY <1>1, <1>2, ChosenWeight

LEMMA AlertSumIsWeight ==
  ASSUME NEW S, IsFiniteSet(S), NEW w, \A x \in S : w[x] \in Int /\ w[x] = x.balance
  PROVE  SumOver(S, LAMBDA a : a.balance) = Weight(w, S)
<1> DEFINE Choice(T) == CHOOSE x \in T : TRUE
           Eq(g) == g = [T \in SUBSET S |->
                           IF T = {} THEN 0 ELSE Choice(T).balance + g[T \ {Choice(T)}]]
<1>1. SumOver(S, LAMBDA a : a.balance) = (CHOOSE g : Eq(g))[S]
  BY DEF SumOver, MapThenSumSet, MapThenFoldSet
<1>2. ASSUME NEW g
      PROVE  Eq(g) <=> IsSum(g, w, S)
  <2>1. \A T \in SUBSET S : T # {} => Choice(T).balance = w[Choice(T)]
    OBVIOUS
  <2> HIDE DEF Choice
  <2> QED
    BY <2>1 DEF IsSum, Choice
<1> HIDE DEF Eq
<1> QED
  BY <1>1, <1>2, ChosenWeight

\* If everybody who sold is in the team, its heading adds up the alerts.
LEMMA TeamOwesTheAlerts ==
  ASSUME Books, NEW e \in Seasons, Vendors(e) \subseteq Members(e)
  PROVE  Team(e).balance = SumOver(AttentionSettlements(e), LAMBDA a : a.balance)
<1> DEFINE M == Members(e)
           O == OwingIn(e)
           J == AttentionSettlements(e)
           b == [u \in Users |-> Owes(e, u)]
           v == [u \in M |-> IF b[u] > 0 THEN b[u] ELSE 0]
           h == [u \in O |-> AlertOf(e, u)]
           w == [a \in J |-> a.balance]
<1>1. IsFiniteSet(M) /\ M \subseteq Users
  BY ConstantFacts, FS_Subset DEF Members
<1>2. \A u \in Users : b[u] \in Int /\ b[u] = Owes(e, u)
  BY OwesFacts
<1>3. DOMAIN TeamForSeason(e) = M /\ \A u \in M : TeamForSeason(e)[u].balance = Owes(e, u)
  BY DEF TeamForSeason, Owes, Collected
<1>4. O \subseteq M
  <2> SUFFICES ASSUME NEW u \in O
               PROVE  u \in M
    OBVIOUS
  <2>1. u \in Users /\ Owes(e, u) > 0 /\ Owes(e, u) \in Int
    BY OwesFacts DEF OwingIn
  <2>2. ChargedIn(e) \cap By(u) # {}
    <3>1. ChargedIn(e) \cap By(u) = {} => Collected(e, u) = 0
      BY PaidOfFacts, WeightEmpty DEF Collected
    <3>2. settled[e][u] \in Nat
      BY <2>1, OwesFacts
    <3> QED
      BY <2>1, <3>1, <3>2 DEF Owes
  <2> QED
    BY <2>2 DEF ChargedIn, By, Vendors
<1>5. IsFiniteSet(O) /\ IsFiniteSet(J) /\ J = {h[u] : u \in O}
  BY AsManyAlerts, AlertsAre
<1>6. \A u \in O : h[u] \in J /\ h[u].seller = u /\ h[u].balance = b[u] /\ b[u] > 0
  BY AlertsAre DEF AlertOf, OwingIn
<1>7. \A u \in M : v[u] = IF b[u] > 0 THEN b[u] ELSE 0
  OBVIOUS
<1>8. \A a \in J : w[a] = a.balance
  OBVIOUS
<1>9. \A u \in M \ O : ~(b[u] > 0)
  BY <1>1 DEF OwingIn
<1> HIDE DEF M, O, J, b, v, h, w
<1>10. \A u \in M : v[u] \in Int
  BY <1>1, <1>2, <1>7
<1>11. Team(e).balance = Weight(v, M)
  <2>1. \A u \in M : v[u] = IF TeamForSeason(e)[u].balance > 0 THEN TeamForSeason(e)[u].balance ELSE 0
    BY <1>1, <1>2, <1>3, <1>7
  <2> QED
    BY <1>1, <1>3, <1>10, <2>1, OwedIsWeight
<1>12. Weight(v, O) = Weight(v, M)
  <2>1. \A u \in M \ O : v[u] = 0
    BY <1>7, <1>9
  <2> QED
    BY <1>1, <1>4, <1>10, <2>1, WeightOfPart
<1>13. Renames(h, O, J)
  BY <1>5, <1>6 DEF Renames
<1>14. \A u \in O : v[u] \in Int /\ w[h[u]] = v[u]
  BY <1>4, <1>6, <1>7, <1>8, <1>10
<1>15. Weight(w, J) = Weight(v, O)
  BY <1>5, <1>13, <1>14, WeightOfImage
<1>16. \A a \in J : w[a] \in Int /\ w[a] = a.balance
  BY <1>5, <1>8, <1>14
<1>17. SumOver(J, LAMBDA a : a.balance) = Weight(w, J)
  BY <1>5, <1>16, AlertSumIsWeight
<1> QED
  BY <1>11, <1>12, <1>15, <1>17 DEF J

\* What a seller owes is the same number on her home, in the report and its detail,
\* in the alerts, in the team and in the counters of the direction.
THEOREM OneBalanceCorrect == Spec => []OneBalance
<1>1. Books => OneBalance
  <2> SUFFICES ASSUME Books, NEW e \in Seasons
               PROVE  /\ \A u \in Users :
                           LET b == SumOver({r \in SettlementsReport(e) : r.seller = u}, SettlementBalance) IN
                           /\ {a.balance : a \in {x \in AttentionSettlements(e) : x.seller = u}}
                                = IF b > 0 THEN {b} ELSE {}
                           /\ u \in DOMAIN Team(e).members => Team(e).members[u].balance = b
                           /\ \A d \in SellerDetail(u, e) : d.balance = b
                           /\ \A r \in SettlementsScreen(u, e) : r.seller = u => r.balance = b
                           /\ e = ActiveSeason => SellerHome(u).balance = b
                      /\ Direccion(e).sellersOwing = Count({r \in SettlementsReport(e) : SettlementBalance(r) > 0})
                      /\ DirectionHome(e).settlementsPending = Count(AttentionSettlements(e))
                      /\ Vendors(e) \subseteq Members(e)
                           => Team(e).balance = SumOver(AttentionSettlements(e), LAMBDA a : a.balance)
    BY DEF OneBalance
  <2>1. ASSUME NEW u \in Users
        PROVE  LET b == SumOver({r \in SettlementsReport(e) : r.seller = u}, SettlementBalance) IN
               /\ {a.balance : a \in {x \in AttentionSettlements(e) : x.seller = u}}
                    = IF b > 0 THEN {b} ELSE {}
               /\ u \in DOMAIN Team(e).members => Team(e).members[u].balance = b
               /\ \A d \in SellerDetail(u, e) : d.balance = b
               /\ \A r \in SettlementsScreen(u, e) : r.seller = u => r.balance = b
               /\ e = ActiveSeason => SellerHome(u).balance = b
    <3> DEFINE b == SumOver({r \in SettlementsReport(e) : r.seller = u}, SettlementBalance)
    <3>1. b = Owes(e, u)
      BY BalanceIs
    <3>2. {a.balance : a \in {x \in AttentionSettlements(e) : x.seller = u}}
            = IF Owes(e, u) > 0 THEN {Owes(e, u)} ELSE {}
      BY AlertsOfOne
    <3>3. u \in DOMAIN Team(e).members => Team(e).members[u].balance = Owes(e, u)
      BY DEF Team, TeamForSeason, Owes, Collected
    <3>4. ASSUME NEW r \in SettlementsReport(e)
          PROVE  r.seller = u => SettlementBalance(r) = Owes(e, u)
      <4>1. PICK x \in Users : r = Row(e, x)
        BY ReportIs
      <4> QED
        BY <4>1 DEF Row, SettlementBalance, Owes
    <3>5. \A d \in SellerDetail(u, e) : d.balance = Owes(e, u)
      BY <3>4 DEF SellerDetail
    <3>6. \A r \in SettlementsScreen(u, e) : r.seller = u => r.balance = Owes(e, u)
      BY <3>4 DEF SettlementsScreen
    <3>7. e = ActiveSeason => SellerHome(u).balance = b
      BY DEF SellerHome
    <3> HIDE DEF b
    <3>8. /\ {a.balance : a \in {x \in AttentionSettlements(e) : x.seller = u}}
                = IF b > 0 THEN {b} ELSE {}
          /\ u \in DOMAIN Team(e).members => Team(e).members[u].balance = b
          /\ \A d \in SellerDetail(u, e) : d.balance = b
          /\ \A r \in SettlementsScreen(u, e) : r.seller = u => r.balance = b
          /\ e = ActiveSeason => SellerHome(u).balance = b
      BY <3>1, <3>2, <3>3, <3>5, <3>6, <3>7
    <3> QED
      BY <3>8 DEF b
  <2>2. Direccion(e).sellersOwing = Count({r \in SettlementsReport(e) : SettlementBalance(r) > 0})
    BY AsManyAlerts DEF Direccion
  <2>3. DirectionHome(e).settlementsPending = Count(AttentionSettlements(e))
    BY DEF DirectionHome
  <2> QED
    BY <2>1, <2>2, <2>3, TeamOwesTheAlerts
<1> QED
  BY <1>1, BooksCorrect, PTL

---------------------------------------------------------------------------
(* Every peso is in one place.                                             *)
LEMMA DebtOfIsWeight ==
  ASSUME NEW S, IsFiniteSet(S), NEW w, \A x \in S : w[x] \in Int /\ w[x] = Debt(x)
  PROVE  DebtOf(S) = Weight(w, S)
<1> DEFINE Choice(T) == CHOOSE x \in T : TRUE
           Eq(g) == g = [T \in SUBSET S |->
                           IF T = {} THEN 0 ELSE Debt(Choice(T)) + g[T \ {Choice(T)}]]
<1>1. DebtOf(S) = (CHOOSE g : Eq(g))[S]
  BY DEF DebtOf, SumOver, MapThenSumSet, MapThenFoldSet
<1>2. ASSUME NEW g
      PROVE  Eq(g) <=> IsSum(g, w, S)
  <2>1. \A T \in SUBSET S : T # {} => Debt(Choice(T)) = w[Choice(T)]
    OBVIOUS
  <2> HIDE DEF Choice
  <2> QED
    BY <2>1, ZenonT(40) DEF IsSum, Choice
<1> HIDE DEF Eq
<1> QED
  BY <1>1, <1>2, ChosenWeight

LEMMA AmountOfIsWeight ==
  ASSUME NEW S, IsFiniteSet(S), NEW w, \A x \in S : w[x] \in Int /\ w[x] = Amount(x)
  PROVE  AmountOf(S) = Weight(w, S)
<1> DEFINE Choice(T) == CHOOSE x \in T : TRUE
           Eq(g) == g = [T \in SUBSET S |->
                           IF T = {} THEN 0 ELSE Amount(Choice(T)) + g[T \ {Choice(T)}]]
<1>1. AmountOf(S) = (CHOOSE g : Eq(g))[S]
  BY DEF AmountOf, SumOver, MapThenSumSet, MapThenFoldSet
<1>2. ASSUME NEW g
      PROVE  Eq(g) <=> IsSum(g, w, S)
  <2>1. \A T \in SUBSET S : T # {} => Amount(Choice(T)) = w[Choice(T)]
    OBVIOUS
  <2> HIDE DEF Choice
  <2> QED
    BY <2>1, ZenonT(40) DEF IsSum, Choice
<1> HIDE DEF Eq
<1> QED
  BY <1>1, <1>2, ChosenWeight

LEMMA SettledSumIsWeight ==
  ASSUME NEW S, IsFiniteSet(S), NEW w, \A x \in S : w[x] \in Int /\ w[x] = x.settled
  PROVE  SumOver(S, LAMBDA r : r.settled) = Weight(w, S)
<1> DEFINE Choice(T) == CHOOSE x \in T : TRUE
           Eq(g) == g = [T \in SUBSET S |->
                           IF T = {} THEN 0 ELSE Choice(T).settled + g[T \ {Choice(T)}]]
<1>1. SumOver(S, LAMBDA r : r.settled) = (CHOOSE g : Eq(g))[S]
  BY DEF SumOver, MapThenSumSet, MapThenFoldSet
<1>2. ASSUME NEW g
      PROVE  Eq(g) <=> IsSum(g, w, S)
  <2>1. \A T \in SUBSET S : T # {} => Choice(T).settled = w[Choice(T)]
    OBVIOUS
  <2> HIDE DEF Choice
  <2> QED
    BY <2>1 DEF IsSum, Choice
<1> HIDE DEF Eq
<1> QED
  BY <1>1, <1>2, ChosenWeight

LEMMA PendingSumIsWeight ==
  ASSUME NEW S, IsFiniteSet(S), NEW w, \A x \in S : w[x] \in Int /\ w[x] = x.pending
  PROVE  SumOver(S, LAMBDA r : r.pending) = Weight(w, S)
<1> DEFINE Choice(T) == CHOOSE x \in T : TRUE
           Eq(g) == g = [T \in SUBSET S |->
                           IF T = {} THEN 0 ELSE Choice(T).pending + g[T \ {Choice(T)}]]
<1>1. SumOver(S, LAMBDA r : r.pending) = (CHOOSE g : Eq(g))[S]
  BY DEF SumOver, MapThenSumSet, MapThenFoldSet
<1>2. ASSUME NEW g
      PROVE  Eq(g) <=> IsSum(g, w, S)
  <2>1. \A T \in SUBSET S : T # {} => Choice(T).pending = w[Choice(T)]
    OBVIOUS
  <2> HIDE DEF Choice
  <2> QED
    BY <2>1 DEF IsSum, Choice
<1> HIDE DEF Eq
<1> QED
  BY <1>1, <1>2, ChosenWeight

LEMMA SeasonSettledIsWeight ==
  ASSUME NEW e, IsFiniteSet(Users), NEW w, \A x \in Users : w[x] \in Int /\ w[x] = settled[e][x]
  PROVE  SeasonSettled(e) = Weight(w, Users)
<1> DEFINE Choice(T) == CHOOSE x \in T : TRUE
           S == Users
           Eq(g) == g = [T \in SUBSET S |->
                           IF T = {} THEN 0 ELSE settled[e][Choice(T)] + g[T \ {Choice(T)}]]
<1>1. SeasonSettled(e) = (CHOOSE g : Eq(g))[S]
  BY DEF SeasonSettled, SumOver, MapThenSumSet, MapThenFoldSet
<1>2. ASSUME NEW g
      PROVE  Eq(g) <=> IsSum(g, w, S)
  <2>1. \A T \in SUBSET S : T # {} => settled[e][Choice(T)] = w[Choice(T)]
    OBVIOUS
  <2> HIDE DEF Choice
  <2> QED
    BY <2>1 DEF IsSum, Choice
<1> HIDE DEF Eq
<1> QED
  BY <1>1, <1>2, ChosenWeight

LEMMA CollectedByFunctionIsWeight ==
  ASSUME NEW e, IsFiniteSet(FunctionsOf(e)), NEW w, \A x \in FunctionsOf(e) : w[x] \in Int /\ w[x] = FunctionsSummary(e)[x].collected
  PROVE  SumOver(FunctionsOf(e), LAMBDA f : FunctionsSummary(e)[f].collected) = Weight(w, FunctionsOf(e))
<1> DEFINE Choice(T) == CHOOSE x \in T : TRUE
           S == FunctionsOf(e)
           Eq(g) == g = [T \in SUBSET S |->
                           IF T = {} THEN 0 ELSE FunctionsSummary(e)[Choice(T)].collected + g[T \ {Choice(T)}]]
<1>1. SumOver(FunctionsOf(e), LAMBDA f : FunctionsSummary(e)[f].collected) = (CHOOSE g : Eq(g))[S]
  BY DEF SumOver, MapThenSumSet, MapThenFoldSet
<1>2. ASSUME NEW g
      PROVE  Eq(g) <=> IsSum(g, w, S)
  <2>1. \A T \in SUBSET S : T # {} => FunctionsSummary(e)[Choice(T)].collected = w[Choice(T)]
    OBVIOUS
  <2> HIDE DEF Choice
  <2> QED
    BY <2>1 DEF IsSum, Choice
<1> HIDE DEF Eq
<1> QED
  BY <1>1, <1>2, ChosenWeight

LEMMA HersByFunctionIsWeight ==
  ASSUME NEW e, NEW u, IsFiniteSet(FunctionsOf(e)), NEW w, \A x \in FunctionsOf(e) : w[x] \in Int /\ w[x] = MyCollectedInFunction(u, x)
  PROVE  SumOver(FunctionsOf(e), LAMBDA f : MyCollectedInFunction(u, f)) = Weight(w, FunctionsOf(e))
<1> DEFINE Choice(T) == CHOOSE x \in T : TRUE
           S == FunctionsOf(e)
           Eq(g) == g = [T \in SUBSET S |->
                           IF T = {} THEN 0 ELSE MyCollectedInFunction(u, Choice(T)) + g[T \ {Choice(T)}]]
<1>1. SumOver(FunctionsOf(e), LAMBDA f : MyCollectedInFunction(u, f)) = (CHOOSE g : Eq(g))[S]
  BY DEF SumOver, MapThenSumSet, MapThenFoldSet
<1>2. ASSUME NEW g
      PROVE  Eq(g) <=> IsSum(g, w, S)
  <2>1. \A T \in SUBSET S : T # {} => MyCollectedInFunction(u, Choice(T)) = w[Choice(T)]
    OBVIOUS
  <2> HIDE DEF Choice
  <2> QED
    BY <2>1 DEF IsSum, Choice
<1> HIDE DEF Eq
<1> QED
  BY <1>1, <1>2, ChosenWeight

HersInSeason(e, u) == SumOver(FunctionsOf(e), LAMBDA f : MyCollectedInFunction(u, f))

LEMMA AllHersIsWeight ==
  ASSUME NEW e, IsFiniteSet(Users), NEW w, \A x \in Users : w[x] \in Int /\ w[x] = HersInSeason(e, x)
  PROVE  SumOver(Users, LAMBDA u : HersInSeason(e, u)) = Weight(w, Users)
<1> DEFINE Choice(T) == CHOOSE x \in T : TRUE
           S == Users
           Eq(g) == g = [T \in SUBSET S |->
                           IF T = {} THEN 0 ELSE HersInSeason(e, Choice(T)) + g[T \ {Choice(T)}]]
<1>1. SumOver(Users, LAMBDA u : HersInSeason(e, u)) = (CHOOSE g : Eq(g))[S]
  BY DEF SumOver, MapThenSumSet, MapThenFoldSet
<1>2. ASSUME NEW g
      PROVE  Eq(g) <=> IsSum(g, w, S)
  <2>1. \A T \in SUBSET S : T # {} => HersInSeason(e, Choice(T)) = w[Choice(T)]
    OBVIOUS
  <2> HIDE DEF Choice
  <2> QED
    BY <2>1, ZenonT(40) DEF IsSum, Choice
<1> HIDE DEF Eq
<1> QED
  BY <1>1, <1>2, ChosenWeight

\* The money of some sales: what they are worth is paid or owed.
LEMMA MoneyOf ==
  ASSUME Books, NEW S, S \subseteq sold
  PROVE  /\ IsFiniteSet(S) /\ S \subseteq Sales
         /\ PaidOf(S) = Weight(PaidW, S) /\ PaidOf(S) \in Nat
         /\ DebtOf(S) = Weight(DebtW, S) /\ DebtOf(S) \in Int
         /\ AmountOf(S) = PaidOf(S) + DebtOf(S)
<1>1. IsFiniteSet(S) /\ \A s \in S : s \in Sales
  BY LiveFinite DEF Books, TypeOK
<1>2. \A s \in S : /\ PaidW[s] = Paid(s) /\ PaidW[s] \in Int
                   /\ DebtW[s] = Debt(s) /\ DebtW[s] \in Int
                   /\ AmountW[s] = Amount(s) /\ AmountW[s] \in Int
  BY <1>1, PaidType DEF PaidW, DebtW, AmountW
<1>3. \A s \in S : AmountW[s] = PaidW[s] + DebtW[s]
  BY <1>2 DEF Debt
<1>4. PaidOf(S) = Weight(PaidW, S) /\ PaidOf(S) \in Nat
  BY PaidOfFacts
<1>5. DebtOf(S) = Weight(DebtW, S)
  BY <1>1, <1>2, DebtOfIsWeight
<1>6. AmountOf(S) = Weight(AmountW, S)
  BY <1>1, <1>2, AmountOfIsWeight
<1>7. Weight(DebtW, S) \in Int
  BY <1>1, <1>2, WeightType
<1>8. Weight(AmountW, S) = Weight(PaidW, S) + Weight(DebtW, S)
  BY <1>1, <1>2, <1>3, WeightPlus
<1> QED
  BY <1>1, <1>4, <1>5, <1>6, <1>7, <1>8

\* Every sale has one seller, and one function of its season.
LEMMA BySeller ==
  ASSUME Books, NEW S, S \subseteq sold
  PROVE  /\ Splits([u \in Users |-> S \cap By(u)], Users, S) /\ IsFiniteSet(Users)
         /\ \A u \in Users : S \cap By(u) \subseteq sold
<1>1. \A s \in S : SellerOf[s] \in Users /\ s \in By(SellerOf[s])
  BY ConstantFacts DEF Books, TypeOK, By
<1>2. \A s, u : s \in By(u) => SellerOf[s] = u
  BY DEF By
<1> QED
  BY <1>1, <1>2, ConstantFacts DEF Splits

LEMMA ByFunction ==
  ASSUME Books, NEW e, NEW S, S \subseteq OfSeason(e)
  PROVE  /\ Splits([f \in FunctionsOf(e) |-> S \cap OfFunction(f)], FunctionsOf(e), S)
         /\ IsFiniteSet(FunctionsOf(e)) /\ S \subseteq sold
<1>1. S \subseteq sold
  BY DEF OfSeason
<1>2. \A s \in S : FunctionOf[s] \in FunctionsOf(e) /\ s \in OfFunction(FunctionOf[s])
  BY <1>1, ConstantFacts DEF Books, TypeOK, OfSeason, OfFunction, FunctionsOf
<1>3. \A s, f : s \in OfFunction(f) => FunctionOf[s] = f
  BY DEF OfFunction
<1>4. IsFiniteSet(FunctionsOf(e))
  BY ConstantFacts, FS_Subset DEF FunctionsOf
<1> QED
  BY <1>1, <1>2, <1>3, <1>4 DEF Splits

\* A number of each seller is added up from the rows of the report; without a row
\* it is zero.
LEMMA ReportWeight ==
  ASSUME Books, NEW e \in Seasons,
         NEW v, \A u \in Users : v[u] \in Int /\ (~HasRow(e, u) => v[u] = 0),
         NEW w, \A u \in Users : HasRow(e, u) => w[Row(e, u)] = v[u]
  PROVE  /\ IsFiniteSet(SettlementsReport(e))
         /\ Weight(w, SettlementsReport(e)) = Weight(v, Users)
<1> DEFINE J == SettlementsReport(e)
           H == {u \in Users : HasRow(e, u)}
           h == [u \in H |-> Row(e, u)]
<1>1. IsFiniteSet(H) /\ IsFiniteSet(Users) /\ H \subseteq Users
  BY ConstantFacts, FS_Subset
<1>2. J = {h[u] : u \in H}
  BY ReportIs
<1>3. \A u \in H : h[u] = Row(e, u) /\ h[u].seller = u
  BY DEF Row
<1>4. \A u \in H : v[u] \in Int /\ w[h[u]] = v[u]
  BY <1>3
<1>5. \A u \in Users \ H : v[u] = 0
  OBVIOUS
<1> HIDE DEF J, H, h
<1>6. Renames(h, H, J)
  BY <1>2, <1>3 DEF Renames
<1>7. IsFiniteSet(J) /\ Weight(w, J) = Weight(v, H)
  BY <1>1, <1>4, <1>6, WeightOfImage
<1>8. Weight(v, H) = Weight(v, Users)
  BY <1>1, <1>5, WeightOfPart
<1> QED
  BY <1>7, <1>8 DEF J

CollectedW(e) == [u \in Users |-> Collected(e, u)]
UncollectedW(e) == [u \in Users |-> DebtOf(ChargedIn(e) \cap By(u))]
SettledW(e) == [u \in Users |-> settled[e][u]]
OwesW(e) == [u \in Users |-> Owes(e, u)]

LEMMA MoneyBySeller ==
  ASSUME Books, NEW e \in Seasons
  PROVE  /\ \A u \in Users : /\ CollectedW(e)[u] \in Int /\ UncollectedW(e)[u] \in Int
                             /\ SettledW(e)[u] \in Int /\ OwesW(e)[u] \in Int
                             /\ CollectedW(e)[u] = OwesW(e)[u] + SettledW(e)[u]
                             /\ ~HasRow(e, u) => UncollectedW(e)[u] = 0 /\ SettledW(e)[u] = 0 /\ OwesW(e)[u] = 0
         /\ Weight(CollectedW(e), Users) = PaidOf(ChargedIn(e))
         /\ Weight(UncollectedW(e), Users) = DebtOf(ChargedIn(e))
         /\ Weight(SettledW(e), Users) = SeasonSettled(e)
         /\ Weight(OwesW(e), Users) = PaidOf(ChargedIn(e)) - SeasonSettled(e)
         /\ SeasonSettled(e) \in Int
<1> DEFINE C == ChargedIn(e)
           P == [u \in Users |-> C \cap By(u)]
<1>1. C \subseteq sold
  BY DEF ChargedIn, Charged
<1>2. \A u \in Users : P[u] = C \cap By(u) /\ P[u] \subseteq sold
  BY <1>1
<1>3. Splits(P, Users, C) /\ IsFiniteSet(Users)
  BY <1>1, BySeller
<1>4. \A u \in Users : /\ CollectedW(e)[u] = PaidOf(P[u]) /\ UncollectedW(e)[u] = DebtOf(P[u])
                       /\ SettledW(e)[u] = settled[e][u] /\ OwesW(e)[u] = Owes(e, u)
  BY DEF CollectedW, UncollectedW, SettledW, OwesW, Collected
<1>5. \A u \in Users : HasRow(e, u) \/ P[u] = {}
  BY DEF HasRow
<1> HIDE DEF C, P
<1>6. \A u \in Users : /\ CollectedW(e)[u] = Weight(PaidW, P[u]) /\ UncollectedW(e)[u] = Weight(DebtW, P[u])
                       /\ CollectedW(e)[u] \in Int /\ UncollectedW(e)[u] \in Int
  BY <1>2, <1>4, MoneyOf
<1>7. \A s \in C : PaidW[s] \in Int /\ DebtW[s] \in Int
  <2>1. \A s \in C : s \in Sales
    BY <1>1 DEF Books, TypeOK
  <2> QED
    BY <2>1, PaidType DEF PaidW, DebtW
<1>8. IsFiniteSet(C) /\ PaidOf(C) = Weight(PaidW, C) /\ DebtOf(C) = Weight(DebtW, C)
  BY <1>1, MoneyOf
<1>9. Weight(CollectedW(e), Users) = Weight(PaidW, C)
  BY <1>3, <1>6, <1>7, <1>8, WeightOfParts
<1>10. Weight(UncollectedW(e), Users) = Weight(DebtW, C)
  BY <1>3, <1>6, <1>7, <1>8, WeightOfParts
<1>11. \A u \in Users : /\ SettledW(e)[u] \in Int /\ OwesW(e)[u] \in Int
                        /\ CollectedW(e)[u] = OwesW(e)[u] + SettledW(e)[u]
                        /\ ~HasRow(e, u) => SettledW(e)[u] = 0 /\ OwesW(e)[u] = 0
  <2> SUFFICES ASSUME NEW u \in Users
               PROVE  /\ SettledW(e)[u] \in Int /\ OwesW(e)[u] \in Int
                      /\ CollectedW(e)[u] = OwesW(e)[u] + SettledW(e)[u]
                      /\ ~HasRow(e, u) => SettledW(e)[u] = 0 /\ OwesW(e)[u] = 0
    OBVIOUS
  <2>1. CollectedW(e)[u] = Collected(e, u)
    BY DEF CollectedW
  <2> QED
    BY <1>4, <2>1, OwesFacts DEF Owes
<1>12. \A u \in Users : ~HasRow(e, u) => UncollectedW(e)[u] = 0
  BY <1>5, <1>6, WeightEmpty
<1>13. Weight(SettledW(e), Users) = SeasonSettled(e)
  <2>1. \A u \in Users : SettledW(e)[u] \in Int /\ SettledW(e)[u] = settled[e][u]
    BY <1>4, <1>11
  <2> QED
    BY <1>3, <2>1, SeasonSettledIsWeight
<1>14. Weight(CollectedW(e), Users) = Weight(OwesW(e), Users) + Weight(SettledW(e), Users)
  BY <1>3, <1>6, <1>11, WeightPlus
<1>15. Weight(SettledW(e), Users) \in Int /\ Weight(OwesW(e), Users) \in Int
  BY <1>3, <1>11, WeightType
<1>16. PaidOf(C) = Weight(CollectedW(e), Users) /\ DebtOf(C) = Weight(UncollectedW(e), Users)
  BY <1>8, <1>9, <1>10
<1> QED
  BY <1>6, <1>11, <1>12, <1>13, <1>14, <1>15, <1>16 DEF C

\* The report adds up to what is not settled, what is and what nobody paid.
LEMMA ReportAddsUp ==
  ASSUME Books, NEW e \in Seasons
  PROVE  /\ SumOver(SettlementsReport(e), SettlementBalance) = PaidOf(ChargedIn(e)) - SeasonSettled(e)
         /\ SumOver(SettlementsReport(e), LAMBDA r : r.settled) = SeasonSettled(e)
         /\ SumOver(SettlementsReport(e), LAMBDA r : r.pending) = DebtOf(ChargedIn(e))
<1> DEFINE J == SettlementsReport(e)
           b == [r \in J |-> SettlementBalance(r)]
           s == [r \in J |-> r.settled]
           d == [r \in J |-> r.pending]
<1>1. \A u \in Users : HasRow(e, u) => Row(e, u) \in J
  BY ReportIs
<1>2. \A u : /\ SettlementBalance(Row(e, u)) = Owes(e, u)
             /\ Row(e, u).settled = settled[e][u]
             /\ Row(e, u).pending = DebtOf(ChargedIn(e) \cap By(u))
  BY DEF SettlementBalance, Row, Owes
<1>3. \A u \in Users : HasRow(e, u) => /\ b[Row(e, u)] = OwesW(e)[u]
                                       /\ s[Row(e, u)] = SettledW(e)[u]
                                       /\ d[Row(e, u)] = UncollectedW(e)[u]
  BY <1>1, <1>2 DEF OwesW, SettledW, UncollectedW
<1>4. \A r \in J : b[r] = SettlementBalance(r) /\ s[r] = r.settled /\ d[r] = r.pending
  OBVIOUS
<1>5. \A r \in J : \E u \in Users : HasRow(e, u) /\ r = Row(e, u)
  BY ReportIs
<1>6. IsFiniteSet(J) /\ Weight(b, J) = Weight(OwesW(e), Users)
  <2>1. \A u \in Users : OwesW(e)[u] \in Int /\ (~HasRow(e, u) => OwesW(e)[u] = 0)
    BY MoneyBySeller
  <2> HIDE DEF b
  <2> QED
    BY <1>3, <2>1, ReportWeight
<1>7. Weight(s, J) = Weight(SettledW(e), Users)
  <2>1. \A u \in Users : SettledW(e)[u] \in Int /\ (~HasRow(e, u) => SettledW(e)[u] = 0)
    BY MoneyBySeller
  <2> HIDE DEF s
  <2> QED
    BY <1>3, <2>1, ReportWeight
<1>8. Weight(d, J) = Weight(UncollectedW(e), Users)
  <2>1. \A u \in Users : UncollectedW(e)[u] \in Int /\ (~HasRow(e, u) => UncollectedW(e)[u] = 0)
    BY MoneyBySeller
  <2> HIDE DEF d
  <2> QED
    BY <1>3, <2>1, ReportWeight
<1> HIDE DEF J, b, s, d
<1>9. \A r \in J : b[r] \in Int /\ s[r] \in Int /\ d[r] \in Int
  BY <1>3, <1>5, MoneyBySeller
<1>10. SumOver(J, SettlementBalance) = Weight(b, J)
  BY <1>4, <1>6, <1>9, BalanceSumIsWeight
<1>11. SumOver(J, LAMBDA r : r.settled) = Weight(s, J)
  BY <1>4, <1>6, <1>9, SettledSumIsWeight
<1>12. SumOver(J, LAMBDA r : r.pending) = Weight(d, J)
  BY <1>4, <1>6, <1>9, PendingSumIsWeight
<1> QED
  BY <1>6, <1>7, <1>8, <1>10, <1>11, <1>12, MoneyBySeller DEF J

\* What was charged in the season, function by function.
LEMMA ChargedByFunction ==
  ASSUME Books, NEW e \in Seasons, NEW S, S \subseteq ChargedIn(e),
         NEW v, \A f \in FunctionsOf(e) : v[f] = PaidOf(S \cap OfFunction(f))
  PROVE  /\ IsFiniteSet(FunctionsOf(e)) /\ \A f \in FunctionsOf(e) : v[f] \in Int
         /\ Weight(v, FunctionsOf(e)) = PaidOf(S)
<1> DEFINE F == FunctionsOf(e)
           P == [f \in F |-> S \cap OfFunction(f)]
<1>1. S \subseteq OfSeason(e)
  BY DEF ChargedIn
<1>2. Splits(P, F, S) /\ IsFiniteSet(F) /\ S \subseteq sold
  BY <1>1, ByFunction
<1>3. \A f \in F : P[f] = S \cap OfFunction(f) /\ P[f] \subseteq sold
  BY <1>2
<1> HIDE DEF F, P
<1>4. \A f \in F : v[f] = Weight(PaidW, P[f]) /\ v[f] \in Int
  <2> SUFFICES ASSUME NEW f \in F
               PROVE  v[f] = Weight(PaidW, P[f]) /\ v[f] \in Int
    OBVIOUS
  <2>1. v[f] = PaidOf(P[f])
    BY <1>3 DEF F
  <2> QED
    BY <1>3, <2>1, MoneyOf
<1>5. \A x \in S : PaidW[x] \in Int
  <2>1. \A x \in S : x \in Sales
    BY <1>2 DEF Books, TypeOK
  <2> QED
    BY <2>1, PaidType DEF PaidW
<1>6. IsFiniteSet(S) /\ PaidOf(S) = Weight(PaidW, S)
  BY <1>2, MoneyOf
<1>7. Weight(v, F) = Weight(PaidW, S)
  BY <1>2, <1>4, <1>5, <1>6, WeightOfParts
<1> QED
  BY <1>2, <1>4, <1>6, <1>7 DEF F

LEMMA FunctionsCollect ==
  ASSUME Books, NEW e \in Seasons
  PROVE  SumOver(FunctionsOf(e), LAMBDA f : FunctionsSummary(e)[f].collected) = PaidOf(ChargedIn(e))
<1> DEFINE C == ChargedIn(e)
           v == [f \in FunctionsOf(e) |-> PaidOf(C \cap OfFunction(f))]
<1>1. \A f \in FunctionsOf(e) : v[f] = PaidOf(C \cap OfFunction(f))
  OBVIOUS
<1>2. \A f \in FunctionsOf(e) : OfFunction(f) \cap Charged = C \cap OfFunction(f)
  BY DEF FunctionsOf, OfFunction, ChargedIn, OfSeason, Charged
<1>3. \A f \in FunctionsOf(e) : FunctionsSummary(e)[f].collected = PaidOf(OfFunction(f) \cap Charged)
  BY DEF FunctionsSummary
<1> HIDE DEF v
<1>4. IsFiniteSet(FunctionsOf(e)) /\ (\A f \in FunctionsOf(e) : v[f] \in Int) /\ Weight(v, FunctionsOf(e)) = PaidOf(C)
  BY <1>1, ChargedByFunction
<1>5. \A f \in FunctionsOf(e) : v[f] = FunctionsSummary(e)[f].collected
  BY <1>1, <1>2, <1>3
<1> QED
  BY <1>4, <1>5, CollectedByFunctionIsWeight

LEMMA SellersCollect ==
  ASSUME Books, NEW e \in Seasons
  PROVE  SumOver(Users, LAMBDA u : HersInSeason(e, u))
           = PaidOf(ChargedIn(e))
<1>1. ASSUME NEW u \in Users
      PROVE  SumOver(FunctionsOf(e), LAMBDA f : MyCollectedInFunction(u, f)) = CollectedW(e)[u]
  <2> DEFINE S == ChargedIn(e) \cap By(u)
             v == [f \in FunctionsOf(e) |-> PaidOf(S \cap OfFunction(f))]
  <2>1. \A f \in FunctionsOf(e) : v[f] = PaidOf(S \cap OfFunction(f))
    OBVIOUS
  <2>2. \A f \in FunctionsOf(e) : OfFunction(f) \cap By(u) \cap Charged = S \cap OfFunction(f)
    BY DEF FunctionsOf, OfFunction, ChargedIn, OfSeason, Charged
  <2>3. S \subseteq ChargedIn(e)
    OBVIOUS
  <2>4. CollectedW(e)[u] = PaidOf(S)
    BY DEF CollectedW, Collected
  <2> HIDE DEF v, S
  <2>5. IsFiniteSet(FunctionsOf(e)) /\ (\A f \in FunctionsOf(e) : v[f] \in Int) /\ Weight(v, FunctionsOf(e)) = PaidOf(S)
    BY <2>1, <2>3, ChargedByFunction
  <2>6. \A f \in FunctionsOf(e) : v[f] = MyCollectedInFunction(u, f)
    BY <2>1, <2>2 DEF MyCollectedInFunction
  <2>7. SumOver(FunctionsOf(e), LAMBDA f : MyCollectedInFunction(u, f)) = Weight(v, FunctionsOf(e))
    BY <2>5, <2>6, HersByFunctionIsWeight
  <2> QED
    BY <2>4, <2>5, <2>7
<1>2. \A u \in Users : /\ CollectedW(e)[u] \in Int
                       /\ CollectedW(e)[u] = HersInSeason(e, u)
  BY <1>1, MoneyBySeller DEF HersInSeason
<1>3. SumOver(Users, LAMBDA u : HersInSeason(e, u))
        = Weight(CollectedW(e), Users)
  BY <1>2, ConstantFacts, AllHersIsWeight
<1> QED
  BY <1>3, MoneyBySeller

\* The filter of a whole season.
Whole(e) == [season |-> e, seller |-> NoFilter, function |-> NoFilter, q |-> Sales]

LEMMA WholeScope ==
  ASSUME Books, NEW e \in Seasons
  PROVE  Scope(Whole(e)) = OfSeason(e)
<1>1. e # NoFilter
  BY ListadoAssumption
<1>2. sold \subseteq Sales
  BY DEF Books, TypeOK
<1> QED
  BY <1>1, <1>2 DEF Scope, Whole, OfSeason

\* Every peso sold in a season is in hand, with a seller or owed by a buyer, and the
\* functions, the sellers, the list and the index of seasons add up to the same.
THEOREM MoneyAddsUpCorrect == Spec => []MoneyAddsUp
<1>1. Books => MoneyAddsUp
  <2> SUFFICES ASSUME Books, NEW e \in Seasons
               PROVE  /\ Direccion(e).sold = Direccion(e).inHand + Direccion(e).unsettled + Direccion(e).uncollected
                      /\ Direccion(e).unsettled = SumOver(SettlementsReport(e), SettlementBalance)
                      /\ Direccion(e).inHand = SumOver(SettlementsReport(e), LAMBDA r : r.settled)
                      /\ Direccion(e).uncollected = SumOver(SettlementsReport(e), LAMBDA r : r.pending)
                      /\ SeasonMoney(e).collected = SumOver(FunctionsOf(e), LAMBDA f : FunctionsSummary(e)[f].collected)
                      /\ SeasonMoney(e).collected = SumOver(Users, LAMBDA u :
                           SumOver(FunctionsOf(e), LAMBDA f : MyCollectedInFunction(u, f)))
                      /\ SeasonMoney(e).collected = SeasonsOverview(e).collected
                      /\ SalesSummary(Whole(e)).money.paid = SeasonMoney(e).collected
                      /\ SalesSummary(Whole(e)).money.pending = SeasonMoney(e).uncollected
    BY DEF MoneyAddsUp, Whole
  <2> DEFINE C == ChargedIn(e)
             paid == PaidOf(C)
             debt == DebtOf(C)
             gone == SeasonSettled(e)
  <2>1. /\ Direccion(e).sold = AmountOf(C) /\ Direccion(e).inHand = gone
        /\ Direccion(e).unsettled = paid - gone /\ Direccion(e).uncollected = debt
    BY DEF Direccion, SeasonMoney
  <2>2. SeasonMoney(e).collected = paid /\ SeasonMoney(e).uncollected = debt /\ SeasonsOverview(e).collected = paid
    BY DEF SeasonMoney, SeasonsOverview
  <2>3. paid \in Int /\ debt \in Int /\ gone \in Int /\ AmountOf(C) = paid + debt
    <3>1. C \subseteq sold
      BY DEF ChargedIn, Charged
    <3> QED
      BY <3>1, MoneyOf, MoneyBySeller
  <2>4. SalesSummary(Whole(e)).money.paid = paid /\ SalesSummary(Whole(e)).money.pending = debt
    BY WholeScope DEF SalesSummary, Money, ChargedIn
  <2>5. /\ paid - gone = SumOver(SettlementsReport(e), SettlementBalance)
        /\ gone = SumOver(SettlementsReport(e), LAMBDA r : r.settled)
        /\ debt = SumOver(SettlementsReport(e), LAMBDA r : r.pending)
    BY ReportAddsUp
  <2>6. /\ paid = SumOver(FunctionsOf(e), LAMBDA f : FunctionsSummary(e)[f].collected)
        /\ paid = SumOver(Users, LAMBDA u : SumOver(FunctionsOf(e), LAMBDA f : MyCollectedInFunction(u, f)))
    BY FunctionsCollect, SellersCollect DEF HersInSeason
  <2> HIDE DEF C, paid, debt, gone
  <2>7. Direccion(e).sold = Direccion(e).inHand + Direccion(e).unsettled + Direccion(e).uncollected
    BY <2>1, <2>3
  <2> QED
    BY <2>1, <2>2, <2>4, <2>5, <2>6, <2>7
<1> QED
  BY <1>1, BooksCorrect, PTL

---------------------------------------------------------------------------
(* The seats of a function, on every screen.                               *)
LEMMA IssuedIsWeight ==
  ASSUME NEW f, IsFiniteSet(DOMAIN AttendanceBySale(f)), NEW w, \A x \in DOMAIN AttendanceBySale(f) : w[x] \in Int /\ w[x] = Count(AttendanceBySale(f)[x].tickets)
  PROVE  Attendance(f).issued = Weight(w, DOMAIN AttendanceBySale(f))
<1> DEFINE Choice(T) == CHOOSE x \in T : TRUE
           S == DOMAIN AttendanceBySale(f)
           Eq(g) == g = [T \in SUBSET S |->
                           IF T = {} THEN 0 ELSE Count(AttendanceBySale(f)[Choice(T)].tickets) + g[T \ {Choice(T)}]]
<1>1. Attendance(f).issued = (CHOOSE g : Eq(g))[S]
  BY DEF Attendance, SumOver, MapThenSumSet, MapThenFoldSet
<1>2. ASSUME NEW g
      PROVE  Eq(g) <=> IsSum(g, w, S)
  <2>1. \A T \in SUBSET S : T # {} => Count(AttendanceBySale(f)[Choice(T)].tickets) = w[Choice(T)]
    OBVIOUS
  <2> HIDE DEF Choice
  <2> QED
    BY <2>1 DEF IsSum, Choice
<1> HIDE DEF Eq
<1> QED
  BY <1>1, <1>2, ChosenWeight

LEMMA EnteredIsWeight ==
  ASSUME NEW f, IsFiniteSet(DOMAIN AttendanceBySale(f)), NEW w, \A x \in DOMAIN AttendanceBySale(f) : w[x] \in Int /\ w[x] = Count(AttendanceBySale(f)[x].entered)
  PROVE  Attendance(f).entered = Weight(w, DOMAIN AttendanceBySale(f))
<1> DEFINE Choice(T) == CHOOSE x \in T : TRUE
           S == DOMAIN AttendanceBySale(f)
           Eq(g) == g = [T \in SUBSET S |->
                           IF T = {} THEN 0 ELSE Count(AttendanceBySale(f)[Choice(T)].entered) + g[T \ {Choice(T)}]]
<1>1. Attendance(f).entered = (CHOOSE g : Eq(g))[S]
  BY DEF Attendance, SumOver, MapThenSumSet, MapThenFoldSet
<1>2. ASSUME NEW g
      PROVE  Eq(g) <=> IsSum(g, w, S)
  <2>1. \A T \in SUBSET S : T # {} => Count(AttendanceBySale(f)[Choice(T)].entered) = w[Choice(T)]
    OBVIOUS
  <2> HIDE DEF Choice
  <2> QED
    BY <2>1 DEF IsSum, Choice
<1> HIDE DEF Eq
<1> QED
  BY <1>1, <1>2, ChosenWeight

LEMMA QuotaOfIsWeight ==
  ASSUME NEW f, NEW S, IsFiniteSet(S), NEW w, \A x \in S : w[x] \in Int /\ w[x] = quota[f][x]
  PROVE  QuotaOf(f, S) = Weight(w, S)
<1> DEFINE Choice(T) == CHOOSE x \in T : TRUE
           Eq(g) == g = [T \in SUBSET S |->
                           IF T = {} THEN 0 ELSE quota[f][Choice(T)] + g[T \ {Choice(T)}]]
<1>1. QuotaOf(f, S) = (CHOOSE g : Eq(g))[S]
  BY DEF QuotaOf, SumOver, MapThenSumSet, MapThenFoldSet
<1>2. ASSUME NEW g
      PROVE  Eq(g) <=> IsSum(g, w, S)
  <2>1. \A T \in SUBSET S : T # {} => quota[f][Choice(T)] = w[Choice(T)]
    OBVIOUS
  <2> HIDE DEF Choice
  <2> QED
    BY <2>1 DEF IsSum, Choice
<1> HIDE DEF Eq
<1> QED
  BY <1>1, <1>2, ChosenWeight

LEMMA BoardIsWeight ==
  ASSUME NEW f, IsFiniteSet(DOMAIN FunctionAllocationBoard(f)), NEW w, \A x \in DOMAIN FunctionAllocationBoard(f) : w[x] \in Int /\ w[x] = FunctionAllocationBoard(f)[x].assigned
  PROVE  SumOver(DOMAIN FunctionAllocationBoard(f), LAMBDA u : FunctionAllocationBoard(f)[u].assigned) = Weight(w, DOMAIN FunctionAllocationBoard(f))
<1> DEFINE Choice(T) == CHOOSE x \in T : TRUE
           S == DOMAIN FunctionAllocationBoard(f)
           Eq(g) == g = [T \in SUBSET S |->
                           IF T = {} THEN 0 ELSE FunctionAllocationBoard(f)[Choice(T)].assigned + g[T \ {Choice(T)}]]
<1>1. SumOver(DOMAIN FunctionAllocationBoard(f), LAMBDA u : FunctionAllocationBoard(f)[u].assigned) = (CHOOSE g : Eq(g))[S]
  BY DEF SumOver, MapThenSumSet, MapThenFoldSet
<1>2. ASSUME NEW g
      PROVE  Eq(g) <=> IsSum(g, w, S)
  <2>1. \A T \in SUBSET S : T # {} => FunctionAllocationBoard(f)[Choice(T)].assigned = w[Choice(T)]
    OBVIOUS
  <2> HIDE DEF Choice
  <2> QED
    BY <2>1 DEF IsSum, Choice
<1> HIDE DEF Eq
<1> QED
  BY <1>1, <1>2, ChosenWeight

LEMMA BoardSoldIsWeight ==
  ASSUME NEW f, IsFiniteSet(DOMAIN FunctionAllocationBoard(f)), NEW w, \A x \in DOMAIN FunctionAllocationBoard(f) : w[x] \in Int /\ w[x] = FunctionAllocationBoard(f)[x].sold
  PROVE  SumOver(DOMAIN FunctionAllocationBoard(f), LAMBDA u : FunctionAllocationBoard(f)[u].sold) = Weight(w, DOMAIN FunctionAllocationBoard(f))
<1> DEFINE Choice(T) == CHOOSE x \in T : TRUE
           S == DOMAIN FunctionAllocationBoard(f)
           Eq(g) == g = [T \in SUBSET S |->
                           IF T = {} THEN 0 ELSE FunctionAllocationBoard(f)[Choice(T)].sold + g[T \ {Choice(T)}]]
<1>1. SumOver(DOMAIN FunctionAllocationBoard(f), LAMBDA u : FunctionAllocationBoard(f)[u].sold) = (CHOOSE g : Eq(g))[S]
  BY DEF SumOver, MapThenSumSet, MapThenFoldSet
<1>2. ASSUME NEW g
      PROVE  Eq(g) <=> IsSum(g, w, S)
  <2>1. \A T \in SUBSET S : T # {} => FunctionAllocationBoard(f)[Choice(T)].sold = w[Choice(T)]
    OBVIOUS
  <2> HIDE DEF Choice
  <2> QED
    BY <2>1 DEF IsSum, Choice
<1> HIDE DEF Eq
<1> QED
  BY <1>1, <1>2, ChosenWeight

LEMMA SoldByFunctionIsWeight ==
  ASSUME NEW e, IsFiniteSet(FunctionsOf(e)), NEW w, \A x \in FunctionsOf(e) : w[x] \in Int /\ w[x] = FunctionsSummary(e)[x].sold
  PROVE  SumOver(FunctionsOf(e), LAMBDA f : FunctionsSummary(e)[f].sold) = Weight(w, FunctionsOf(e))
<1> DEFINE Choice(T) == CHOOSE x \in T : TRUE
           S == FunctionsOf(e)
           Eq(g) == g = [T \in SUBSET S |->
                           IF T = {} THEN 0 ELSE FunctionsSummary(e)[Choice(T)].sold + g[T \ {Choice(T)}]]
<1>1. SumOver(FunctionsOf(e), LAMBDA f : FunctionsSummary(e)[f].sold) = (CHOOSE g : Eq(g))[S]
  BY DEF SumOver, MapThenSumSet, MapThenFoldSet
<1>2. ASSUME NEW g
      PROVE  Eq(g) <=> IsSum(g, w, S)
  <2>1. \A T \in SUBSET S : T # {} => FunctionsSummary(e)[Choice(T)].sold = w[Choice(T)]
    OBVIOUS
  <2> HIDE DEF Choice
  <2> QED
    BY <2>1 DEF IsSum, Choice
<1> HIDE DEF Eq
<1> QED
  BY <1>1, <1>2, ChosenWeight

LEMMA CompsByFunctionIsWeight ==
  ASSUME NEW e, IsFiniteSet(FunctionsOf(e)), NEW w, \A x \in FunctionsOf(e) : w[x] \in Int /\ w[x] = FunctionsSummary(e)[x].comps
  PROVE  SumOver(FunctionsOf(e), LAMBDA f : FunctionsSummary(e)[f].comps) = Weight(w, FunctionsOf(e))
<1> DEFINE Choice(T) == CHOOSE x \in T : TRUE
           S == FunctionsOf(e)
           Eq(g) == g = [T \in SUBSET S |->
                           IF T = {} THEN 0 ELSE FunctionsSummary(e)[Choice(T)].comps + g[T \ {Choice(T)}]]
<1>1. SumOver(FunctionsOf(e), LAMBDA f : FunctionsSummary(e)[f].comps) = (CHOOSE g : Eq(g))[S]
  BY DEF SumOver, MapThenSumSet, MapThenFoldSet
<1>2. ASSUME NEW g
      PROVE  Eq(g) <=> IsSum(g, w, S)
  <2>1. \A T \in SUBSET S : T # {} => FunctionsSummary(e)[Choice(T)].comps = w[Choice(T)]
    OBVIOUS
  <2> HIDE DEF Choice
  <2> QED
    BY <2>1 DEF IsSum, Choice
<1> HIDE DEF Eq
<1> QED
  BY <1>1, <1>2, ChosenWeight

LEMMA TeamSoldIsWeight ==
  ASSUME NEW e, IsFiniteSet(DOMAIN TeamForSeason(e)), NEW w, \A x \in DOMAIN TeamForSeason(e) : w[x] \in Int /\ w[x] = TeamForSeason(e)[x].sold
  PROVE  Team(e).sold = Weight(w, DOMAIN TeamForSeason(e))
<1> DEFINE Choice(T) == CHOOSE x \in T : TRUE
           S == DOMAIN TeamForSeason(e)
           Eq(g) == g = [T \in SUBSET S |->
                           IF T = {} THEN 0 ELSE TeamForSeason(e)[Choice(T)].sold + g[T \ {Choice(T)}]]
<1>1. Team(e).sold = (CHOOSE g : Eq(g))[S]
  BY DEF Team, SumOver, MapThenSumSet, MapThenFoldSet
<1>2. ASSUME NEW g
      PROVE  Eq(g) <=> IsSum(g, w, S)
  <2>1. \A T \in SUBSET S : T # {} => TeamForSeason(e)[Choice(T)].sold = w[Choice(T)]
    OBVIOUS
  <2> HIDE DEF Choice
  <2> QED
    BY <2>1 DEF IsSum, Choice
<1> HIDE DEF Eq
<1> QED
  BY <1>1, <1>2, ChosenWeight

LEMMA QuantityOfIsWeight ==
  ASSUME NEW S, IsFiniteSet(S), NEW w, \A x \in S : w[x] \in Int /\ w[x] = Quantity(x)
  PROVE  QuantityOf(S) = Weight(w, S)
<1> DEFINE Choice(T) == CHOOSE x \in T : TRUE
           Eq(g) == g = [T \in SUBSET S |->
                           IF T = {} THEN 0 ELSE Quantity(Choice(T)) + g[T \ {Choice(T)}]]
<1>1. QuantityOf(S) = (CHOOSE g : Eq(g))[S]
  BY DEF QuantityOf, SumOver, MapThenSumSet, MapThenFoldSet
<1>2. ASSUME NEW g
      PROVE  Eq(g) <=> IsSum(g, w, S)
  <2>1. \A T \in SUBSET S : T # {} => Quantity(Choice(T)) = w[Choice(T)]
    OBVIOUS
  <2> HIDE DEF Choice
  <2> QED
    BY <2>1, ZenonT(40) DEF IsSum, Choice
<1> HIDE DEF Eq
<1> QED
  BY <1>1, <1>2, ChosenWeight

\* The days of the rhythm, counted from "days - 1" ago.
DayOf(e, days, i) == LET since == now - (days - 1) IN
                     IF since + i < 0 THEN 0 ELSE SalesTimeline(e, 0)[since + i]

LEMMA TimelineIsWeight ==
  ASSUME NEW e, NEW days, IsFiniteSet(0..(days - 1)), NEW w, \A x \in 0..(days - 1) : w[x] \in Int /\ w[x] = DayOf(e, days, x)
  PROVE  Timeline(e, days).total = Weight(w, 0..(days - 1))
<1> DEFINE Choice(T) == CHOOSE x \in T : TRUE
           S == 0..(days - 1)
           Eq(g) == g = [T \in SUBSET S |->
                           IF T = {} THEN 0 ELSE DayOf(e, days, Choice(T)) + g[T \ {Choice(T)}]]
<1>1. Timeline(e, days).total = (CHOOSE g : Eq(g))[S]
  BY DEF Timeline, DayOf, SumOver, MapThenSumSet, MapThenFoldSet
<1>2. ASSUME NEW g
      PROVE  Eq(g) <=> IsSum(g, w, S)
  <2>1. \A T \in SUBSET S : T # {} => DayOf(e, days, Choice(T)) = w[Choice(T)]
    OBVIOUS
  <2> HIDE DEF Choice
  <2> QED
    BY <2>1, ZenonT(40) DEF IsSum, Choice
<1> HIDE DEF Eq
<1> QED
  BY <1>1, <1>2, ChosenWeight

CountsLive(v, Q, K) == \A a \in K : v[a] = Count(LiveTickets(Q[a]))

\* Live tickets are counted by counting those of the parts of the sales.
LEMMA LiveByParts ==
  ASSUME Books, NEW S, S \subseteq sold, NEW K, IsFiniteSet(K), NEW Q, Splits(Q, K, S),
         NEW v, CountsLive(v, Q, K)
  PROVE  /\ \A a \in K : v[a] \in Int
         /\ Weight(v, K) = Count(LiveTickets(S))
<1> DEFINE L == LiveTickets(S)
           P == [a \in K |-> LiveTickets(Q[a])]
<1>1. \A a \in K : P[a] = LiveTickets(Q[a])
  OBVIOUS
<1>2. IsFiniteSet(L)
  BY LiveFinite
<1>3. \A a \in K : Q[a] \subseteq S
  BY DEF Splits
<1>4. \A a \in K : Count(LiveTickets(Q[a])) \in Nat
  <2> SUFFICES ASSUME NEW a \in K
               PROVE  Count(LiveTickets(Q[a])) \in Nat
    OBVIOUS
  <2> DEFINE T == Q[a]
  <2>1. T \subseteq sold
    BY <1>3
  <2> HIDE DEF T
  <2>2. Cardinality(LiveTickets(T)) \in Nat
    BY <2>1, LiveFinite
  <2> QED
    BY <2>2 DEF Count, T
<1>5. Splits(P, K, L)
  <2>1. \A a \in K : P[a] \subseteq L
    BY <1>1, <1>3 DEF LiveTickets
  <2>2. \A t \in L : \E a \in K : t \in P[a]
    <3>1. \A t \in L : SaleOf[t] \in S
      BY DEF LiveTickets
    <3>2. \A x \in S : \E a \in K : x \in Q[a]
      BY DEF Splits
    <3> QED
      BY <1>1, <3>1, <3>2 DEF LiveTickets
  <2>3. \A a, b \in K : a # b => P[a] \cap P[b] = {}
    <3>1. \A a, b \in K : a # b => Q[a] \cap Q[b] = {}
      BY DEF Splits
    <3> QED
      BY <1>1, <3>1 DEF LiveTickets
  <2> HIDE DEF P, L
  <2> QED
    BY <2>1, <2>2, <2>3 DEF Splits
<1> HIDE DEF P, L
<1>6. \A a \in K : v[a] = Cardinality(P[a])
  BY <1>1 DEF Count, CountsLive
<1>7. Weight(v, K) = Cardinality(L)
  BY <1>2, <1>5, <1>6, CountOfParts
<1> QED
  BY <1>4, <1>7 DEF Count, CountsLive, L

\* Two parts.
LEMMA CountTwo ==
  ASSUME NEW S, IsFiniteSet(S), NEW A, A \subseteq S, NEW B, B = S \ A
  PROVE  /\ Count(S) = Count(A) + Count(B) /\ IsFiniteSet(A) /\ IsFiniteSet(B)
         /\ Count(A) \in Nat /\ Count(B) \in Nat /\ Count(S) \in Nat
<1>1. IsFiniteSet(A) /\ IsFiniteSet(B)
  BY FS_Subset
<1>2. Cardinality(A) \in Nat /\ Cardinality(B) \in Nat /\ Cardinality(S) \in Nat
  BY <1>1, FS_CardinalityType
<1>3. S \cap A = A
  OBVIOUS
<1>4. Cardinality(S \ A) = Cardinality(S) - Cardinality(S \cap A)
  BY FS_Difference
<1>5. Cardinality(B) = Cardinality(S) - Cardinality(A)
  BY Zenon, <1>3, <1>4
<1> QED
  BY <1>1, <1>2, <1>5 DEF Count

\* Sales, and their live tickets, with and without the complimentary ones.
LEMMA LiveInTwo ==
  ASSUME Books, NEW S, S \subseteq sold, NEW A, A \subseteq S, NEW B, B = S \ A
  PROVE  /\ Count(LiveTickets(S)) = Count(LiveTickets(A)) + Count(LiveTickets(B))
         /\ Count(LiveTickets(A)) \in Nat /\ Count(LiveTickets(B)) \in Nat
<1>1. IsFiniteSet(LiveTickets(S))
  BY LiveFinite
<1>2. LiveTickets(A) \subseteq LiveTickets(S) /\ LiveTickets(B) = LiveTickets(S) \ LiveTickets(A)
  BY DEF LiveTickets
<1> QED
  BY <1>1, <1>2, CountTwo

LEMMA NoneLeftInVoided ==
  ASSUME Books, NEW S
  PROVE  LiveTickets(S \ voided) = LiveTickets(S)
  BY DEF Books, VoidedIsEmpty, LiveTickets, Alive

\* The rows of attendance have every live ticket of the function.
LEMMA AttendanceIs ==
  ASSUME Books, NEW f \in Functions
  PROVE  /\ Attendance(f).issued = Count(LiveTickets(OfFunction(f)))
         /\ Attendance(f).entered = Count(LiveTickets(OfFunction(f)) \cap checkins)
<1> DEFINE D == DOMAIN AttendanceBySale(f)
           Q == [s \in D |-> {s}]
           v == [s \in D |-> Count(LiveTickets({s}))]
           L == LiveTickets(OfFunction(f))
           E == L \cap checkins
           P == [s \in D |-> LiveTickets({s}) \cap checkins]
           w == [s \in D |-> Count(P[s])]
<1>1. D = {x \in OfFunction(f) \ voided : LiveTickets({x}) # {}}
  BY DEF AttendanceBySale
<1>2. D \subseteq sold /\ IsFiniteSet(D)
  <2>1. D \subseteq sold
    BY <1>1 DEF OfFunction
  <2> HIDE DEF D
  <2> QED
    BY <2>1, LiveFinite
<1>3. \A s \in D : /\ AttendanceBySale(f)[s].tickets = LiveTickets({s})
                   /\ AttendanceBySale(f)[s].entered = LiveTickets({s}) \cap checkins
  BY DEF AttendanceBySale
<1>4. \A s \in D : Q[s] = {s} /\ v[s] = Count(LiveTickets({s})) /\ P[s] = LiveTickets({s}) \cap checkins
  OBVIOUS
<1>5. \A s \in D : w[s] = Count(P[s])
  OBVIOUS
<1>6. LiveTickets(D) = L
  <2>1. \A t \in L : SaleOf[t] \in D
    <3>1. \A t \in L : t \in LiveTickets({SaleOf[t]})
      BY DEF LiveTickets
    <3>2. \A t \in L : SaleOf[t] \in OfFunction(f) /\ SaleOf[t] \notin voided
      BY DEF LiveTickets, Alive, Books, VoidedIsEmpty
    <3> QED
      BY <1>1, <3>1, <3>2
  <2>2. D \subseteq OfFunction(f)
    BY <1>1
  <2> QED
    BY <2>1, <2>2 DEF LiveTickets
<1> HIDE DEF D, Q, v, P, w
<1>7. Splits(Q, D, D)
  <2>1. \A s \in D : Q[s] = {s}
    BY <1>4
  <2>2. \A s \in D : Q[s] \subseteq D
    BY <2>1
  <2>3. \A s \in D : \E a \in D : s \in Q[a]
    BY <2>1
  <2>4. \A a, b \in D : a # b => Q[a] \cap Q[b] = {}
    BY <2>1
  <2> QED
    BY <2>2, <2>3, <2>4, Zenon DEF Splits
<1>8. (\A s \in D : v[s] \in Int) /\ Weight(v, D) = Count(LiveTickets(D))
  <2>1. CountsLive(v, Q, D)
    BY <1>4 DEF CountsLive
  <2> QED
    BY <1>2, <1>7, <2>1, LiveByParts
<1>9. Attendance(f).issued = Weight(v, D)
  <2>1. \A s \in D : v[s] \in Int /\ v[s] = Count(AttendanceBySale(f)[s].tickets)
    BY <1>3, <1>4, <1>8
  <2> QED
    BY <1>2, <2>1, IssuedIsWeight DEF D
<1>10. Splits(P, D, E) /\ IsFiniteSet(E)
  <2>1. IsFiniteSet(L)
    BY LiveFinite DEF OfFunction
  <2>2. IsFiniteSet(E)
    BY <2>1, FS_Subset
  <2>3. \A t \in E : SaleOf[t] \in D /\ t \in P[SaleOf[t]]
    BY <1>4, <1>6 DEF LiveTickets
  <2>4. \A s \in D : P[s] \subseteq E /\ \A t \in P[s] : SaleOf[t] = s
    <3>1. \A s \in D : LiveTickets({s}) \subseteq LiveTickets(D) /\ \A t \in LiveTickets({s}) : SaleOf[t] = s
      BY DEF LiveTickets
    <3> QED
      BY <1>4, <1>6, <3>1
  <2> HIDE DEF E
  <2> QED
    BY <2>2, <2>3, <2>4 DEF Splits
<1>11. \A s \in D : w[s] = Cardinality(P[s]) /\ w[s] \in Int
  <2>1. \A s \in D : IsFiniteSet(P[s])
    BY <1>10, FS_Subset DEF Splits
  <2> QED
    BY <1>5, <2>1, FS_CardinalityType DEF Count
<1>12. Weight(w, D) = Cardinality(E)
  <2> HIDE DEF E
  <2> QED
    BY <1>2, <1>10, <1>11, CountOfParts
<1>13. Attendance(f).entered = Weight(w, D)
  <2>1. \A s \in D : w[s] \in Int /\ w[s] = Count(AttendanceBySale(f)[s].entered)
    BY <1>3, <1>4, <1>5, <1>11
  <2> QED
    BY <1>2, <2>1, EnteredIsWeight DEF D
<1> QED
  BY <1>6, <1>8, <1>9, <1>12, <1>13 DEF Count

Ghosts(f) == {t \in EnteredIn(f) : ticket[t] = "void"}

\* Whoever entered has a live ticket, or one that was cancelled under the check-in.
LEMMA EnteredIs ==
  ASSUME Books, NEW f \in Functions
  PROVE  /\ Count(LiveTickets(OfFunction(f)) \cap checkins) = Count(EnteredIn(f)) - Count(Ghosts(f))
         /\ Count(EnteredIn(f)) > Count(LiveTickets(OfFunction(f))) => Ghosts(f) # {}
         /\ Count(LiveTickets(OfFunction(f))) \in Nat
<1> DEFINE L == LiveTickets(OfFunction(f))
           E == EnteredIn(f)
           G == Ghosts(f)
<1>1. L \cap checkins = E \ G
  <2>1. \A t \in E : SaleOf[t] \in OfFunction(f) /\ ticket[t] \in {"issued", "checked_in", "void"}
    <3>1. \A t \in checkins : t \in Tickets /\ ticket[t] # "none"
      BY DEF Books, TypeOK, EnteredHasTicket
    <3>2. \A t \in Tickets : /\ ticket[t] \in {"none", "issued", "checked_in", "void"}
                             /\ ticket[t] = "none" <=> SaleOf[t] \notin sold
      BY DEF Books, TypeOK
    <3> QED
      BY <3>1, <3>2 DEF EnteredIn, OfFunction
  <2>2. E \subseteq checkins /\ E \subseteq Tickets
    BY DEF EnteredIn, Books, TypeOK
  <2>3. E \ G \subseteq L \cap checkins
    BY <2>1, <2>2 DEF Ghosts, LiveTickets, Alive
  <2>4. L \cap checkins \subseteq E \ G
    BY DEF LiveTickets, Alive, OfFunction, EnteredIn, Ghosts
  <2> QED
    BY <2>3, <2>4
<1>2. IsFiniteSet(L) /\ IsFiniteSet(TicketsIn(OfFunction(f)))
  <2>1. OfFunction(f) \subseteq sold
    BY DEF OfFunction
  <2>2. OfFunction(f) \subseteq Sales
    BY <2>1 DEF Books, TypeOK
  <2> QED
    BY <2>1, <2>2, LiveFinite, TicketsFinite
<1>3. E \subseteq TicketsIn(OfFunction(f)) /\ G \subseteq E
  <2>1. \A t \in checkins : t \in Tickets /\ SaleOf[t] \in sold
    BY DEF Books, TypeOK, EnteredHasTicket
  <2> QED
    BY <2>1 DEF EnteredIn, TicketsIn, OfFunction, Ghosts
<1> HIDE DEF L, E, G
<1>4. IsFiniteSet(E)
  BY <1>2, <1>3, FS_Subset
<1>5. Count(E) = Count(G) + Count(E \ G) /\ Count(E) \in Nat /\ Count(G) \in Nat /\ Count(E \ G) \in Nat
  BY <1>3, <1>4, CountTwo
<1>6. G = {} => E \subseteq L
  BY <1>1
<1>7. E \subseteq L => Cardinality(E) <= Cardinality(L)
  BY <1>2, FS_Subset
<1>8. Cardinality(L) \in Nat
  BY <1>2, FS_CardinalityType
<1>9. Count(L \cap checkins) = Count(E) - Count(G)
  BY <1>1, <1>5
<1>10. Count(E) > Count(L) => G # {}
  BY <1>5, <1>6, <1>7, <1>8 DEF Count
<1> QED
  BY <1>8, <1>9, <1>10 DEF Count, L, E, G

\* The quotas and the sales of the board.
LEMMA BoardIs ==
  ASSUME Books, NEW f \in Functions
  PROVE  LET board == FunctionAllocationBoard(f) IN
         /\ SumOver(DOMAIN board, LAMBDA u : board[u].assigned) = Assigned(f)
         /\ SumOver(DOMAIN board, LAMBDA u : board[u].sold) + Count(LiveTickets(OfFunction(f) \cap Comps))
              <= Count(LiveTickets(OfFunction(f)))
<1> DEFINE K == Sellers(SeasonOf[f])
           D == DOMAIN FunctionAllocationBoard(f)
           q == quota[f]
           S == {s \in OfFunction(f) \ Comps : SellerOf[s] \in K}
           Q == [u \in K |-> (By(u) \cap OfFunction(f)) \ Comps]
           v == [u \in K |-> Count(LiveTickets(Q[u]))]
<1>1. D = K
  BY DEF FunctionAllocationBoard
<1>2. \A u \in K : /\ FunctionAllocationBoard(f)[u].assigned = quota[f][u]
                   /\ FunctionAllocationBoard(f)[u].sold = Count(LiveTickets((By(u) \cap OfFunction(f)) \ Comps))
  BY DEF FunctionAllocationBoard
<1>3. K \subseteq Users /\ IsFiniteSet(K)
  BY ConstantFacts, FS_Subset DEF Sellers
<1>4. \A u \in K : q[u] \in Int /\ q[u] = quota[f][u]
  <2>1. quota[f] \in [Users -> Nat]
    BY DEF Books, TypeOK
  <2> QED
    BY <1>3, <2>1
<1>5. (\A u \in K : Q[u] = (By(u) \cap OfFunction(f)) \ Comps) /\ \A u \in K : v[u] = Count(LiveTickets(Q[u]))
  OBVIOUS
<1> HIDE DEF q
<1>6. SumOver(D, LAMBDA u : FunctionAllocationBoard(f)[u].assigned) = Weight(q, D)
  <2>1. \A u \in D : q[u] \in Int /\ q[u] = FunctionAllocationBoard(f)[u].assigned
    BY <1>1, <1>2, <1>4
  <2>2. IsFiniteSet(D)
    BY <1>1, <1>3
  <2> QED
    BY <2>1, <2>2, BoardIsWeight
<1>7. Assigned(f) = Weight(q, K)
  <2> HIDE DEF K
  <2>1. QuotaOf(f, K) = Weight(q, K)
    BY <1>3, <1>4, QuotaOfIsWeight
  <2> QED
    BY <2>1 DEF Assigned, K
<1>8. S \subseteq OfFunction(f) \ Comps /\ OfFunction(f) \subseteq sold /\ S \subseteq sold
  BY DEF OfFunction
<1>9. Splits(Q, K, S)
  <2>1. \A u \in K : Q[u] \subseteq S /\ \A s \in Q[u] : SellerOf[s] = u
    BY <1>5 DEF By
  <2>2. \A s \in S : SellerOf[s] \in K /\ s \in Q[SellerOf[s]]
    BY <1>5, <1>8 DEF By
  <2> HIDE DEF Q, S, K
  <2> QED
    BY <2>1, <2>2 DEF Splits
<1> HIDE DEF D, S, Q, v, K
<1>10. (\A u \in K : v[u] \in Int) /\ Weight(v, K) = Count(LiveTickets(S))
  <2>1. CountsLive(v, Q, K)
    BY <1>5 DEF CountsLive
  <2> QED
    BY <1>3, <1>8, <1>9, <2>1, LiveByParts
<1>11. SumOver(D, LAMBDA u : FunctionAllocationBoard(f)[u].sold) = Weight(v, D)
  <2>1. \A u \in D : v[u] \in Int /\ v[u] = FunctionAllocationBoard(f)[u].sold
    BY <1>1, <1>2, <1>5, <1>10
  <2>2. IsFiniteSet(D)
    BY <1>1, <1>3
  <2> QED
    BY <2>1, <2>2, BoardSoldIsWeight DEF D
<1>12. Count(LiveTickets(S)) + Count(LiveTickets(OfFunction(f) \cap Comps)) <= Count(LiveTickets(OfFunction(f)))
  <2> DEFINE O == OfFunction(f)
             B == O \ S
             C == O \cap Comps
             R == B \ C
  <2>1. S \subseteq O /\ O \subseteq sold /\ B \subseteq sold /\ C \subseteq B
    BY <1>8
  <2> HIDE DEF O
  <2>2. /\ Count(LiveTickets(O)) = Count(LiveTickets(S)) + Count(LiveTickets(B))
        /\ Count(LiveTickets(S)) \in Nat /\ Count(LiveTickets(B)) \in Nat
    BY <2>1, LiveInTwo
  <2> HIDE DEF B, C
  <2>3. /\ Count(LiveTickets(B)) = Count(LiveTickets(C)) + Count(LiveTickets(R))
        /\ Count(LiveTickets(C)) \in Nat /\ Count(LiveTickets(R)) \in Nat
    BY <2>1, LiveInTwo
  <2>4. Count(LiveTickets(S)) + Count(LiveTickets(C)) <= Count(LiveTickets(O))
    BY <2>2, <2>3
  <2> QED
    BY <2>4 DEF O, C
<1> QED
  BY <1>1, <1>6, <1>7, <1>10, <1>11, <1>12 DEF D

\* The live tickets of the functions of a season, taken one by one, with or without
\* the complimentary ones.
LEMMA SeatsByFunction ==
  ASSUME Books, NEW e \in Seasons
  PROVE  /\ SumOver(FunctionsOf(e), LAMBDA f : FunctionsSummary(e)[f].sold) = Count(LiveTickets(OfSeason(e)))
         /\ SumOver(FunctionsOf(e), LAMBDA f : FunctionsSummary(e)[f].comps)
              = Count(LiveTickets(OfSeason(e) \cap Comps))
<1> DEFINE F == FunctionsOf(e)
           O == OfSeason(e)
           C == O \cap Comps
           Q == [f \in F |-> O \cap OfFunction(f)]
           R == [f \in F |-> C \cap OfFunction(f)]
           v == [f \in F |-> Count(LiveTickets(Q[f]))]
           w == [f \in F |-> Count(LiveTickets(R[f]))]
<1>1. O \subseteq OfSeason(e) /\ C \subseteq OfSeason(e)
  OBVIOUS
<1>2. Splits(Q, F, O) /\ IsFiniteSet(F) /\ O \subseteq sold
  BY <1>1, ByFunction
<1>3. Splits(R, F, C) /\ C \subseteq sold
  BY <1>1, ByFunction
<1>4. \A f \in F : /\ v[f] = Count(LiveTickets(Q[f])) /\ w[f] = Count(LiveTickets(R[f]))
                   /\ Q[f] = O \cap OfFunction(f) /\ R[f] = C \cap OfFunction(f)
  OBVIOUS
<1>5. \A f \in F : O \cap OfFunction(f) = OfFunction(f) /\ C \cap OfFunction(f) = OfFunction(f) \cap Comps
  BY DEF FunctionsOf, OfSeason, OfFunction
<1>6. \A f \in F : /\ FunctionsSummary(e)[f].sold = Count(LiveTickets(OfFunction(f)))
                   /\ FunctionsSummary(e)[f].comps = Count(LiveTickets(OfFunction(f) \cap Comps))
  BY DEF FunctionsSummary
<1> HIDE DEF O, C, F, Q, R, v, w
<1>7. CountsLive(v, Q, F) /\ CountsLive(w, R, F)
  BY <1>4 DEF CountsLive
<1>8. (\A f \in F : v[f] \in Int) /\ Weight(v, F) = Count(LiveTickets(O))
  BY <1>2, <1>7, LiveByParts
<1>9. (\A f \in F : w[f] \in Int) /\ Weight(w, F) = Count(LiveTickets(C))
  BY <1>2, <1>3, <1>7, LiveByParts
<1>10. \A f \in F : v[f] = FunctionsSummary(e)[f].sold /\ w[f] = FunctionsSummary(e)[f].comps
  <2> SUFFICES ASSUME NEW f \in F
               PROVE  v[f] = FunctionsSummary(e)[f].sold /\ w[f] = FunctionsSummary(e)[f].comps
    OBVIOUS
  <2>1. Q[f] = OfFunction(f) /\ R[f] = OfFunction(f) \cap Comps
    BY <1>4, <1>5
  <2>2. v[f] = Count(LiveTickets(OfFunction(f))) /\ w[f] = Count(LiveTickets(OfFunction(f) \cap Comps))
    BY <1>4, <2>1
  <2> QED
    BY <1>6, <2>2
<1>11. SumOver(FunctionsOf(e), LAMBDA f : FunctionsSummary(e)[f].sold) = Weight(v, F)
  BY <1>2, <1>8, <1>10, SoldByFunctionIsWeight DEF F
<1>12. SumOver(FunctionsOf(e), LAMBDA f : FunctionsSummary(e)[f].comps) = Weight(w, F)
  BY <1>2, <1>9, <1>10, CompsByFunctionIsWeight DEF F
<1> QED
  BY <1>8, <1>9, <1>11, <1>12 DEF O, C

\* The rhythm of as many days as the clock has counts every live ticket, once.
LEMMA SeatsByDay ==
  ASSUME Books, NEW e \in Seasons
  PROVE  Timeline(e, MaxTime + 1).total = Count(LiveTickets(OfSeason(e)))
<1> DEFINE K == 0..MaxTime
           O == OfSeason(e) \ voided
           since == now - MaxTime
           Q == [i \in K |-> {s \in O : made[s] = since + i}]
           v == [i \in K |-> Count(LiveTickets(Q[i]))]
<1>1. now \in Nat /\ MaxTime \in Nat /\ now <= MaxTime /\ (MaxTime + 1) - 1 = MaxTime
  BY LibrosAssumption DEF Books, TypeOK
<1>2. O \subseteq sold /\ \A s \in O : made[s] \in Nat /\ made[s] <= now
  BY LibrosAssumption DEF OfSeason, Books, TypeOK, SalesAreDated
<1>3. IsFiniteSet(K)
  BY <1>1, FS_Interval
<1>4. (\A i \in K : v[i] = Count(LiveTickets(Q[i]))) /\ \A i \in K : Q[i] = {s \in O : made[s] = since + i}
  OBVIOUS
<1>5. \A i \in K : DayOf(e, MaxTime + 1, i) = IF since + i < 0 THEN 0 ELSE Count(LiveTickets(Q[i]))
  <2> SUFFICES ASSUME NEW i \in K
               PROVE  DayOf(e, MaxTime + 1, i) = IF since + i < 0 THEN 0 ELSE Count(LiveTickets(Q[i]))
    OBVIOUS
  <2>1. since + i < 0 \/ since + i \in 0..MaxTime
    BY <1>1
  <2>2. ASSUME since + i \in 0..MaxTime
        PROVE  SalesTimeline(e, 0)[since + i] = Count(LiveTickets({s \in O : made[s] = since + i}))
    BY <2>2 DEF SalesTimeline
  <2>3. now - ((MaxTime + 1) - 1) = since
    BY <1>1
  <2>4. DayOf(e, MaxTime + 1, i) = IF since + i < 0 THEN 0 ELSE SalesTimeline(e, 0)[since + i]
    BY <2>3 DEF DayOf
  <2> HIDE DEF since, O, Q
  <2>5. CASE since + i < 0
    BY <2>4, <2>5
  <2>6. CASE ~(since + i < 0)
    BY <1>4, <2>1, <2>2, <2>4, <2>6
  <2> QED
    BY <2>5, <2>6
<1>6. \A i \in K : since + i < 0 => Q[i] = {}
  BY <1>1, <1>2
<1>7. Splits(Q, K, O)
  <2>1. \A s \in O : \E i \in K : s \in Q[i]
    <3> SUFFICES ASSUME NEW s \in O PROVE \E i \in K : s \in Q[i]
      OBVIOUS
    <3>1. made[s] - since \in K /\ since + (made[s] - since) = made[s]
      BY <1>1, <1>2
    <3> QED
      BY <1>4, <3>1
  <2>2. \A i, j \in K : i # j => Q[i] \cap Q[j] = {}
    BY <1>1, <1>4
  <2>3. \A i \in K : Q[i] \subseteq O
    BY <1>4
  <2> HIDE DEF Q, K, O
  <2> QED
    BY <2>1, <2>2, <2>3 DEF Splits
<1>8. LiveTickets({}) = {} /\ Count({}) = 0
  BY FS_EmptySet DEF LiveTickets, Count
<1> HIDE DEF K, O, since, Q, v
<1>9. (\A i \in K : v[i] \in Int) /\ Weight(v, K) = Count(LiveTickets(O))
  <2>1. CountsLive(v, Q, K)
    BY <1>4 DEF CountsLive
  <2> QED
    BY <1>2, <1>3, <1>7, <2>1, LiveByParts
<1>10. \A i \in K : v[i] = DayOf(e, MaxTime + 1, i)
  BY <1>4, <1>5, <1>6, <1>8
<1>11. Timeline(e, MaxTime + 1).total = Weight(v, K)
  <2>1. K = 0..((MaxTime + 1) - 1)
    BY <1>1 DEF K
  <2>2. IsFiniteSet(0..((MaxTime + 1) - 1)) /\ \A i \in 0..((MaxTime + 1) - 1) : v[i] \in Int /\ v[i] = DayOf(e, MaxTime + 1, i)
    BY <1>3, <1>9, <1>10, <2>1
  <2>3. Timeline(e, MaxTime + 1).total = Weight(v, 0..((MaxTime + 1) - 1))
    BY <2>2, TimelineIsWeight
  <2> QED
    BY <2>1, <2>3
<1>12. LiveTickets(O) = LiveTickets(OfSeason(e))
  BY NoneLeftInVoided DEF O
<1> QED
  BY <1>9, <1>11, <1>12

\* The rows of the team have every ticket sold, but the complimentary ones, if
\* whoever sold has a row.
LEMMA SeatsByMember ==
  ASSUME Books, NEW e \in Seasons, Vendors(e) \subseteq Members(e)
  PROVE  Team(e).sold = Count(LiveTickets(OfSeason(e) \ Comps))
<1> DEFINE K == Members(e)
           O == OfSeason(e) \ Comps
           Q == [u \in K |-> (By(u) \cap OfSeason(e)) \ Comps]
           v == [u \in K |-> Count(LiveTickets(Q[u]))]
<1>1. O \subseteq sold
  BY DEF OfSeason
<1>2. IsFiniteSet(K) /\ DOMAIN TeamForSeason(e) = K
  BY ConstantFacts, FS_Subset DEF Members, TeamForSeason
<1>3. \A u \in K : v[u] = Count(LiveTickets(Q[u])) /\ Q[u] = (By(u) \cap OfSeason(e)) \ Comps
  OBVIOUS
<1>4. \A u \in K : TeamForSeason(e)[u].sold = Count(LiveTickets((By(u) \cap OfSeason(e)) \ Comps))
  BY DEF TeamForSeason
<1>5. Splits(Q, K, O)
  <2>1. \A s \in O : SellerOf[s] \in K /\ s \in Q[SellerOf[s]]
    <3>1. \A s \in O : SellerOf[s] \in K
      BY DEF Vendors
    <3> QED
      BY <1>1, <1>3, <3>1 DEF By
  <2>2. \A u \in K : Q[u] \subseteq O /\ \A s \in Q[u] : SellerOf[s] = u
    BY <1>3 DEF By
  <2> HIDE DEF Q, K, O
  <2> QED
    BY <2>1, <2>2 DEF Splits
<1> HIDE DEF K, O, Q, v
<1>6. (\A u \in K : v[u] \in Int) /\ Weight(v, K) = Count(LiveTickets(O))
  <2>1. CountsLive(v, Q, K)
    BY <1>3 DEF CountsLive
  <2> QED
    BY <1>1, <1>2, <1>5, <2>1, LiveByParts
<1>7. \A u \in DOMAIN TeamForSeason(e) : v[u] \in Int /\ v[u] = TeamForSeason(e)[u].sold
  BY <1>2, <1>3, <1>4, <1>6
<1>8. Team(e).sold = Weight(v, K)
  <2>1. IsFiniteSet(DOMAIN TeamForSeason(e))
    BY <1>2
  <2>2. Team(e).sold = Weight(v, DOMAIN TeamForSeason(e))
    BY <1>7, <2>1, TeamSoldIsWeight
  <2> QED
    BY <1>2, <2>2
<1> QED
  BY <1>6, <1>8 DEF O

\* The quantities of some sales are the tickets they had.
LEMMA QuantityIsTickets ==
  ASSUME Books, NEW S, S \subseteq sold
  PROVE  QuantityOf(S) = Count(TicketsIn(S)) /\ IsFiniteSet(TicketsIn(S))
<1> DEFINE P == [s \in S |-> TicketsOf(s)]
           w == [s \in S |-> Quantity(s)]
           T == TicketsIn(S)
<1>1. IsFiniteSet(S) /\ S \subseteq Sales
  BY LiveFinite DEF Books, TypeOK
<1>2. IsFiniteSet(T)
  BY <1>1, TicketsFinite
<1>3. \A s \in S : w[s] = Quantity(s) /\ w[s] \in Int /\ w[s] = Cardinality(P[s])
  BY <1>1, QuantityType DEF Quantity
<1>4. Splits(P, S, T)
  <2>1. \A s \in S : P[s] \subseteq T /\ \A t \in P[s] : SaleOf[t] = s
    BY DEF TicketsOf, TicketsIn
  <2>2. \A t \in T : SaleOf[t] \in S /\ t \in P[SaleOf[t]]
    BY DEF TicketsOf, TicketsIn
  <2> HIDE DEF P, T
  <2> QED
    BY <2>1, <2>2 DEF Splits
<1> HIDE DEF P, w, T
<1>5. Weight(w, S) = Cardinality(T)
  BY <1>1, <1>2, <1>3, <1>4, CountOfParts
<1>6. QuantityOf(S) = Weight(w, S)
  BY <1>1, <1>3, QuantityOfIsWeight
<1> QED
  BY <1>2, <1>5, <1>6 DEF Count, T

\* The list adds up the quantities: those of the tickets that are live, and of those
\* that were cancelled one by one.
LEMMA SeatsListed ==
  ASSUME Books, NEW e \in Seasons
  PROVE  SalesSummary(Whole(e)).money.tickets + SalesSummary(Whole(e)).compTickets
           = Count(LiveTickets(OfSeason(e)))
             + Count({t \in Tickets : SaleOf[t] \in OfSeason(e) \ voided /\ ticket[t] = "void"})
<1> DEFINE O == OfSeason(e)
           A == O \cap Charged
           B == (O \cap Comps) \ voided
           S == O \ voided
           L == LiveTickets(S)
           V == {t \in Tickets : SaleOf[t] \in S /\ ticket[t] = "void"}
<1>1. /\ SalesSummary(Whole(e)).money.tickets = QuantityOf(A)
      /\ SalesSummary(Whole(e)).compTickets = QuantityOf(B)
  BY WholeScope DEF SalesSummary, Money
<1>2. O \subseteq sold /\ A \subseteq sold /\ B \subseteq sold /\ S \subseteq sold
  BY DEF OfSeason
<1>3. A \subseteq S /\ B = S \ A
  BY <1>2 DEF Charged
<1>4. TicketsIn(A) \subseteq TicketsIn(S) /\ TicketsIn(B) = TicketsIn(S) \ TicketsIn(A)
  BY <1>3 DEF TicketsIn
<1>5. L \subseteq TicketsIn(S) /\ V = TicketsIn(S) \ L
  <2>1. \A t \in TicketsIn(S) : ticket[t] \in {"issued", "checked_in", "void"}
    <3>1. \A t \in TicketsIn(S) : t \in Tickets /\ SaleOf[t] \in sold
      BY <1>2 DEF TicketsIn
    <3> HIDE DEF S
    <3> QED
      BY <3>1 DEF Books, TypeOK
  <2> HIDE DEF S
  <2> QED
    BY <2>1 DEF TicketsIn, LiveTickets, Alive
<1>6. L = LiveTickets(O)
  BY NoneLeftInVoided
<1> HIDE DEF O, A, B, S, L, V
<1>7. /\ QuantityOf(A) = Count(TicketsIn(A)) /\ QuantityOf(B) = Count(TicketsIn(B))
      /\ IsFiniteSet(TicketsIn(S))
  BY <1>2, QuantityIsTickets
<1>8. /\ Count(TicketsIn(S)) = Count(TicketsIn(A)) + Count(TicketsIn(B))
      /\ Count(TicketsIn(A)) \in Nat /\ Count(TicketsIn(B)) \in Nat
  BY <1>4, <1>7, CountTwo
<1>9. Count(TicketsIn(S)) = Count(L) + Count(V)
  BY <1>5, <1>7, CountTwo
<1>10. QuantityOf(A) + QuantityOf(B) = Count(LiveTickets(O)) + Count(V)
  BY <1>6, <1>7, <1>8, <1>9
<1> QED
  BY <1>1, <1>10 DEF O, V, S

\* The seats of a function and of a season are the same on every screen, up to the
\* tickets cancelled one by one, which the list still adds up, and to those that
\* were cancelled under their check-in, which the summary still counts as entered.
THEOREM SeatsAddUpCorrect == Spec => []SeatsAddUp
<1>1. ASSUME Books, NEW f \in Functions
      PROVE  LET row == FunctionsSummary(SeasonOf[f])[f]
                 a == Attendance(f)
                 ghosts == {t \in EnteredIn(f) : ticket[t] = "void"}
                 board == FunctionAllocationBoard(f)
             IN /\ a.issued = row.sold
                /\ a.entered = row.entered - Count(ghosts)
                /\ row.entered > row.sold => ghosts # {}
                /\ row.assigned = SumOver(DOMAIN board, LAMBDA u : board[u].assigned)
                /\ SumOver(DOMAIN board, LAMBDA u : board[u].sold) + row.comps <= row.sold
                /\ ListFunctions(SeasonOf[f])[f].sold = row.sold
  <2> DEFINE row == FunctionsSummary(SeasonOf[f])[f]
  <2>1. f \in FunctionsOf(SeasonOf[f])
    BY DEF FunctionsOf
  <2>2. /\ row.sold = Count(LiveTickets(OfFunction(f))) /\ row.entered = Count(EnteredIn(f))
        /\ row.assigned = Assigned(f)
        /\ row.comps = Count(LiveTickets(OfFunction(f) \cap Comps))
        /\ ListFunctions(SeasonOf[f])[f].sold = Count(LiveTickets(OfFunction(f)))
    BY <2>1 DEF FunctionsSummary, ListFunctions
  <2> HIDE DEF row
  <2>3. /\ Attendance(f).issued = row.sold
        /\ Attendance(f).entered = row.entered - Count(Ghosts(f))
        /\ row.entered > row.sold => Ghosts(f) # {}
    BY <1>1, <2>2, AttendanceIs, EnteredIs
  <2>4. /\ SumOver(DOMAIN FunctionAllocationBoard(f), LAMBDA u : FunctionAllocationBoard(f)[u].assigned)
             = row.assigned
        /\ SumOver(DOMAIN FunctionAllocationBoard(f), LAMBDA u : FunctionAllocationBoard(f)[u].sold)
             + row.comps <= row.sold
    BY <1>1, <2>2, BoardIs
  <2> QED
    BY <2>2, <2>3, <2>4 DEF row, Ghosts
<1>2. ASSUME Books, NEW e \in Seasons
      PROVE  LET F == FunctionsOf(e)
                 total == SumOver(F, LAMBDA f : FunctionsSummary(e)[f].sold)
                 list == SalesSummary([season |-> e, seller |-> NoFilter, function |-> NoFilter, q |-> Sales])
                 cancelled == {t \in Tickets : SaleOf[t] \in OfSeason(e) \ voided /\ ticket[t] = "void"}
             IN /\ SeasonsOverview(e).sold = total
                /\ Timeline(e, MaxTime + 1).total = total
                /\ Vendors(e) \subseteq Members(e)
                     => Team(e).sold + SumOver(F, LAMBDA f : FunctionsSummary(e)[f].comps) = total
                /\ list.money.tickets + list.compTickets = total + Count(cancelled)
  <2> DEFINE O == OfSeason(e)
             total == SumOver(FunctionsOf(e), LAMBDA f : FunctionsSummary(e)[f].sold)
             comps == SumOver(FunctionsOf(e), LAMBDA f : FunctionsSummary(e)[f].comps)
  <2>1. total = Count(LiveTickets(O)) /\ comps = Count(LiveTickets(O \cap Comps))
    BY <1>2, SeatsByFunction
  <2>2. SeasonsOverview(e).sold = Count(LiveTickets(O))
    BY DEF SeasonsOverview
  <2>3. Timeline(e, MaxTime + 1).total = Count(LiveTickets(O))
    BY <1>2, SeatsByDay
  <2>4. ASSUME Vendors(e) \subseteq Members(e)
        PROVE  Team(e).sold + comps = total
    <3> DEFINE C == O \cap Comps
               R == O \ C
    <3>1. Team(e).sold = Count(LiveTickets(R)) /\ comps = Count(LiveTickets(C))
      <4>1. R = O \ Comps
        OBVIOUS
      <4> HIDE DEF R
      <4> QED
        BY <1>2, <2>1, <2>4, <4>1, SeatsByMember
    <3>2. O \subseteq sold /\ C \subseteq O
      BY DEF OfSeason
    <3> HIDE DEF O, total, comps, C
    <3>3. /\ Count(LiveTickets(O)) = Count(LiveTickets(C)) + Count(LiveTickets(R))
          /\ Count(LiveTickets(C)) \in Nat /\ Count(LiveTickets(R)) \in Nat
      BY <1>2, <3>2, LiveInTwo
    <3> QED
      BY <2>1, <3>1, <3>3
  <2>5. SalesSummary(Whole(e)).money.tickets + SalesSummary(Whole(e)).compTickets
          = total + Count({t \in Tickets : SaleOf[t] \in O \ voided /\ ticket[t] = "void"})
    BY <1>2, <2>1, SeatsListed
  <2>6. SeasonsOverview(e).sold = total /\ Timeline(e, MaxTime + 1).total = total
    BY <2>1, <2>2, <2>3
  <2> QED
    BY <2>4, <2>5, <2>6 DEF Whole
<1>3. Books => SeatsAddUp
  BY <1>1, <1>2 DEF SeatsAddUp
<1> QED
  BY <1>3, BooksCorrect, PTL

---------------------------------------------------------------------------
(* The sales that are pending.                                             *)

\* The filter of a seller in a season.
AskedOf(e, u) == [season |-> e, seller |-> u, function |-> NoFilter, q |-> Sales]

LEMMA PendingIsWeight ==
  ASSUME NEW u, IsFiniteSet(Seasons), NEW w, \A x \in Seasons : w[x] \in Int /\ w[x] = SalesSummary(AskedOf(x, u)).pendingCount
  PROVE  SumOver(Seasons, LAMBDA se : SalesSummary(AskedOf(se, u)).pendingCount) = Weight(w, Seasons)
<1> DEFINE Choice(T) == CHOOSE x \in T : TRUE
           S == Seasons
           Eq(g) == g = [T \in SUBSET S |->
                           IF T = {} THEN 0 ELSE SalesSummary(AskedOf(Choice(T), u)).pendingCount + g[T \ {Choice(T)}]]
<1>1. SumOver(Seasons, LAMBDA se : SalesSummary(AskedOf(se, u)).pendingCount) = (CHOOSE g : Eq(g))[S]
  BY DEF SumOver, MapThenSumSet, MapThenFoldSet
<1>2. ASSUME NEW g
      PROVE  Eq(g) <=> IsSum(g, w, S)
  <2>1. \A T \in SUBSET S : T # {} => SalesSummary(AskedOf(Choice(T), u)).pendingCount = w[Choice(T)]
    OBVIOUS
  <2> HIDE DEF Choice
  <2> QED
    BY <2>1 DEF IsSum, Choice
<1> HIDE DEF Eq
<1> QED
  BY <1>1, <1>2, ChosenWeight

\* Pending is what is owed, and what is worth nothing.
LEMMA PendingIs ==
  ASSUME Books, NEW u \in Users
  PROVE  LET B == By(u) \cap Charged IN
         /\ \A s \in By(u) : HasStatus(s, "pending") <=> s \in B /\ (Debt(s) > 0 \/ Amount(s) = 0)
         /\ \A s \in B : Amount(s) = 0 => ~(Debt(s) > 0)
         /\ B \subseteq Sales /\ B \subseteq sold /\ IsFiniteSet(B)
<1> DEFINE B == By(u) \cap Charged
<1>1. By(u) \subseteq Sales /\ By(u) \subseteq sold /\ B \subseteq sold
  BY DEF By, Books, TypeOK
<1>2. \A s \in By(u) : HasStatus(s, "pending") <=> s \in B /\ ~IsPaid(s)
  BY <1>1 DEF HasStatus, Charged
<1>3. \A s \in By(u) : /\ Paid(s) \in Nat /\ Amount(s) \in Nat /\ Paid(s) <= Amount(s)
                       /\ Debt(s) = Amount(s) - Paid(s)
  BY <1>1, PaidType DEF Debt
<1>4. \A s \in By(u) : ~IsPaid(s) <=> Debt(s) > 0 \/ Amount(s) = 0
  BY <1>3 DEF IsPaid
<1>5. \A s \in By(u) : Amount(s) = 0 => ~(Debt(s) > 0)
  BY <1>3
<1>6. IsFiniteSet(B)
  <2> HIDE DEF B
  <2> QED
    BY <1>1, LiveFinite
<1> QED
  BY <1>1, <1>2, <1>4, <1>5, <1>6

\* What the lists of the seasons mark as pending, together.
LEMMA PendingBySeason ==
  ASSUME Books, NEW u \in Users
  PROVE  SumOver(Seasons, LAMBDA se : SalesSummary(AskedOf(se, u)).pendingCount)
           = CountPendingSales(u) + Count({s \in By(u) \cap Charged : Amount(s) = 0})
<1> DEFINE B == By(u) \cap Charged
           O == {s \in B : Debt(s) > 0}
           Z == {s \in B : Amount(s) = 0}
           P == {s \in By(u) : HasStatus(s, "pending")}
           Q == [e \in Seasons |-> {s \in P : SeasonOf[FunctionOf[s]] = e}]
           v == [e \in Seasons |-> Count(Q[e])]
<1>1. P = O \cup Z /\ O \cap Z = {} /\ O \subseteq P /\ Z = P \ O
  BY PendingIs
<1>2. P \subseteq By(u) /\ By(u) \subseteq sold /\ P \subseteq sold
  BY DEF By
<1>3. \A e \in Seasons : Q[e] = {s \in P : SeasonOf[FunctionOf[s]] = e} /\ v[e] = Count(Q[e])
  OBVIOUS
<1>4. \A e \in Seasons : SalesSummary(AskedOf(e, u)).pendingCount = Count(Q[e])
  <2> SUFFICES ASSUME NEW e \in Seasons
               PROVE  SalesSummary(AskedOf(e, u)).pendingCount = Count(Q[e])
    OBVIOUS
  <2>1. e # NoFilter /\ u # NoFilter
    BY ListadoAssumption
  <2>2. sold \subseteq Sales
    BY DEF Books, TypeOK
  <2>3. Scope(AskedOf(e, u)) = {s \in By(u) : SeasonOf[FunctionOf[s]] = e}
    BY <2>1, <2>2 DEF Scope, AskedOf, By
  <2>4. SalesSummary(AskedOf(e, u)).pendingCount = Count({s \in Scope(AskedOf(e, u)) : HasStatus(s, "pending")})
    BY DEF SalesSummary
  <2>5. {s \in Scope(AskedOf(e, u)) : HasStatus(s, "pending")} = Q[e]
    BY <2>3
  <2> QED
    BY <2>4, <2>5
<1>5. CountPendingSales(u) = Count(O)
  <2>1. u # Everyone
    BY EveryoneAssumption
  <2>2. Mine(Charged, u) = B
    BY <2>1 DEF Mine
  <2> QED
    BY <2>2 DEF CountPendingSales
<1>6. IsFiniteSet(P)
  <2> HIDE DEF P
  <2> QED
    BY <1>2, LiveFinite
<1>7. Splits(Q, Seasons, P) /\ IsFiniteSet(Seasons)
  <2>1. \A s \in P : SeasonOf[FunctionOf[s]] \in Seasons
    BY <1>2, ConstantFacts DEF Books, TypeOK
  <2>2. \A e \in Seasons : Q[e] \subseteq P /\ \A s \in Q[e] : SeasonOf[FunctionOf[s]] = e
    BY <1>3
  <2>3. \A s \in P : \E e \in Seasons : s \in Q[e]
    BY <1>3, <2>1
  <2> HIDE DEF P, Q
  <2> QED
    BY <2>2, <2>3, ConstantFacts DEF Splits
<1> HIDE DEF O, Z, P, Q, v
<1>8. \A e \in Seasons : v[e] = Cardinality(Q[e]) /\ v[e] \in Int
  <2>1. \A e \in Seasons : IsFiniteSet(Q[e])
    BY <1>6, <1>7, FS_Subset DEF Splits
  <2> QED
    BY <1>3, <2>1, FS_CardinalityType DEF Count
<1>9. Weight(v, Seasons) = Cardinality(P)
  BY <1>6, <1>7, <1>8, CountOfParts
<1>10. SumOver(Seasons, LAMBDA se : SalesSummary(AskedOf(se, u)).pendingCount) = Weight(v, Seasons)
  <2>1. \A e \in Seasons : v[e] \in Int /\ v[e] = SalesSummary(AskedOf(e, u)).pendingCount
    BY <1>3, <1>4, <1>8
  <2> QED
    BY <1>7, <2>1, PendingIsWeight
<1>11. Count(P) = Count(O) + Count(Z)
  <2>1. Count(P) = Count(O) + Count(P \ O)
    BY <1>1, <1>6, CountTwo
  <2> QED
    BY <1>1, <2>1
<1> QED
  BY <1>5, <1>9, <1>10, <1>11 DEF Count, Z, B

\* The first sales of some, by the hour they were made and then by their id.
Older(x, s) == made[x] < made[s] \/ (made[x] = made[s] /\ x < s)
OldestOf(S, k) == {s \in S : Count({x \in S : Older(x, s)}) < k}

LEMMA FirstByAge ==
  ASSUME Books, NEW S, S \subseteq sold, NEW k \in Int
  PROVE  /\ IsFiniteSet(OldestOf(S, k)) /\ OldestOf(S, k) \subseteq S
         /\ Count(OldestOf(S, k)) = IF k < 0 THEN 0 ELSE IF Count(S) < k THEN Count(S) ELSE k
         /\ Count(S) \in Nat
<1> DEFINE below == [s \in S |-> {x \in S : Older(x, s)}]
           T == {s \in S : Cardinality(below[s]) < k}
<1>1. IsFiniteSet(S) /\ \A s \in S : s \in Int /\ made[s] \in Int
  <2>1. IsFiniteSet(S) /\ S \subseteq Sales
    BY LiveFinite DEF Books, TypeOK
  <2>2. \A s \in Sales : s \in Nat /\ made[s] \in Nat
    BY ConstantFacts, LibrosAssumption DEF Books, TypeOK
  <2> QED
    BY <2>1, <2>2
<1>2. \A s \in S : below[s] = {x \in S : Older(x, s)}
  OBVIOUS
<1>3. OldestOf(S, k) = T
  BY <1>2 DEF OldestOf, Count
<1> HIDE DEF below
<1>4. Orders(below, S)
  <2>1. \A s \in S : below[s] \subseteq S /\ s \notin below[s]
    BY <1>1, <1>2 DEF Older
  <2>2. \A x, y \in S : x # y => Older(x, y) \/ Older(y, x)
    BY <1>1 DEF Older
  <2>3. \A x, y, z \in S : Older(x, y) /\ Older(y, z) => Older(x, z)
    BY <1>1 DEF Older
  <2>4. \A x, y \in S : x # y => x \in below[y] \/ y \in below[x]
    BY <1>2, <2>2
  <2>5. \A x, y \in S : x \in below[y] => below[x] \subseteq below[y]
    BY <1>2, <2>3
  <2> QED
    BY <2>1, <2>4, <2>5 DEF Orders
<1>5. \A s \in S : Cardinality(below[s]) \in Nat
  <2>1. \A s \in S : below[s] \in SUBSET S
    BY <1>4 DEF Orders
  <2> QED
    BY <1>1, <2>1, FS_Subset, FS_CardinalityType
<1>6. T \subseteq S
  OBVIOUS
<1>7. Cardinality(S) \in Nat
  BY <1>1, FS_CardinalityType
<1>8. CASE k < 0
  <2>1. T = {}
    BY <1>5, <1>8
  <2>2. IsFiniteSet(T) /\ Cardinality(T) = 0
    BY <2>1, FS_EmptySet
  <2> HIDE DEF T
  <2> QED
    BY <1>3, <1>6, <1>7, <1>8, <2>2 DEF Count
<1>9. CASE k \in Nat
  <2>1. IsFiniteSet(T) /\ Cardinality(T) = IF Cardinality(S) < k THEN Cardinality(S) ELSE k
    BY <1>1, <1>4, <1>9, CountOfFirst
  <2> HIDE DEF T
  <2> QED
    BY <1>3, <1>6, <1>7, <1>9, <2>1 DEF Count
<1> QED
  BY <1>8, <1>9

\* What a seller has left to do has every sale the counter counts, as far as it
\* reaches, and never more than it may have.
LEMMA ToDoIs ==
  ASSUME Books, NEW u \in Users
  PROVE  /\ Count({s \in MyPendingSales(u, HomeToDoMax) : Debt(s) > 0})
              = Min({CountPendingSales(u), HomeToDoMax})
         /\ Count(MyPendingSales(u, HomeToDoMax)) <= HomeToDoMax
<1> DEFINE B == By(u) \cap Charged
           O == {s \in B : Debt(s) > 0}
           H == {s \in B \ O : s \notin Addressed /\ Future(FunctionOf[s])}
           max == HomeToDoMax
           n == Count(O)
           left2 == max - n
           A == OldestOf(O, max)
           C == OldestOf(H, left2)
           M == MyPendingSales(u, max)
<1>1. M = A \cup C
  BY DEF MyPendingSales, OldestOf, Older
<1>2. O \subseteq sold /\ H \subseteq sold /\ O \cap H = {} /\ max \in Nat
  BY PantallasAssumption DEF By
<1>3. A \subseteq O /\ C \subseteq H /\ (\A s \in O : Debt(s) > 0) /\ \A s \in H : ~(Debt(s) > 0)
  BY DEF OldestOf
<1>4. {s \in M : Debt(s) > 0} = A
  BY <1>1, <1>3
<1>5. CountPendingSales(u) = n
  <2>1. u # Everyone
    BY EveryoneAssumption
  <2>2. Mine(Charged, u) = B
    BY <2>1 DEF Mine
  <2> QED
    BY <2>2 DEF CountPendingSales
<1> HIDE DEF O, H, max, M
<1>6. n \in Nat /\ IsFiniteSet(A) /\ Count(A) = IF n < max THEN n ELSE max
  BY <1>2, FirstByAge
<1>7. left2 \in Int
  BY <1>2, <1>6
<1> HIDE DEF n, A
<1>8. /\ IsFiniteSet(C) /\ Count(H) \in Nat
      /\ Count(C) = IF left2 < 0 THEN 0 ELSE IF Count(H) < left2 THEN Count(H) ELSE left2
  <2> HIDE DEF left2
  <2> QED
    BY <1>2, <1>7, FirstByAge
<1> HIDE DEF C
<1>9. Count(M) = Count(A) + Count(C)
  <2>1. A \cap C = {}
    BY <1>2, <1>3
  <2>2. Cardinality(A \cup C) = Cardinality(A) + Cardinality(C) - Cardinality(A \cap C)
    BY <1>6, <1>8, FS_Union
  <2>3. Cardinality({}) = 0 /\ Cardinality(A) \in Nat /\ Cardinality(C) \in Nat
    BY <1>6, <1>8, FS_EmptySet, FS_CardinalityType
  <2>4. Cardinality(M) = Cardinality(A \cup C) /\ Cardinality(A \cap C) = Cardinality({})
    BY <1>1, <2>1
  <2> QED
    BY <2>2, <2>3, <2>4 DEF Count
<1>10. Count(M) <= max
  BY <1>2, <1>6, <1>8, <1>9
<1>11. Min({n, max}) = IF n < max THEN n ELSE max
  <2> DEFINE m == IF n < max THEN n ELSE max
  <2>1. m \in {n, max} /\ m \in Nat /\ \A y \in {n, max} : m <= y
    BY <1>2, <1>6
  <2>2. \A x \in {n, max} : (\A y \in {n, max} : x <= y) => x = m
    BY <1>2, <1>6
  <2> HIDE DEF m
  <2> QED
    BY <2>1, <2>2 DEF Min, m
<1> QED
  BY <1>4, <1>5, <1>6, <1>10, <1>11 DEF M, max

\* The counter of pending sales is what the lists mark as pending, but for the sales
\* of a free function, and the to-do list has them all as far as it reaches.
THEOREM PendingAgreesCorrect == Spec => []PendingAgrees
<1>1. Books => PendingAgrees
  BY PendingBySeason, ToDoIs DEF PendingAgrees, AskedOf
<1> QED
  BY <1>1, BooksCorrect, PTL

---------------------------------------------------------------------------
(* The pages of the list.                                                  *)

\* What the order compares.
IsKey(a) == a[1] \in Int /\ a[2] \in Int /\ a[3] \in Int

LEMMA KeyOrder ==
  ASSUME NEW a, NEW b, NEW c, IsKey(a), IsKey(b), IsKey(c)
  PROVE  /\ ~KeyBefore(a, a)
         /\ KeyBefore(a, b) => ~KeyBefore(b, a)
         /\ KeyBefore(a, b) /\ KeyBefore(b, c) => KeyBefore(a, c)
         /\ a[3] # b[3] => KeyBefore(a, b) \/ KeyBefore(b, a)
         /\ ~KeyBefore(c, a) /\ KeyBefore(c, b) => KeyBefore(a, b)
  BY DEF IsKey, KeyBefore

\* One sale is before another in the list.
Precedes(a, b) == KeyBefore(Key(a), Key(b))

LEMMA SaleKey ==
  ASSUME Books, NEW s \in sold
  PROVE  IsKey(Key(s)) /\ Key(s)[3] = s /\ KeyBefore(NoCursor, Key(s))
<1>1. s \in Int /\ start[FunctionOf[s]] \in Int
  <2>1. s \in Sales
    BY DEF Books, TypeOK
  <2>2. s \in Nat /\ FunctionOf[s] \in Functions
    BY <2>1, ConstantFacts
  <2>3. \A f \in Functions : start[f] \in 0..MaxTime
    BY DEF Books, TypeOK
  <2>4. MaxTime \in Nat
    BY LibrosAssumption
  <2> QED
    BY <2>2, <2>3, <2>4
<1>2. PastRank(s) \in {0, 1}
  BY DEF PastRank
<1> QED
  BY <1>1, <1>2 DEF IsKey, Key, NoCursor, KeyBefore

LEMMA ListOrder ==
  ASSUME Books
  PROVE  /\ \A a, b \in sold : Precedes(a, b) => ~Precedes(b, a)
         /\ \A a \in sold : ~Precedes(a, a)
         /\ \A a, b, c \in sold : Precedes(a, b) /\ Precedes(b, c) => Precedes(a, c)
         /\ \A a, b \in sold : a # b => Precedes(a, b) \/ Precedes(b, a)
<1>1. \A a, b, c \in sold : /\ ~Precedes(a, a)
                            /\ Precedes(a, b) => ~Precedes(b, a)
                            /\ Precedes(a, b) /\ Precedes(b, c) => Precedes(a, c)
                            /\ a # b => Precedes(a, b) \/ Precedes(b, a)
  <2> SUFFICES ASSUME NEW a \in sold, NEW b \in sold, NEW c \in sold
               PROVE  /\ ~Precedes(a, a)
                      /\ Precedes(a, b) => ~Precedes(b, a)
                      /\ Precedes(a, b) /\ Precedes(b, c) => Precedes(a, c)
                      /\ a # b => Precedes(a, b) \/ Precedes(b, a)
    OBVIOUS
  <2>1. IsKey(Key(a)) /\ IsKey(Key(b)) /\ IsKey(Key(c)) /\ Key(a)[3] = a /\ Key(b)[3] = b
    BY SaleKey
  <2> QED
    BY <2>1, KeyOrder DEF Precedes
<1> QED
  BY <1>1

Behind(S, s) == {y \in S : KeyBefore(Key(y), Key(s))}

LEMMA PlacesAre ==
  ASSUME Books, NEW S, S \subseteq sold
  PROVE  /\ IsFiniteSet(S) /\ Count(S) \in Nat
         /\ \A s \in S : Count(Behind(S, s)) \in 0..(Count(S) - 1)
         /\ \A a, b \in S : Count(Behind(S, a)) = Count(Behind(S, b)) => a = b
         /\ \A a, b \in S : Precedes(a, b) <=> Count(Behind(S, a)) < Count(Behind(S, b))
         /\ \A i \in 0..(Count(S) - 1) : \E s \in S : Count(Behind(S, s)) = i
<1> DEFINE below == [s \in S |-> Behind(S, s)]
<1>1. IsFiniteSet(S)
  BY LiveFinite
<1>2. Cardinality(S) \in Nat
  BY <1>1, FS_CardinalityType
<1>3. \A s \in S : below[s] = Behind(S, s)
  OBVIOUS
<1>4. \A a, b \in S : a \in below[b] <=> Precedes(a, b)
  BY DEF Behind, Precedes
<1>5. \A a \in S : below[a] \subseteq S
  BY DEF Behind
<1> HIDE DEF below
<1>6. \A a, b, c \in S : /\ ~Precedes(a, a)
                         /\ Precedes(a, b) => ~Precedes(b, a)
                         /\ Precedes(a, b) /\ Precedes(b, c) => Precedes(a, c)
                         /\ a # b => Precedes(a, b) \/ Precedes(b, a)
  BY ListOrder
<1>7. Orders(below, S)
  BY <1>4, <1>5, <1>6 DEF Orders
<1>8. /\ \A x \in S : Cardinality(below[x]) \in 0..(Cardinality(S) - 1)
      /\ \A x, y \in S : Cardinality(below[x]) = Cardinality(below[y]) => x = y
      /\ \A x, y \in S : x \in below[y] => Cardinality(below[x]) < Cardinality(below[y])
      /\ \A i \in 0..(Cardinality(S) - 1) : \E x \in S : Cardinality(below[x]) = i
  BY <1>1, <1>7, RanksAre
<1>9. \A s \in S : Count(Behind(S, s)) = Cardinality(below[s])
  BY <1>3 DEF Count
<1>10. \A a, b \in S : Precedes(a, b) <=> Count(Behind(S, a)) < Count(Behind(S, b))
  <2> SUFFICES ASSUME NEW a \in S, NEW b \in S
               PROVE  Precedes(a, b) <=> Count(Behind(S, a)) < Count(Behind(S, b))
    OBVIOUS
  <2>1. Count(Behind(S, a)) \in Int /\ Count(Behind(S, b)) \in Int
    BY <1>8, <1>9
  <2>2. /\ Precedes(a, b) => Count(Behind(S, a)) < Count(Behind(S, b))
        /\ Precedes(b, a) => Count(Behind(S, b)) < Count(Behind(S, a))
    BY <1>4, <1>8, <1>9
  <2> QED
    BY <1>6, <2>1, <2>2
<1> QED
  BY <1>1, <1>2, <1>8, <1>9, <1>10 DEF Count

\* Rows in the order of the list.
InOrder(rows) == \A i, j \in 1..Len(rows) : i < j => Precedes(rows[i], rows[j])

\* The first m of some sales, in order.
FirstRows(S, m) == [i \in 1..m |-> CHOOSE s \in S : Count(Behind(S, s)) = i - 1]

LEMMA PageIs ==
  ASSUME Books, NEW S, S \subseteq sold, NEW m \in Nat, m <= Count(S)
  PROVE  /\ FirstRows(S, m) \in Seq(S) /\ Len(FirstRows(S, m)) = m
         /\ InOrder(FirstRows(S, m))
         /\ \A s \in S : \/ \E i \in 1..m : FirstRows(S, m)[i] = s
                         \/ \A i \in 1..m : Precedes(FirstRows(S, m)[i], s)
<1> DEFINE n == Count(S)
           p == FirstRows(S, m)
           R(s) == Count(Behind(S, s))
<1>1. n \in Nat /\ m <= n
  BY PlacesAre
<1>2. \A i \in 1..m : p[i] = CHOOSE s \in S : R(s) = i - 1
  BY DEF FirstRows
<1>3. \A i \in 1..m : \E s \in S : R(s) = i - 1
  <2>1. \A i \in 1..m : i - 1 \in 0..(n - 1)
    BY <1>1
  <2> HIDE DEF R
  <2>2. \A i \in 0..(n - 1) : \E s \in S : R(s) = i
    BY PlacesAre DEF R
  <2> QED
    BY <2>1, <2>2
<1>4. /\ \A s \in S : R(s) \in 0..(n - 1)
      /\ \A a, b \in S : R(a) = R(b) => a = b
      /\ \A a, b \in S : Precedes(a, b) <=> R(a) < R(b)
  BY PlacesAre
<1>5. p \in [1..m -> {p[i] : i \in 1..m}]
  BY DEF FirstRows
<1> HIDE DEF R, p, n
<1>6. \A i \in 1..m : p[i] \in S /\ R(p[i]) = i - 1
  BY <1>2, <1>3
<1>7. p \in [1..m -> S]
  BY <1>5, <1>6
<1>8. p \in Seq(S) /\ Len(p) = m
  BY <1>7
<1>9. InOrder(p)
  <2>1. \A i, j \in 1..m : i < j => Precedes(p[i], p[j])
    BY <1>4, <1>6
  <2> QED
    BY <1>8, <2>1 DEF InOrder
<1>10. ASSUME NEW s \in S
       PROVE  (\E i \in 1..m : p[i] = s) \/ \A i \in 1..m : Precedes(p[i], s)
  <2>1. R(s) \in Nat
    BY <1>4, <1>1
  <2>2. CASE R(s) < m
    <3>1. R(s) + 1 \in 1..m /\ (R(s) + 1) - 1 = R(s)
      BY <2>1, <2>2
    <3>2. p[R(s) + 1] = s
      BY <1>4, <1>6, <3>1
    <3> QED
      BY <3>1, <3>2
  <2>3. CASE ~(R(s) < m)
    <3>1. \A i \in 1..m : i - 1 < R(s)
      BY <2>1, <2>3
    <3> QED
      BY <1>4, <1>6, <3>1
  <2> QED
    BY <2>2, <2>3
<1> QED
  BY <1>8, <1>9, <1>10 DEF p

\* What an export knows after i pages: the first rows of the list, in order, as many
\* as the pages hold, and a cursor between them and the rest.
ReadSoFar(x, w, i) ==
    /\ w.rows \in Seq(Listed(x)) /\ InOrder(w.rows)
    /\ Len(w.rows) = IF Count(Listed(x)) < PageSize * i THEN Count(Listed(x)) ELSE PageSize * i
    /\ IsKey(w.cursor)
    /\ \A s \in Listed(x) : KeyBefore(w.cursor, Key(s)) <=> s \notin Range(w.rows)
    /\ w.done => Len(w.rows) = Count(Listed(x))

WalkStart == [rows |-> <<>>, cursor |-> NoCursor, done |-> FALSE]

LEMMA ListedIsSold == ASSUME NEW x PROVE Listed(x) \subseteq sold /\ Listed(x) \subseteq Scope(x)
  BY DEF Listed, Scope

\* Rows in order are not repeated.
LEMMA RowsInOrder ==
  ASSUME Books, NEW S, S \subseteq sold, NEW rows \in Seq(S), InOrder(rows)
  PROVE  /\ Range(rows) \subseteq S /\ IsFiniteSet(Range(rows))
         /\ Cardinality(Range(rows)) = Len(rows)
         /\ Range(rows) = {rows[i] : i \in 1..Len(rows)}
<1>1. Len(rows) \in Nat /\ DOMAIN rows = 1..Len(rows) /\ \A i \in 1..Len(rows) : rows[i] \in S
  OBVIOUS
<1>2. Range(rows) = {rows[i] : i \in 1..Len(rows)}
  BY <1>1 DEF Range
<1>3. \A i, j \in 1..Len(rows) : rows[i] = rows[j] => i = j
  <2>1. \A i, j \in 1..Len(rows) : i < j => rows[i] # rows[j]
    BY <1>1, ListOrder DEF InOrder
  <2> QED
    BY <1>1, <2>1
<1>4. IsFiniteSet(1..Len(rows)) /\ Cardinality(1..Len(rows)) = Len(rows)
  <2>1. PICK l \in Nat : l = Len(rows)
    BY <1>1
  <2>2. IsFiniteSet(1..l) /\ Cardinality(1..l) = l
    BY FS_Interval
  <2> QED
    BY <2>1, <2>2, ZenonT(40)
<1>5. Renames(rows, 1..Len(rows), Range(rows))
  BY <1>2, <1>3 DEF Renames
<1>6. IsFiniteSet(Range(rows)) /\ Cardinality(Range(rows)) = Len(rows)
  BY <1>4, <1>5, CountOfImage
<1> QED
  BY <1>1, <1>2, <1>6

LEMMA WalkStarts ==
  ASSUME Books, NEW x
  PROVE  ReadSoFar(x, WalkStart, 0)
<1>1. Count(Listed(x)) \in Nat
  BY ListedIsSold, PlacesAre
<1>2. Len(<<>>) = 0 /\ <<>> \in Seq(Listed(x)) /\ PageSize * 0 = 0 /\ InOrder(<<>>)
  BY ListadoAssumption DEF InOrder
<1>3. IsKey(NoCursor) /\ Range(<<>>) = {}
  BY DEF IsKey, NoCursor, Range
<1>4. \A s \in Listed(x) : KeyBefore(NoCursor, Key(s))
  BY ListedIsSold, SaleKey
<1> QED
  BY <1>1, <1>2, <1>3, <1>4 DEF ReadSoFar, WalkStart

\* The rows of the next page.
Ahead(x, cursor) == {s \in Listed(x) : KeyBefore(cursor, Key(s))}

LEMMA NextPageIs ==
  ASSUME Books, NEW x, NEW cursor
  PROVE  LET m == IF PageSize < Count(Ahead(x, cursor)) THEN PageSize ELSE Count(Ahead(x, cursor)) IN
         /\ ListSalesPage(x, cursor, PageSize) = FirstRows(Ahead(x, cursor), m)
         /\ m \in Nat /\ Count(Ahead(x, cursor)) \in Nat /\ PageSize \in Nat \ {0}
<1> DEFINE S == Ahead(x, cursor)
           n == Count(S)
           m == IF PageSize < n THEN PageSize ELSE n
<1>1. S \subseteq sold
  BY ListedIsSold DEF Ahead
<1>2. PageSize \in Nat \ {0}
  BY ListadoAssumption
<1>3. ListSalesPage(x, cursor, PageSize) = FirstRows(S, Min({PageSize, n}))
  BY DEF ListSalesPage, FirstRows, Ahead, Behind
<1> HIDE DEF S
<1>4. n \in Nat
  BY <1>1, PlacesAre
<1> HIDE DEF n
<1>5. Min({PageSize, n}) = m
  <2>1. m \in {PageSize, n} /\ \A y \in {PageSize, n} : m <= y
    BY <1>2, <1>4
  <2>2. \A z \in {PageSize, n} : (\A y \in {PageSize, n} : z <= y) => z = m
    BY <1>2, <1>4
  <2> HIDE DEF m
  <2> QED
    BY <2>1, <2>2 DEF Min
<1> QED
  BY <1>2, <1>3, <1>4, <1>5 DEF S, n

\* The next page is the next rows.
LEMMA NextRows ==
  ASSUME Books, NEW x, NEW w, NEW i \in Nat, ReadSoFar(x, w, i), ~w.done
  PROVE  LET page == ListSalesPage(x, w.cursor, PageSize)
             rows == w.rows \o page
         IN /\ rows \in Seq(Listed(x)) /\ InOrder(rows)
            /\ Len(rows) = IF Count(Listed(x)) < PageSize * i + PageSize
                             THEN Count(Listed(x)) ELSE PageSize * i + PageSize
            /\ Len(page) \in Nat /\ page \in Seq(Listed(x))
            /\ page = <<>> => \A s \in Listed(x) : KeyBefore(w.cursor, Key(s)) <=> s \notin Range(rows)
            /\ page # <<>> => /\ page[Len(page)] \in Listed(x)
                              /\ \A s \in Listed(x) : Precedes(page[Len(page)], s) <=> s \notin Range(rows)
            /\ Len(page) < PageSize => Len(rows) = Count(Listed(x))
<1> DEFINE all == Listed(x)
           P == PageSize
           q == P * i
           n == Count(all)
           A == Range(w.rows)
           S == all \ A
           m == IF P < Count(S) THEN P ELSE Count(S)
           page == ListSalesPage(x, w.cursor, P)
           rows == w.rows \o page
           l == Len(w.rows)
<1>1. all \subseteq sold /\ S \subseteq sold /\ S \subseteq all
  BY ListedIsSold
<1>2. /\ w.rows \in Seq(all) /\ InOrder(w.rows) /\ l = IF n < q THEN n ELSE q
      /\ IsKey(w.cursor)
      /\ \A s \in all : KeyBefore(w.cursor, Key(s)) <=> s \notin A
  BY DEF ReadSoFar
<1>3. Ahead(x, w.cursor) = S
  BY <1>2 DEF Ahead
<1>4. page = FirstRows(S, m) /\ m \in Nat /\ Count(S) \in Nat /\ P \in Nat \ {0}
  BY <1>3, NextPageIs
<1>5. q \in Nat
  BY <1>4
<1>6. /\ A \subseteq all /\ IsFiniteSet(A) /\ Cardinality(A) = l
      /\ A = {w.rows[j] : j \in 1..l}
  <2> HIDE DEF all
  <2> QED
    BY <1>1, <1>2, RowsInOrder
<1> HIDE DEF q, n, all, A, P
<1>7. n = l + Count(S) /\ n \in Nat /\ l \in Nat
  <2>1. IsFiniteSet(all)
    BY <1>1, LiveFinite
  <2>2. Count(all) = Count(A) + Count(all \ A) /\ Count(all) \in Nat /\ Count(A) \in Nat
    <3>1. A \subseteq all
      BY <1>6
    <3> QED
      BY <2>1, <3>1, CountTwo
  <2> QED
    BY <1>6, <2>2 DEF Count, n
<1> HIDE DEF S
<1>8. m <= Count(S)
  BY <1>4
<1> HIDE DEF m
<1>9. /\ page \in Seq(S) /\ Len(page) = m /\ InOrder(page)
      /\ \A s \in S : \/ \E j \in 1..m : page[j] = s
                      \/ \A j \in 1..m : Precedes(page[j], s)
  BY <1>1, <1>4, <1>8, PageIs
<1> HIDE DEF page, l
<1>10. page \in Seq(all) /\ \A j \in 1..m : page[j] \in S
  BY <1>1, <1>9
<1>11. /\ rows \in Seq(all) /\ Len(rows) = l + m
       /\ \A j \in 1..(l + m) : rows[j] = IF j <= l THEN w.rows[j] ELSE page[j - l]
  BY <1>2, <1>9, <1>10, ConcatProperties, ZenonT(40) DEF l
<1> HIDE DEF rows
<1>12. \A a \in A, b \in S : Precedes(a, b)
  <2> SUFFICES ASSUME NEW a \in A, NEW b \in S
               PROVE  Precedes(a, b)
    OBVIOUS
  <2>1. a \in all /\ b \in all /\ b \notin A
    BY <1>1, <1>6 DEF S
  <2>2. IsKey(Key(a)) /\ IsKey(Key(b))
    BY <1>1, <2>1, SaleKey
  <2>3. ~KeyBefore(w.cursor, Key(a)) /\ KeyBefore(w.cursor, Key(b))
    BY <1>2, <2>1
  <2> QED
    BY <1>2, <2>2, <2>3, KeyOrder DEF Precedes
<1>13. \A j \in 1..l : w.rows[j] \in A
  BY <1>6
<1>14. InOrder(rows)
  <2>1. ASSUME NEW j \in 1..(l + m), NEW k \in 1..(l + m), j < k
        PROVE  Precedes(rows[j], rows[k])
    <3>1. CASE k <= l
      <4>1. j \in 1..l /\ k \in 1..l /\ rows[j] = w.rows[j] /\ rows[k] = w.rows[k]
        BY <1>4, <1>7, <1>11, <2>1, <3>1
      <4> QED
        BY <1>2, <2>1, <4>1 DEF InOrder, l
    <3>2. CASE j <= l /\ ~(k <= l)
      <4>1. j \in 1..l /\ k - l \in 1..m /\ rows[j] = w.rows[j] /\ rows[k] = page[k - l]
        BY <1>4, <1>7, <1>11, <2>1, <3>2
      <4> QED
        BY <1>10, <1>12, <1>13, <4>1
    <3>3. CASE ~(j <= l)
      <4>1. /\ j - l \in 1..m /\ k - l \in 1..m /\ j - l < k - l
            /\ rows[j] = page[j - l] /\ rows[k] = page[k - l]
        BY <1>4, <1>7, <1>11, <2>1, <3>3
      <4> QED
        BY <1>9, <4>1 DEF InOrder
    <3> QED
      BY <2>1, <3>1, <3>2, <3>3, <1>7, <1>4
  <2> QED
    BY <1>11, <2>1 DEF InOrder
<1>15. \A s : s \in Range(rows) <=> s \in A \/ \E j \in 1..m : s = page[j]
  <2>1. DOMAIN rows = 1..(l + m)
    BY <1>11
  <2>2. \A s : s \in Range(rows) <=> \E j \in 1..(l + m) : s = rows[j]
    BY <2>1 DEF Range
  <2>3. \A j \in 1..(l + m) : (j \in 1..l /\ rows[j] = w.rows[j]) \/ (j - l \in 1..m /\ rows[j] = page[j - l])
    BY <1>4, <1>7, <1>11
  <2>4. \A j \in 1..l : j \in 1..(l + m) /\ rows[j] = w.rows[j]
    BY <1>4, <1>7, <1>11
  <2>5. \A j \in 1..m : l + j \in 1..(l + m) /\ rows[l + j] = page[j]
    <3> SUFFICES ASSUME NEW j \in 1..m
                 PROVE  l + j \in 1..(l + m) /\ rows[l + j] = page[j]
      OBVIOUS
    <3>1. l + j \in 1..(l + m) /\ ~(l + j <= l) /\ (l + j) - l = j
      BY <1>4, <1>7
    <3> QED
      BY <1>11, <3>1
  <2>6. \A s : s \in A <=> \E j \in 1..l : s = w.rows[j]
    BY <1>6
  <2> QED
    BY <2>2, <2>3, <2>4, <2>5, <2>6
<1>16. Len(rows) = IF n < q + P THEN n ELSE q + P
  <2>1. PICK r \in Nat : r = Count(S)
    BY <1>4
  <2>2. m = IF P < r THEN P ELSE r
    BY <2>1 DEF m
  <2>3. n = l + r /\ l \in Nat /\ P \in Nat \ {0}
    BY <1>4, <1>7, <2>1
  <2>4. l = IF n < q THEN n ELSE q
    BY <1>2
  <2>5. Len(rows) = l + m
    BY <1>11
  <2> QED
    BY <1>5, <2>2, <2>3, <2>4, <2>5
<1>17. m < P => Len(rows) = n
  BY <1>4, <1>7, <1>11 DEF m
<1>18. page = <<>> => \A s \in all : KeyBefore(w.cursor, Key(s)) <=> s \notin Range(rows)
  <2>1. page = <<>> => m = 0
    BY <1>9
  <2> QED
    BY <1>2, <1>15, <2>1
<1>19. ASSUME page # <<>>
       PROVE  /\ page[m] \in all
              /\ \A s \in all : Precedes(page[m], s) <=> s \notin Range(rows)
  <2>1. m \in 1..m
    BY <1>4, <1>9, <1>19, EmptySeq
  <2>2. page[m] \in S /\ page[m] \in all /\ page[m] \in sold
    BY <1>1, <1>10, <2>1
  <2>3. ASSUME NEW s \in all
        PROVE  Precedes(page[m], s) <=> s \notin Range(rows)
    <3>1. s \in sold
      BY <1>1
    <3>2. CASE s \in A
      BY <1>12, <1>15, <2>2, <3>1, <3>2, ListOrder
    <3>3. CASE s \notin A /\ \E j \in 1..m : s = page[j]
      <4>1. PICK j \in 1..m : s = page[j]
        BY <3>3
      <4>2. j = m \/ Precedes(page[j], page[m])
        <5>1. j = m \/ j < m
          BY <1>4
        <5> QED
          BY <1>9, <2>1, <5>1 DEF InOrder
      <4>3. ~Precedes(page[m], s)
        BY <2>2, <3>1, <4>1, <4>2, ListOrder
      <4> QED
        BY <1>15, <3>3, <4>3
    <3>4. CASE s \notin A /\ ~ \E j \in 1..m : s = page[j]
      <4>1. s \in S
        BY <3>4 DEF S
      <4>2. Precedes(page[m], s)
        BY <1>9, <2>1, <3>4, <4>1
      <4> QED
        BY <1>15, <3>4, <4>2
    <3> QED
      BY <3>2, <3>3, <3>4
  <2> QED
    BY <2>2, <2>3
<1> QED
  BY <1>4, <1>9, <1>10, <1>11, <1>14, <1>16, <1>17, <1>18, <1>19 DEF all, P, q, n, page, rows

LEMMA ReadPageKeeps ==
  ASSUME Books, NEW x, NEW w, NEW i \in Nat, ReadSoFar(x, w, i)
  PROVE  ReadSoFar(x, ReadPage(x, w), i + 1)
<1> DEFINE n == Count(Listed(x))
           q == PageSize * i
           page == ListSalesPage(x, w.cursor, PageSize)
           rows == w.rows \o page
           cursor == IF page = <<>> THEN w.cursor ELSE CursorAfter(page)
<1>1. n \in Nat /\ PageSize \in Nat \ {0}
  BY ListedIsSold, PlacesAre, ListadoAssumption
<1>2. q \in Nat /\ PageSize * (i + 1) = q + PageSize
  BY <1>1
<1>3. CASE w.done
  <2>1. Len(w.rows) = n /\ Len(w.rows) = IF n < q THEN n ELSE q
    BY <1>3 DEF ReadSoFar
  <2> HIDE DEF n, q
  <2>2. Len(w.rows) = IF n < PageSize * (i + 1) THEN n ELSE PageSize * (i + 1)
    BY <1>1, <1>2, <2>1
  <2>3. ReadPage(x, w) = w
    BY <1>3 DEF ReadPage
  <2> QED
    BY <2>2, <2>3 DEF ReadSoFar, n
<1>4. CASE ~w.done
  <2>1. ReadPage(x, w) = [rows |-> rows, cursor |-> cursor, done |-> Len(page) < PageSize]
    BY <1>4 DEF ReadPage
  <2>2. /\ rows \in Seq(Listed(x)) /\ InOrder(rows)
        /\ Len(rows) = IF n < q + PageSize THEN n ELSE q + PageSize
        /\ page = <<>> => \A s \in Listed(x) : KeyBefore(w.cursor, Key(s)) <=> s \notin Range(rows)
        /\ page # <<>> => /\ page[Len(page)] \in Listed(x)
                          /\ \A s \in Listed(x) : Precedes(page[Len(page)], s) <=> s \notin Range(rows)
        /\ Len(page) < PageSize => Len(rows) = n
    BY <1>4, NextRows
  <2>3. page # <<>> => cursor = Key(page[Len(page)])
    BY DEF CursorAfter, Last
  <2>4. page = <<>> => cursor = w.cursor
    OBVIOUS
  <2>5. IsKey(w.cursor)
    BY DEF ReadSoFar
  <2> HIDE DEF page, rows, cursor, n, q
  <2>6. IsKey(cursor)
    BY <2>2, <2>3, <2>4, <2>5, ListedIsSold, SaleKey
  <2>7. \A s \in Listed(x) : KeyBefore(cursor, Key(s)) <=> s \notin Range(rows)
    BY <2>2, <2>3, <2>4 DEF Precedes
  <2>8. PICK v : v = ReadPage(x, w)
    OBVIOUS
  <2>9. v.rows = rows /\ v.cursor = cursor /\ (v.done => Len(page) < PageSize)
    <3> DEFINE d == Len(page) < PageSize
    <3>1. v = [rows |-> rows, cursor |-> cursor, done |-> d]
      BY <2>1, <2>8
    <3> HIDE DEF d
    <3>2. v.rows = rows /\ v.cursor = cursor /\ v.done = d
      BY <3>1
    <3>3. v.done => d
      BY <3>2, Zenon
    <3> QED
      BY <3>2, <3>3 DEF d
  <2>10. Len(rows) = IF n < PageSize * (i + 1) THEN n ELSE PageSize * (i + 1)
    BY <1>2, <2>2
  <2>11. ReadSoFar(x, v, i + 1)
    BY <2>2, <2>6, <2>7, <2>9, <2>10 DEF ReadSoFar, n
  <2> QED
    BY <2>8, <2>11
<1> QED
  BY <1>3, <1>4

IsWalk(g, x, k) == g = [i \in 0..k |-> IF i = 0 THEN WalkStart ELSE ReadPage(x, g[i - 1])]

\* There is such a walk, of any length.
LEMMA WalkExists ==
  ASSUME NEW x, NEW k \in Nat
  PROVE  \E g : IsWalk(g, x, k)
<1> DEFINE F == {n \in Nat : \E g : IsWalk(g, x, n)}
<1>1. 0 \in F
  <2> DEFINE g == [i \in 0..0 |-> WalkStart]
  <2>1. \A i \in 0..0 : i = 0
    OBVIOUS
  <2>2. g = [i \in 0..0 |-> IF i = 0 THEN WalkStart ELSE ReadPage(x, g[i - 1])]
    BY <2>1
  <2>3. IsWalk(g, x, 0)
    BY <2>2 DEF IsWalk
  <2> QED
    BY <2>3
<1>2. ASSUME NEW n \in 0..(k - 1), n \in F
      PROVE  n + 1 \in F
  <2>1. n \in Nat /\ n + 1 \in Nat
    OBVIOUS
  <2>2. PICK f : IsWalk(f, x, n)
    BY <1>2
  <2> DEFINE g == [i \in 0..(n + 1) |-> IF i = 0 THEN WalkStart ELSE ReadPage(x, f[i - 1])]
             h == [i \in 0..(n + 1) |-> IF i = 0 THEN WalkStart ELSE ReadPage(x, g[i - 1])]
  <2>3. \A i \in 0..n : f[i] = IF i = 0 THEN WalkStart ELSE ReadPage(x, f[i - 1])
    BY <2>2 DEF IsWalk
  <2>4. \A i \in 0..(n + 1) : g[i] = IF i = 0 THEN WalkStart ELSE ReadPage(x, f[i - 1])
    OBVIOUS
  <2>5. \A i \in 0..n : i \in 0..(n + 1)
    BY <2>1
  <2>6. \A i \in 0..n : g[i] = f[i]
    <3> HIDE DEF g
    <3> QED
      BY <2>3, <2>4, <2>5
  <2>7. \A i \in 0..(n + 1) : i # 0 => i - 1 \in 0..n
    BY <2>1
  <2>8. \A i \in 0..(n + 1) : h[i] = g[i]
    <3>1. \A i \in 0..(n + 1) : h[i] = IF i = 0 THEN WalkStart ELSE ReadPage(x, g[i - 1])
      OBVIOUS
    <3> HIDE DEF g, h
    <3> QED
      BY <2>4, <2>6, <2>7, <3>1
  <2>9. g = h
    <3>1. /\ g = [i \in 0..(n + 1) |-> g[i]] /\ h = [i \in 0..(n + 1) |-> h[i]]
      OBVIOUS
    <3> HIDE DEF g, h
    <3> QED
      BY <2>8, <3>1
  <2>10. IsWalk(g, x, n + 1)
    <3> HIDE DEF g
    <3> QED
      BY <2>9 DEF IsWalk
  <2> QED
    BY <2>1, <2>10
<1> HIDE DEF F
<1>3. k \in F
  <2>1. \A i \in 0..(k - 1) : i \in F => i + 1 \in F
    BY <1>2
  <2>2. \A i \in 0..k : i \in F
    BY <1>1, <2>1, UpTo
  <2>3. k \in 0..k
    OBVIOUS
  <2> QED
    BY <2>2, <2>3
<1> QED
  BY <1>3 DEF F

\* The walk of an export, page by page, reads the list in order.
LEMMA WalkIs ==
  ASSUME Books, NEW x, NEW k \in Nat
  PROVE  \E w : ExportWalk(x, k) = w.rows /\ ReadSoFar(x, w, k)
<1>1. PICK g : g = CHOOSE f : IsWalk(f, x, k)
  OBVIOUS
<1>2. IsWalk(g, x, k)
  BY <1>1, WalkExists
<1>3. ExportWalk(x, k) = (CHOOSE f : IsWalk(f, x, k))[k].rows
  BY DEF ExportWalk, IsWalk, WalkStart
<1>4. \A i \in 0..k : g[i] = IF i = 0 THEN WalkStart ELSE ReadPage(x, g[i - 1])
  BY <1>2 DEF IsWalk
<1> DEFINE F == {i \in Nat : ReadSoFar(x, g[i], i)}
<1>5. 0 \in F
  <2>1. g[0] = WalkStart
    BY <1>4
  <2> QED
    BY <2>1, WalkStarts
<1>6. ASSUME NEW i \in 0..(k - 1), i \in F
      PROVE  i + 1 \in F
  <2>1. i \in Nat /\ i + 1 \in 0..k /\ i + 1 \in Nat /\ i + 1 # 0 /\ (i + 1) - 1 = i
    OBVIOUS
  <2>2. g[i + 1] = ReadPage(x, g[i])
    BY <1>4, <2>1
  <2>3. ReadSoFar(x, ReadPage(x, g[i]), i + 1)
    BY <1>6, <2>1, ReadPageKeeps
  <2> QED
    BY <2>1, <2>2, <2>3
<1> HIDE DEF F
<1>7. k \in F
  <2>1. \A i \in 0..(k - 1) : i \in F => i + 1 \in F
    BY <1>6
  <2>2. \A i \in 0..k : i \in F
    BY <1>5, <2>1, UpTo
  <2>3. k \in 0..k
    OBVIOUS
  <2> QED
    BY <2>2, <2>3
<1>8. ReadSoFar(x, g[k], k)
  BY <1>7 DEF F
<1>9. ExportWalk(x, k) = g[k].rows
  BY <1>1, <1>3
<1> QED
  BY <1>8, <1>9

LEMMA HeadingsIsWeight ==
  ASSUME NEW z, IsFiniteSet(DOMAIN SalesFunctionTotals(z)), NEW w, \A x \in DOMAIN SalesFunctionTotals(z) : w[x] \in Int /\ w[x] = SalesFunctionTotals(z)[x].sales
  PROVE  SumOver(DOMAIN SalesFunctionTotals(z), LAMBDA f : SalesFunctionTotals(z)[f].sales) = Weight(w, DOMAIN SalesFunctionTotals(z))
<1> DEFINE Choice(T) == CHOOSE x \in T : TRUE
           S == DOMAIN SalesFunctionTotals(z)
           Eq(g) == g = [T \in SUBSET S |->
                           IF T = {} THEN 0 ELSE SalesFunctionTotals(z)[Choice(T)].sales + g[T \ {Choice(T)}]]
<1>1. SumOver(DOMAIN SalesFunctionTotals(z), LAMBDA f : SalesFunctionTotals(z)[f].sales) = (CHOOSE g : Eq(g))[S]
  BY DEF SumOver, MapThenSumSet, MapThenFoldSet
<1>2. ASSUME NEW g
      PROVE  Eq(g) <=> IsSum(g, w, S)
  <2>1. \A T \in SUBSET S : T # {} => SalesFunctionTotals(z)[Choice(T)].sales = w[Choice(T)]
    OBVIOUS
  <2> HIDE DEF Choice
  <2> QED
    BY <2>1 DEF IsSum, Choice
<1> HIDE DEF Eq
<1> QED
  BY <1>1, <1>2, ChosenWeight

LEMMA HeadingsPaidIsWeight ==
  ASSUME NEW z, IsFiniteSet(DOMAIN SalesFunctionTotals(z)), NEW w, \A x \in DOMAIN SalesFunctionTotals(z) : w[x] \in Int /\ w[x] = SalesFunctionTotals(z)[x].money.paid
  PROVE  SumOver(DOMAIN SalesFunctionTotals(z), LAMBDA f : SalesFunctionTotals(z)[f].money.paid) = Weight(w, DOMAIN SalesFunctionTotals(z))
<1> DEFINE Choice(T) == CHOOSE x \in T : TRUE
           S == DOMAIN SalesFunctionTotals(z)
           Eq(g) == g = [T \in SUBSET S |->
                           IF T = {} THEN 0 ELSE SalesFunctionTotals(z)[Choice(T)].money.paid + g[T \ {Choice(T)}]]
<1>1. SumOver(DOMAIN SalesFunctionTotals(z), LAMBDA f : SalesFunctionTotals(z)[f].money.paid) = (CHOOSE g : Eq(g))[S]
  BY DEF SumOver, MapThenSumSet, MapThenFoldSet
<1>2. ASSUME NEW g
      PROVE  Eq(g) <=> IsSum(g, w, S)
  <2>1. \A T \in SUBSET S : T # {} => SalesFunctionTotals(z)[Choice(T)].money.paid = w[Choice(T)]
    OBVIOUS
  <2> HIDE DEF Choice
  <2> QED
    BY <2>1 DEF IsSum, Choice
<1> HIDE DEF Eq
<1> QED
  BY <1>1, <1>2, ChosenWeight

LEMMA HeadingsTicketsIsWeight ==
  ASSUME NEW z, IsFiniteSet(DOMAIN SalesFunctionTotals(z)), NEW w, \A x \in DOMAIN SalesFunctionTotals(z) : w[x] \in Int /\ w[x] = SalesFunctionTotals(z)[x].money.tickets
  PROVE  SumOver(DOMAIN SalesFunctionTotals(z), LAMBDA f : SalesFunctionTotals(z)[f].money.tickets) = Weight(w, DOMAIN SalesFunctionTotals(z))
<1> DEFINE Choice(T) == CHOOSE x \in T : TRUE
           S == DOMAIN SalesFunctionTotals(z)
           Eq(g) == g = [T \in SUBSET S |->
                           IF T = {} THEN 0 ELSE SalesFunctionTotals(z)[Choice(T)].money.tickets + g[T \ {Choice(T)}]]
<1>1. SumOver(DOMAIN SalesFunctionTotals(z), LAMBDA f : SalesFunctionTotals(z)[f].money.tickets) = (CHOOSE g : Eq(g))[S]
  BY DEF SumOver, MapThenSumSet, MapThenFoldSet
<1>2. ASSUME NEW g
      PROVE  Eq(g) <=> IsSum(g, w, S)
  <2>1. \A T \in SUBSET S : T # {} => SalesFunctionTotals(z)[Choice(T)].money.tickets = w[Choice(T)]
    OBVIOUS
  <2> HIDE DEF Choice
  <2> QED
    BY <2>1 DEF IsSum, Choice
<1> HIDE DEF Eq
<1> QED
  BY <1>1, <1>2, ChosenWeight

LEMMA MenuIsWeight ==
  ASSUME NEW se, NEW fn, IsFiniteSet(DOMAIN SellersWithSales(se, fn)), NEW w, \A x \in DOMAIN SellersWithSales(se, fn) : w[x] \in Int /\ w[x] = SellersWithSales(se, fn)[x]
  PROVE  SumOver(DOMAIN SellersWithSales(se, fn), LAMBDA u : SellersWithSales(se, fn)[u]) = Weight(w, DOMAIN SellersWithSales(se, fn))
<1> DEFINE Choice(T) == CHOOSE x \in T : TRUE
           S == DOMAIN SellersWithSales(se, fn)
           Eq(g) == g = [T \in SUBSET S |->
                           IF T = {} THEN 0 ELSE SellersWithSales(se, fn)[Choice(T)] + g[T \ {Choice(T)}]]
<1>1. SumOver(DOMAIN SellersWithSales(se, fn), LAMBDA u : SellersWithSales(se, fn)[u]) = (CHOOSE g : Eq(g))[S]
  BY DEF SumOver, MapThenSumSet, MapThenFoldSet
<1>2. ASSUME NEW g
      PROVE  Eq(g) <=> IsSum(g, w, S)
  <2>1. \A T \in SUBSET S : T # {} => SellersWithSales(se, fn)[Choice(T)] = w[Choice(T)]
    OBVIOUS
  <2> HIDE DEF Choice
  <2> QED
    BY <2>1 DEF IsSum, Choice
<1> HIDE DEF Eq
<1> QED
  BY <1>1, <1>2, ChosenWeight

\* The parts of some sales, by what each of them is of.
GroupedBy(P, K, S, of) ==
    /\ K = {of[s] : s \in S}
    /\ \A a \in K : P[a] = {s \in S : of[s] = a}

LEMMA PartsBy ==
  ASSUME Books, NEW S, S \subseteq sold, NEW of, NEW N, IsFiniteSet(N), \A s \in S : of[s] \in N,
         NEW K, NEW P, GroupedBy(P, K, S, of)
  PROVE  Splits(P, K, S) /\ IsFiniteSet(K) /\ IsFiniteSet(S)
<1>1. IsFiniteSet(K)
  <2>1. K \subseteq N
    BY DEF GroupedBy
  <2> QED
    BY <2>1, FS_Subset
<1>2. \A s \in S : of[s] \in K /\ s \in P[of[s]]
  BY DEF GroupedBy
<1>3. \A a \in K : P[a] \subseteq S /\ \A s \in P[a] : of[s] = a
  BY DEF GroupedBy
<1>4. IsFiniteSet(S)
  BY LiveFinite
<1> QED
  BY <1>1, <1>2, <1>3, <1>4 DEF Splits

\* The headings of the functions add up to the strip above the rows.
HeadingsAdd(x) ==
    LET totals == SalesFunctionTotals(x)
        filtered == SalesFilteredSummary(x)
    IN /\ filtered.total = SumOver(DOMAIN totals, LAMBDA f : totals[f].sales)
       /\ filtered.money.paid = SumOver(DOMAIN totals, LAMBDA f : totals[f].money.paid)
       /\ filtered.money.tickets = SumOver(DOMAIN totals, LAMBDA f : totals[f].money.tickets)

LEMMA HeadingsAddUp == ASSUME Books, NEW x PROVE HeadingsAdd(x)
<1> DEFINE S == Listed(x)
           C == S \cap Charged
           K == {FunctionOf[s] : s \in S}
           P == [f \in K |-> S \cap OfFunction(f)]
           Q == [f \in K |-> P[f] \cap Charged]
           n == [f \in K |-> Count(P[f])]
           p == [f \in K |-> PaidOf(Q[f])]
           q == [f \in K |-> QuantityOf(Q[f])]
<1>1. S \subseteq sold /\ C \subseteq S /\ C \subseteq sold
  BY ListedIsSold
<1>2. \A f \in K : P[f] = {s \in S : FunctionOf[s] = f}
  BY <1>1 DEF OfFunction
<1>3. \A f \in K : Q[f] = P[f] \cap Charged /\ Q[f] \subseteq sold
  BY <1>1
<1>4. \A f \in K : n[f] = Count(P[f]) /\ p[f] = PaidOf(Q[f]) /\ q[f] = QuantityOf(Q[f])
  OBVIOUS
<1>5. /\ SalesFilteredSummary(x).total = Count(S)
      /\ SalesFilteredSummary(x).money.paid = PaidOf(C)
      /\ SalesFilteredSummary(x).money.tickets = QuantityOf(C)
  BY DEF SalesFilteredSummary, Money
<1>6. /\ DOMAIN SalesFunctionTotals(x) = K
      /\ \A f \in K : /\ SalesFunctionTotals(x)[f].sales = n[f]
                      /\ SalesFunctionTotals(x)[f].money.paid = p[f]
                      /\ SalesFunctionTotals(x)[f].money.tickets = q[f]
  BY DEF SalesFunctionTotals, Money
<1>7. \A s \in S : FunctionOf[s] \in Functions
  <2>1. \A s \in S : s \in Sales
    BY <1>1 DEF Books, TypeOK
  <2> QED
    BY <2>1, ConstantFacts
<1>8. \A s \in C : s \in S
  OBVIOUS
<1>9. K = {FunctionOf[s] : s \in S}
  OBVIOUS
<1>10. C = S \cap Charged
  OBVIOUS
<1> HIDE DEF S, C, K, P, Q, n, p, q
<1>11. IsFiniteSet(Functions)
  BY ConstantFacts
<1>12. Splits(P, K, S) /\ IsFiniteSet(K) /\ IsFiniteSet(S)
  <2>1. GroupedBy(P, K, S, FunctionOf)
    BY <1>2, <1>9 DEF GroupedBy
  <2> QED
    BY <1>1, <1>7, <1>11, <2>1, PartsBy
<1>13. Splits(Q, K, C)
  BY <1>3, <1>10, <1>12 DEF Splits
<1>14. \A s \in C : PaidW[s] \in Int /\ QuantityW[s] \in Int
  <2>1. \A s \in C : s \in Sales
    BY <1>1 DEF Books, TypeOK
  <2> QED
    BY <2>1, PaidType, QuantityType DEF PaidW, QuantityW
<1>15. \A T : T \subseteq sold => /\ IsFiniteSet(T) /\ PaidOf(T) = Weight(PaidW, T) /\ PaidOf(T) \in Int
                                 /\ QuantityOf(T) = Weight(QuantityW, T) /\ QuantityOf(T) \in Int
  <2> SUFFICES ASSUME NEW T, T \subseteq sold
               PROVE  /\ IsFiniteSet(T) /\ PaidOf(T) = Weight(PaidW, T) /\ PaidOf(T) \in Int
                      /\ QuantityOf(T) = Weight(QuantityW, T) /\ QuantityOf(T) \in Int
    OBVIOUS
  <2>1. IsFiniteSet(T) /\ T \subseteq Sales /\ PaidOf(T) = Weight(PaidW, T) /\ PaidOf(T) \in Int
    BY MoneyOf
  <2>2. \A s \in T : QuantityW[s] \in Int /\ QuantityW[s] = Quantity(s)
    BY <2>1, QuantityType DEF QuantityW
  <2>3. QuantityOf(T) = Weight(QuantityW, T) /\ Weight(QuantityW, T) \in Int
    BY <2>1, <2>2, QuantityOfIsWeight, WeightType
  <2> QED
    BY <2>1, <2>3
<1>16. \A f \in K : p[f] = Weight(PaidW, Q[f]) /\ q[f] = Weight(QuantityW, Q[f]) /\ p[f] \in Int /\ q[f] \in Int
  BY <1>3, <1>4, <1>15
<1>17. IsFiniteSet(C)
  BY <1>1, <1>15
<1>18. Weight(p, K) = PaidOf(C)
  <2>1. Weight(p, K) = Weight(PaidW, C)
    BY <1>12, <1>13, <1>14, <1>16, <1>17, WeightOfParts
  <2> QED
    BY <2>1, <1>1, <1>15
<1>19. Weight(q, K) = QuantityOf(C)
  <2>1. Weight(q, K) = Weight(QuantityW, C)
    BY <1>12, <1>13, <1>14, <1>16, <1>17, WeightOfParts
  <2> QED
    BY <2>1, <1>1, <1>15
<1>20. \A f \in K : n[f] = Cardinality(P[f]) /\ n[f] \in Int
  <2>1. \A f \in K : IsFiniteSet(P[f])
    BY <1>12, FS_Subset DEF Splits
  <2> QED
    BY <1>4, <2>1, FS_CardinalityType DEF Count
<1>21. Weight(n, K) = Count(S)
  <2>1. Weight(n, K) = Cardinality(S)
    BY <1>12, <1>20, CountOfParts
  <2> QED
    BY <2>1 DEF Count
<1> DEFINE D == DOMAIN SalesFunctionTotals(x)
<1>22. D = K
  BY <1>6
<1>23. IsFiniteSet(D) /\ \A f \in D : /\ n[f] \in Int /\ n[f] = SalesFunctionTotals(x)[f].sales
                                      /\ p[f] \in Int /\ p[f] = SalesFunctionTotals(x)[f].money.paid
                                      /\ q[f] \in Int /\ q[f] = SalesFunctionTotals(x)[f].money.tickets
  BY <1>6, <1>12, <1>16, <1>20, <1>22
<1>24. SumOver(D, LAMBDA f : SalesFunctionTotals(x)[f].sales) = Weight(n, D)
  BY <1>23, HeadingsIsWeight DEF D
<1>25. SumOver(D, LAMBDA f : SalesFunctionTotals(x)[f].money.paid) = Weight(p, D)
  BY <1>23, HeadingsPaidIsWeight DEF D
<1>26. SumOver(D, LAMBDA f : SalesFunctionTotals(x)[f].money.tickets) = Weight(q, D)
  BY <1>23, HeadingsTicketsIsWeight DEF D
<1> QED
  BY <1>5, <1>18, <1>19, <1>21, <1>22, <1>24, <1>25, <1>26 DEF D, HeadingsAdd

\* The menu of sellers adds up to the sales that are asked for.
MenuAdds(x) ==
    LET menu == SellersWithSales(x.season, x.function) IN
    SalesSummary(x).total = SumOver(DOMAIN menu, LAMBDA u : menu[u])

LEMMA MenuAddsUp == ASSUME Books, NEW x, x.seller = NoFilter, x.q = Sales PROVE MenuAdds(x)
<1> DEFINE se == x.season
           fn == x.function
           S == Scope(x)
           K == {SellerOf[s] : s \in S}
           P == [u \in K |-> S \cap By(u)]
           v == [u \in K |-> Count(P[u])]
           D == DOMAIN SellersWithSales(se, fn)
<1>1. S \subseteq sold
  BY DEF Scope
<1>2. Scope([season |-> se, seller |-> NoFilter, function |-> fn, q |-> Sales]) = S
  BY DEF Scope
<1>3. D = K /\ \A u \in K : SellersWithSales(se, fn)[u] = Count(P[u])
  BY <1>2 DEF SellersWithSales
<1>4. \A u \in K : v[u] = Count(P[u])
  OBVIOUS
<1>20. \A u \in K : P[u] = {s \in S : SellerOf[s] = u}
  BY <1>1 DEF By
<1>5. \A s \in S : SellerOf[s] \in Users
  <2>1. \A s \in S : s \in Sales
    BY <1>1 DEF Books, TypeOK
  <2> QED
    BY <2>1, ConstantFacts
<1>6. K = {SellerOf[s] : s \in S}
  OBVIOUS
<1>7. SalesSummary(x).total = Count(S)
  BY DEF SalesSummary
<1> HIDE DEF S, K, P, v, D, se, fn
<1>8. IsFiniteSet(Users)
  BY ConstantFacts
<1>9. Splits(P, K, S) /\ IsFiniteSet(K) /\ IsFiniteSet(S)
  <2>1. GroupedBy(P, K, S, SellerOf)
    BY <1>6, <1>20 DEF GroupedBy
  <2> QED
    BY <1>1, <1>5, <1>8, <2>1, PartsBy
<1>10. \A u \in K : v[u] = Cardinality(P[u]) /\ v[u] \in Int
  <2>1. \A u \in K : IsFiniteSet(P[u])
    BY <1>9, FS_Subset DEF Splits
  <2> QED
    BY <1>4, <2>1, FS_CardinalityType DEF Count
<1>11. Weight(v, K) = Count(S)
  <2>1. Weight(v, K) = Cardinality(S)
    BY <1>9, <1>10, CountOfParts
  <2> QED
    BY <2>1 DEF Count
<1>12. SumOver(D, LAMBDA u : SellersWithSales(se, fn)[u]) = Weight(v, D)
  <2>1. IsFiniteSet(D) /\ \A u \in D : v[u] \in Int /\ v[u] = SellersWithSales(se, fn)[u]
    BY <1>3, <1>4, <1>9, <1>10
  <2> QED
    BY <2>1, MenuIsWeight DEF D
<1> QED
  BY <1>3, <1>7, <1>11, <1>12 DEF D, se, fn, MenuAdds

LEMMA CountRest ==
  ASSUME NEW S, IsFiniteSet(S), NEW A, A \subseteq S
  PROVE  /\ Count(S) = Count(A) + Count(S \ A) /\ IsFiniteSet(S \ A)
         /\ Count(A) \in Nat /\ Count(S \ A) \in Nat
  BY CountTwo

\* Every sale has the status its chip says, and no other; so the counts of the chips
\* and the cancelled sales add up to the scope.
LEMMA ChipsSplit ==
  ASSUME Books, NEW x
  PROVE  /\ \A s \in Scope(x) : {st \in Statuses : HasStatus(s, st)} = {Chip(s)}
         /\ SalesSummary(x).total = SalesSummary(x).pendingCount + SalesSummary(x).paidCount
                                    + SalesSummary(x).compCount + Count(Scope(x) \cap voided)
<1> DEFINE S == Scope(x)
           A == {s \in S : HasStatus(s, "pending")}
           B == {s \in S : HasStatus(s, "paid")}
           C == {s \in S : HasStatus(s, "comp")}
           V == S \cap voided
<1>1. /\ SalesSummary(x).total = Count(S) /\ SalesSummary(x).pendingCount = Count(A)
      /\ SalesSummary(x).paidCount = Count(B) /\ SalesSummary(x).compCount = Count(C)
  BY DEF SalesSummary
<1>2. \A s : /\ HasStatus(s, "pending") <=> s \notin Comps /\ ~IsPaid(s) /\ s \notin voided
             /\ HasStatus(s, "paid") <=> s \notin Comps /\ IsPaid(s) /\ s \notin voided
             /\ HasStatus(s, "comp") <=> s \in Comps /\ s \notin voided
             /\ HasStatus(s, "void") <=> s \in voided
  BY DEF HasStatus
<1>3. \A s : /\ Chip(s) = "void" <=> s \in voided
             /\ Chip(s) = "comp" <=> s \notin voided /\ s \in Comps
             /\ Chip(s) = "paid" <=> s \notin voided /\ s \notin Comps /\ IsPaid(s)
             /\ Chip(s) = "pending" <=> s \notin voided /\ s \notin Comps /\ ~IsPaid(s)
             /\ Chip(s) \in Statuses
  <2> TAKE s
  <2>1. CASE s \in voided
    BY <2>1 DEF Chip, Statuses
  <2>2. CASE s \notin voided /\ s \in Comps
    BY <2>2 DEF Chip, Statuses
  <2>3. CASE s \notin voided /\ s \notin Comps /\ IsPaid(s)
    BY <2>3 DEF Chip, Statuses
  <2>4. CASE s \notin voided /\ s \notin Comps /\ ~IsPaid(s)
    BY <2>4 DEF Chip, Statuses
  <2> QED
    BY <2>1, <2>2, <2>3, <2>4
<1>4. \A s : \A st \in Statuses : HasStatus(s, st) <=> st = Chip(s)
  BY <1>2, <1>3 DEF Statuses
<1>5. \A s \in S : {st \in Statuses : HasStatus(s, st)} = {Chip(s)}
  BY <1>3, <1>4
<1> DEFINE rest == S \ A
           gifts == rest \ B
<1>6. /\ A \subseteq S /\ B \subseteq rest /\ C \subseteq gifts
      /\ rest = S \ A /\ gifts = rest \ B /\ V = gifts \ C
  BY <1>2
<1>7. IsFiniteSet(S)
  <2>1. S \subseteq sold
    BY DEF Scope
  <2> HIDE DEF S
  <2> QED
    BY <2>1, LiveFinite
<1> HIDE DEF S, A, B, C, V, rest, gifts
<1>8. Count(S) = Count(A) + Count(rest) /\ IsFiniteSet(rest) /\ Count(A) \in Nat
  BY <1>6, <1>7, CountRest
<1>9. Count(rest) = Count(B) + Count(gifts) /\ IsFiniteSet(gifts) /\ Count(B) \in Nat
  <2>1. /\ Count(rest) = Count(B) + Count(rest \ B) /\ Count(B) \in Nat
        /\ IsFiniteSet(rest \ B)
    BY <1>6, <1>8, CountRest
  <2> QED
    BY <1>6, <2>1
<1>10. Count(gifts) = Count(C) + Count(V) /\ Count(C) \in Nat /\ Count(V) \in Nat
  <2>1. /\ Count(gifts) = Count(C) + Count(gifts \ C) /\ Count(C) \in Nat
        /\ Count(gifts \ C) \in Nat
    BY <1>6, <1>9, CountRest
  <2> QED
    BY <1>6, <2>1
<1>11. Count(S) = Count(A) + Count(B) + Count(C) + Count(V)
  BY <1>8, <1>9, <1>10
<1> QED
  BY <1>1, <1>5, <1>11 DEF S, V

\* The first k pages, one after another.
LEMMA WalkReads ==
  ASSUME Books, NEW x, NEW k \in Nat
  PROVE  LET walk == ExportWalk(x, k) IN
         /\ NoDuplicates(walk) /\ Range(walk) \subseteq Listed(x) /\ IsFiniteSet(Range(walk))
         /\ Len(walk) = Min({Count(Listed(x)), PageSize * k})
         /\ Len(walk) = IF Count(Listed(x)) < PageSize * k THEN Count(Listed(x)) ELSE PageSize * k
         /\ \A i, j \in DOMAIN walk : i < j => KeyBefore(Key(walk[i]), Key(walk[j]))
<1> DEFINE S == Listed(x)
           n == Count(S)
           q == PageSize * k
<1>1. PICK w : ExportWalk(x, k) = w.rows /\ ReadSoFar(x, w, k)
  BY WalkIs
<1>2. PICK rows : rows = w.rows
  OBVIOUS
<1>3. rows \in Seq(S) /\ InOrder(rows) /\ Len(rows) = IF n < q THEN n ELSE q
  BY <1>1, <1>2 DEF ReadSoFar
<1>4. S \subseteq sold
  BY ListedIsSold
<1> HIDE DEF S
<1>5. n \in Nat
  BY <1>4, PlacesAre
<1>6. q \in Nat
  BY ListadoAssumption
<1>7. Range(rows) \subseteq S /\ IsFiniteSet(Range(rows)) /\ Cardinality(Range(rows)) = Len(rows)
  BY <1>3, <1>4, RowsInOrder
<1>8. \A i, j \in DOMAIN rows : i < j => KeyBefore(Key(rows[i]), Key(rows[j]))
  <2>1. DOMAIN rows = 1..Len(rows)
    BY <1>3
  <2> QED
    BY <1>3, <2>1 DEF InOrder, Precedes
<1> HIDE DEF n, q
<1>9. Min({n, q}) = IF n < q THEN n ELSE q
  <2> DEFINE m == IF n < q THEN n ELSE q
  <2>1. m \in {n, q} /\ \A y \in {n, q} : m <= y
    BY <1>5, <1>6
  <2>2. \A z \in {n, q} : (\A y \in {n, q} : z <= y) => z = m
    BY <1>5, <1>6
  <2> HIDE DEF m
  <2>3. Min({n, q}) = m
    BY <2>1, <2>2 DEF Min
  <2> QED
    BY <2>3 DEF m
<1>10. ExportWalk(x, k) = rows
  BY <1>1, <1>2
<1> QED
  BY <1>3, <1>7, <1>8, <1>9, <1>10 DEF S, n, q, NoDuplicates

\* An export that may read as many pages as the list has leaves no row out.
LEMMA ExportIsWhole ==
  ASSUME Books, NEW x, Count(Listed(x)) <= PageSize * MaxPages, NEW ids
  PROVE  Export(x, ids) = IF ids = {} THEN Listed(x) ELSE Listed(x) \cap ids
<1> DEFINE S == Listed(x)
           R == Range(ExportWalk(x, MaxPages))
           q == PageSize * MaxPages
<1>1. S \subseteq sold
  BY ListedIsSold
<1>2. MaxPages \in Nat /\ q \in Nat
  BY ListadoAssumption
<1>3. /\ R \subseteq S /\ IsFiniteSet(R)
      /\ Cardinality(R) = IF Count(S) < q THEN Count(S) ELSE q
  BY <1>2, WalkReads DEF NoDuplicates
<1>4. Export(x, ids) = {s \in R : ids = {} \/ s \in ids}
  BY DEF Export
<1>5. Count(S) <= q
  OBVIOUS
<1> HIDE DEF S, R, q
<1>6. IsFiniteSet(S) /\ Count(S) \in Nat
  BY <1>1, PlacesAre
<1>7. Cardinality(R) = Cardinality(S)
  BY <1>2, <1>3, <1>5, <1>6 DEF Count
<1>8. R = S
  <2>1. R \in SUBSET S
    BY <1>3
  <2> QED
    BY <1>6, <1>7, <2>1, FS_Subset
<1> QED
  BY <1>4, <1>8 DEF S

LEMMA ListOf ==
  ASSUME Books, NEW x
  PROVE  WholeList(x)
<1>1. \A k \in 0..MaxPages :
        /\ NoDuplicates(ExportWalk(x, k)) /\ Range(ExportWalk(x, k)) \subseteq Listed(x)
        /\ Len(ExportWalk(x, k)) = Min({Count(Listed(x)), PageSize * k})
        /\ \A i, j \in DOMAIN ExportWalk(x, k) :
             i < j => KeyBefore(Key(ExportWalk(x, k)[i]), Key(ExportWalk(x, k)[j]))
  <2>1. \A k \in 0..MaxPages : k \in Nat
    OBVIOUS
  <2> QED
    BY <2>1, WalkReads
<1>2. Count(Listed(x)) <= PageSize * MaxPages =>
        /\ Export(x, {}) = Listed(x)
        /\ Addressed # {} => Export(x, Addressed) = Listed(x) \cap Addressed
  BY ExportIsWhole
<1>3. /\ \A s \in Scope(x) : {st \in Statuses : HasStatus(s, st)} = {Chip(s)}
      /\ SalesSummary(x).total = SalesSummary(x).pendingCount + SalesSummary(x).paidCount
                                 + SalesSummary(x).compCount + Count(Scope(x) \cap voided)
  BY ChipsSplit
<1>4. HeadingsAdd(x)
  BY HeadingsAddUp
<1>5. x.seller = NoFilter /\ x.q = Sales => MenuAdds(x)
  BY MenuAddsUp
<1> QED
  BY <1>1, <1>2, <1>3, <1>4, <1>5, Zenon DEF WholeList, HeadingsAdd, MenuAdds

\* Whoever asks for whatever filter: the pages, one after another, are the rows of it,
\* each once and in order; the export writes them all up to the pages it reads; the
\* chips split the scope, and the strip, the headings and the menu add up.
THEOREM ListIsWholeCorrect == Spec => []ListIsWhole
<1>1. Books => ListIsWhole
  <2>1. Books => \A x : WholeList(x)
    BY ListOf
  <2> QED
    BY <2>1 DEF ListIsWhole
<1> QED
  BY <1>1, BooksCorrect, PTL
=============================================================================
