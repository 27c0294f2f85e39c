------------------------ MODULE ForwardSchedulerProofs ------------------------
(* Proofs about the scheduler of one node, for any neighbours, blocks, lists   *)
(* of requests, durations and limits.                                          *)
EXTENDS ForwardScheduler, ListsProofs, FiniteSetTheorems

-----------------------------------------------------------------------------
(* Lists with one request per block *)

OnePer(list) ==
  \A j, k \in DOMAIN list : list[j].block = list[k].block => j = k

Singles == {list \in Seq(Desc) : OnePer(list)}

\* What is filtered.
LEMMA OnlyOfList ==
  ASSUME NEW list \in Singles, NEW S
  PROVE  Only(list, S) \in Singles /\ ToSet(Only(list, S)) = ToSet(list) \cap S
<1> DEFINE s == Only(list, S)
<1>1. list \in Seq(Desc) /\ OnePer(list)
  BY DEF Singles
<1>2. s \in Seq(Desc) /\ Range(s) = Range(list) \cap S
  BY <1>1, OnlyKeeps
<1>3. PICK at : Picks(at, Len(list), list, S, s)
  BY <1>1, OnlyPicks
<1> HIDE DEF s
<1>4. PICK m \in Nat, n \in Nat : m = Len(s) /\ n = Len(list)
  BY <1>1, <1>2
<1>5. DOMAIN s = 1..m /\ DOMAIN list = 1..n
  BY <1>1, <1>2, <1>4
<1>6. /\ at \in [1..m -> 1..n]
      /\ \A j, k \in 1..m : j < k => at[j] < at[k]
      /\ \A k \in 1..m : s[k] = list[at[k]]
  BY <1>3, <1>4 DEF Picks
<1>7. ASSUME NEW j \in 1..m, NEW k \in 1..m, s[j].block = s[k].block PROVE j = k
  <2>1. at[j] \in 1..n /\ at[k] \in 1..n
    BY <1>6
  <2>2. at[j] = at[k]
    BY <1>1, <1>5, <1>6, <1>7, <2>1 DEF OnePer
  <2>3. ~(j < k) /\ ~(k < j)
    BY <1>6, <2>1, <2>2
  <2> QED BY <2>3
<1>8. s \in Singles
  BY <1>2, <1>5, <1>7 DEF Singles, OnePer
<1>9. ToSet(s) = ToSet(list) \cap S
  BY <1>2 DEF ToSet, Range
<1> QED BY <1>8, <1>9 DEF s

\* A request at the end of others for other blocks.
LEMMA AtEnd ==
  ASSUME NEW list \in Singles, NEW r \in Desc,
         \A d \in ToSet(list) : d.block # r.block
  PROVE  Append(list, r) \in Singles /\ ToSet(Append(list, r)) = ToSet(list) \cup {r}
<1> DEFINE s == Append(list, r)
<1>1. list \in Seq(Desc) /\ OnePer(list)
  BY DEF Singles
<1>2. PICK n \in Nat : n = Len(list)
  BY <1>1
<1>3. /\ s \in Seq(Desc) /\ DOMAIN s = 1..n + 1 /\ DOMAIN list = 1..n
      /\ s[n + 1] = r /\ \A k \in 1..n : s[k] = list[k]
  BY <1>1, <1>2
<1> HIDE DEF s
<1>4. \A k \in 1..n : list[k] \in ToSet(list)
  BY <1>3 DEF ToSet
<1>5. \A k \in 1..n + 1 : k \in 1..n \/ k = n + 1
  OBVIOUS
<1>6. OnePer(s)
  BY <1>1, <1>3, <1>4, <1>5 DEF OnePer
<1>7. ToSet(s) = ToSet(list) \cup {r}
  <2>1. ToSet(s) = {s[k] : k \in 1..n + 1} /\ ToSet(list) = {list[k] : k \in 1..n}
    BY <1>3 DEF ToSet
  <2>2. n + 1 \in 1..n + 1 /\ \A k \in 1..n : k \in 1..n + 1
    OBVIOUS
  <2> QED BY <1>3, <1>5, <2>1, <2>2
<1> QED BY <1>3, <1>6, <1>7 DEF s, Singles

\* insert_request() puts the request at the end of what is alive for other blocks.
LEMMA InsertedIs ==
  ASSUME NEW list \in Singles, NEW r \in Desc
  PROVE  /\ Inserted(list, r) \in Singles
         /\ ToSet(Inserted(list, r))
              = {d \in ToSet(list) : d.block # r.block /\ d.left >= 0} \cup {r}
<1> DEFINE S == {d \in ToSet(list) : d.block # r.block /\ d.left >= 0}
<1>1. Only(list, S) \in Singles /\ ToSet(Only(list, S)) = S
  BY OnlyOfList
<1>2. \A d \in S : d.block # r.block
  OBVIOUS
<1>3. Inserted(list, r) = Append(Only(list, S), r)
  BY DEF Inserted
<1> HIDE DEF S
<1>4. /\ Append(Only(list, S), r) \in Singles
      /\ ToSet(Append(Only(list, S), r)) = S \cup {r}
  BY <1>1, <1>2, AtEnd
<1> QED BY <1>3, <1>4 DEF S

\* The list after the first k requests of a message, for every k.
IsGiven(given, list, requests) ==
  /\ given \in [0..Len(requests) -> Singles]
  /\ given[0] = list
  /\ \A k \in 1..Len(requests) : given[k] = Inserted(given[k - 1], requests[k])
  /\ Given(list, requests) = given[Len(requests)]

LEMMA GivenUnfolds ==
  ASSUME NEW list \in Singles, NEW requests \in Seq(Desc)
  PROVE  \E given : IsGiven(given, list, requests)
<1>0. PICK n \in Nat : n = Len(requests)
  OBVIOUS
<1>1. \A k \in 1..n : requests[k] \in Desc
  BY <1>0
<1> DEFINE Body(g) == [k \in 0..n |-> IF k = 0 THEN list
                                      ELSE Inserted(g[k - 1], requests[k])]
           step  == [x \in (1..n) \X Singles |-> Inserted(x[2], requests[x[1]])]
           given == CHOOSE g : g = Body(g)
<1>2. step \in [(1..n) \X Singles -> Singles]
  <2>1. ASSUME NEW x \in (1..n) \X Singles
        PROVE  Inserted(x[2], requests[x[1]]) \in Singles
    <3>1. x[1] \in 1..n /\ x[2] \in Singles
      OBVIOUS
    <3> QED BY <1>1, <3>1, InsertedIs
  <2> QED BY <2>1
<1>3. \A k \in 1..n : \A s \in Singles : step[<<k, s>>] = Inserted(s, requests[k])
  OBVIOUS
<1>4. Given(list, requests) = given[n]
  BY <1>0 DEF Given
<1> HIDE DEF step
<1>5. PICK f : IsRecursion(f, n, list, step)
  BY ONLY n \in Nat, list \in Singles, <1>2, RecursionExists
<1>6. /\ f = [k \in 0..n |-> IF k = 0 THEN list ELSE step[<<k, f[k - 1]>>]]
      /\ f[0] = list
      /\ \A k \in 1..n : f[k] = step[<<k, f[k - 1]>>]
  <2>1. f = [k \in 0..n |-> IF k = 0 THEN list ELSE step[<<k, f[k - 1]>>]]
    BY <1>5 DEF IsRecursion
  <2>2. \A k \in 0..n : f[k] = IF k = 0 THEN list ELSE step[<<k, f[k - 1]>>]
    BY <2>1, Zenon
  <2>3. 0 \in 0..n /\ \A k \in 1..n : k \in 0..n /\ k # 0
    OBVIOUS
  <2> QED BY ONLY <2>1, <2>2, <2>3
<1>7. \A k \in 0..n : f[k] \in Singles
  <2> DEFINE K == {k \in 0..n : f[k] \in Singles}
  <2>1. 0 \in K
    BY <1>6
  <2>2. ASSUME NEW k \in 1..n, k - 1 \in K PROVE k \in K
    <3>1. f[k - 1] \in Singles
      BY <2>2
    <3>2. step[<<k, f[k - 1]>>] \in Singles
      BY <3>1, <1>2
    <3>3. f[k] \in Singles
      <4>1. f[k] = step[<<k, f[k - 1]>>]
        BY ONLY <1>6, k \in 1..n
      <4> QED BY ONLY <3>2, <4>1
    <3>4. k \in 0..n
      OBVIOUS
    <3> QED BY ONLY <3>3, <3>4
  <2> HIDE DEF K
  <2>3. 0..n \subseteq K
    BY <2>1, <2>2, UpTo
  <2> QED BY <2>3 DEF K
<1>8. f = Body(f)
  <2>1. ASSUME NEW k \in 0..n
        PROVE  (IF k = 0 THEN list ELSE step[<<k, f[k - 1]>>])
                 = IF k = 0 THEN list ELSE Inserted(f[k - 1], requests[k])
    <3>1. CASE k # 0
      <4>1. k \in 1..n /\ f[k - 1] \in Singles
        BY <3>1, <1>7
      <4> QED BY <4>1, <1>3, <3>1
    <3> QED BY <3>1
  <2> QED BY <2>1, <1>6, Zenon
<1>9. given = Body(given)
  <2> HIDE DEF Body
  <2> QED BY <1>8
<1> HIDE DEF given
<1>10. \A k \in 0..n : given[k] = IF k = 0 THEN list ELSE Inserted(given[k - 1], requests[k])
  BY <1>9, Zenon
<1>11. DOMAIN given = 0..n
  BY <1>9
<1> HIDE DEF Body
<1>12. \A k \in 0..n : given[k] \in Singles
  <2> DEFINE K == {k \in 0..n : given[k] \in Singles}
  <2>1. 0 \in K
    BY <1>10
  <2>2. ASSUME NEW k \in 1..n, k - 1 \in K PROVE k \in K
    <3>1. given[k - 1] \in Singles
      BY <2>2
    <3>2. Inserted(given[k - 1], requests[k]) \in Singles
      BY <3>1, <1>1, InsertedIs
    <3>3. given[k] = Inserted(given[k - 1], requests[k])
      BY <1>10
    <3> QED BY <3>2, <3>3
  <2> HIDE DEF K
  <2>3. 0..n \subseteq K
    BY <2>1, <2>2, UpTo
  <2> QED BY <2>3 DEF K
<1>13. given \in [0..n -> Singles]
  <2>1. given = [k \in 0..n |-> given[k]]
    BY <1>9, <1>11, Zenon DEF Body
  <2> QED BY <1>12, <2>1
<1>14. IsGiven(given, list, requests)
  <2>1. given[0] = list /\ \A k \in 1..n : given[k] = Inserted(given[k - 1], requests[k])
    BY <1>10
  <2> QED BY ONLY <1>0, <1>4, <1>13, <2>1 DEF IsGiven
<1> QED BY <1>14

\* What is in the list after m requests stays there, unless it has expired or the
\* rest ask for its block.
LEMMA GivenKeeps ==
  ASSUME NEW list \in Singles, NEW requests \in Seq(Desc), NEW given,
         IsGiven(given, list, requests),
         NEW m \in 0..Len(requests), NEW d \in ToSet(given[m]), d.left >= 0,
         \A j \in m + 1..Len(requests) : requests[j].block # d.block
  PROVE  d \in ToSet(given[Len(requests)])
<1>1. PICK n \in Nat : n = Len(requests)
  OBVIOUS
<1>2. /\ given \in [0..n -> Singles] /\ \A k \in 1..n : requests[k] \in Desc
      /\ \A k \in 1..n : given[k] = Inserted(given[k - 1], requests[k])
  BY <1>1 DEF IsGiven
<1> DEFINE K == {k \in 0..n : m <= k => d \in ToSet(given[k])}
<1>3. 0 \in K
  <2>1. m <= 0 => m = 0
    OBVIOUS
  <2> QED BY <2>1, <1>1
<1>4. ASSUME NEW k \in 1..n, k - 1 \in K PROVE k \in K
  <2>1. CASE m <= k - 1
    <3>1. d \in ToSet(given[k - 1]) /\ given[k - 1] \in Singles /\ requests[k] \in Desc
      BY <1>2, <1>4, <2>1
    <3>2. requests[k].block # d.block
      BY <1>1, <2>1
    <3>3. given[k] = Inserted(given[k - 1], requests[k])
      BY <1>2
    <3>4. d \in ToSet(Inserted(given[k - 1], requests[k]))
      BY <3>1, <3>2, InsertedIs
    <3> QED BY <3>3, <3>4
  <2>2. CASE m = k
    BY <2>2
  <2>3. CASE m > k
    BY <2>3
  <2> QED BY <1>1, <2>1, <2>2, <2>3
<1>5. 0..n \subseteq K
  <2> HIDE DEF K
  <2> QED BY <1>3, <1>4, UpTo
<1>6. n \in 0..n /\ m <= n
  BY <1>1
<1> QED BY <1>1, <1>5, <1>6

\* After a message the list answers for the last request of the message for each
\* block, and for what it held before when the message does not ask for the block.
LEMMA GivenIs ==
  ASSUME NEW list \in Singles, NEW requests \in Seq(Desc)
  PROVE  /\ Given(list, requests) \in Singles
         /\ \A k \in DOMAIN requests :
              /\ requests[k].left >= 0
              /\ \A j \in DOMAIN requests : requests[j].block = requests[k].block => j <= k
              => requests[k] \in ToSet(Given(list, requests))
         /\ \A d \in ToSet(list) :
              /\ d.left >= 0
              /\ \A j \in DOMAIN requests : requests[j].block # d.block
              => d \in ToSet(Given(list, requests))
<1>1. PICK n \in Nat : n = Len(requests) /\ DOMAIN requests = 1..n
  OBVIOUS
<1>2. PICK given : IsGiven(given, list, requests)
  BY GivenUnfolds
<1>3. /\ given \in [0..n -> Singles] /\ given[0] = list
      /\ \A k \in 1..n : given[k] = Inserted(given[k - 1], requests[k])
      /\ Given(list, requests) = given[n]
  BY <1>1, <1>2 DEF IsGiven
<1>4. given[n] \in Singles
  BY <1>3
<1>5. ASSUME NEW k \in 1..n, requests[k].left >= 0,
             \A j \in 1..n : requests[j].block = requests[k].block => j <= k
      PROVE  requests[k] \in ToSet(given[n])
  <2>1. requests[k] \in Desc /\ given[k - 1] \in Singles
    BY <1>1, <1>3
  <2>2. requests[k] \in ToSet(given[k])
    BY <1>3, <2>1, InsertedIs
  <2>3. \A j \in k + 1..n : requests[j].block # requests[k].block
    BY <1>5
  <2>4. k \in 0..n
    OBVIOUS
  <2> QED BY <1>1, <1>2, <1>5, <2>2, <2>3, <2>4, GivenKeeps
<1>6. ASSUME NEW d \in ToSet(list), d.left >= 0,
             \A j \in 1..n : requests[j].block # d.block
      PROVE  d \in ToSet(given[n])
  <2>1. 0 \in 0..n /\ d \in ToSet(given[0])
    BY <1>3
  <2>2. \A j \in 0 + 1..n : requests[j].block # d.block
    BY <1>6
  <2> QED BY <1>1, <1>2, <1>6, <2>1, <2>2, GivenKeeps
<1> QED BY <1>1, <1>3, <1>4, <1>5, <1>6

-----------------------------------------------------------------------------
(* Time *)

LEMMA LaterIs ==
  ASSUME NEW left \in Left, NEW d \in Nat \ {0}
  PROVE  /\ Later(left, d) \in Left
         /\ Later(left, d) >= 0 => left >= 0 /\ Later(left, d) = left - d
<1>1. left - d \in Int /\ left \in Int
  BY DEF Left
<1>2. Later(left, d) = IF left - d >= -1 THEN left - d ELSE -1
  BY <1>1, MaxOfTwo DEF Later
<1> QED BY <1>1, <1>2 DEF Left

\* A list some time later.
Aged(list, d) == [k \in DOMAIN list |-> [list[k] EXCEPT !.left = Later(@, d)]]

LEMMA AgedIs ==
  ASSUME NEW list \in Seq(Desc), NEW d \in Nat \ {0}
  PROVE  /\ Aged(list, d) \in Seq(Desc) /\ Len(Aged(list, d)) = Len(list)
         /\ OnePer(list) => OnePer(Aged(list, d))
         /\ \A i \in ToSet(list) :
              [block |-> i.block, left |-> Later(i.left, d)] \in ToSet(Aged(list, d))
<1> DEFINE s == Aged(list, d)
<1>1. PICK n \in Nat : n = Len(list) /\ DOMAIN list = 1..n
  OBVIOUS
<1>2. ASSUME NEW k \in 1..n
      PROVE  /\ s[k] \in Desc
             /\ s[k] = [block |-> list[k].block, left |-> Later(list[k].left, d)]
  <2>1. list[k] \in Desc
    BY <1>1
  <2>2. list[k] = [block |-> list[k].block, left |-> list[k].left]
        /\ list[k].block \in Blocks /\ list[k].left \in Left
    BY <2>1 DEF Desc
  <2>3. s[k] = [list[k] EXCEPT !.left = Later(@, d)]
    BY <1>1 DEF Aged
  <2>4. s[k] = [block |-> list[k].block, left |-> Later(list[k].left, d)]
    BY <2>2, <2>3
  <2>5. Later(list[k].left, d) \in Left
    BY <2>2, LaterIs
  <2> QED BY <2>2, <2>4, <2>5 DEF Desc
<1>3. DOMAIN s = 1..n
  BY <1>1 DEF Aged
<1>4. s = [k \in 1..n |-> s[k]]
  BY <1>1, Zenon DEF Aged
<1> HIDE DEF s
<1>5. s \in Seq(Desc) /\ Len(s) = n
  BY <1>2, <1>3, <1>4
<1>6. OnePer(list) => OnePer(s)
  BY <1>1, <1>2, <1>3 DEF OnePer
<1>7. ASSUME NEW i \in ToSet(list)
      PROVE  [block |-> i.block, left |-> Later(i.left, d)] \in ToSet(s)
  <2>1. PICK k \in 1..n : i = list[k]
    BY <1>1 DEF ToSet
  <2>2. s[k] = [block |-> i.block, left |-> Later(i.left, d)]
    BY <1>2, <2>1
  <2> QED BY <1>3, <2>2 DEF ToSet
<1> QED BY <1>1, <1>5, <1>6, <1>7 DEF s

-----------------------------------------------------------------------------
(* The inductive invariant *)

\* However they are inserted, aged and erased, no list has two requests for a block.
OneRequestPerBlock == \A n \in DOMAIN table : table[n] \in Singles

\* What is alive of the last request is in the list.
Answers ==
  \A n \in Neighbors, b \in Blocks :
    latest[n, b] >= 0 =>
      /\ n \in DOMAIN table
      /\ [block |-> b, left |-> latest[n, b]] \in ToSet(table[n])

IInv == TypeOK /\ OneRequestPerBlock /\ Answers

\* The limits are numbers.
LEMMA LimitsAre ==
  /\ MaxQueue \in Nat /\ MaxMessages \in Nat
  /\ Storage \in Nat /\ Bandwidth \in Nat /\ MaxTTL \in Nat /\ Batch \in Nat
  /\ Interval \in Nat \ {0} /\ Unit \in Nat \ {0}
BY ScheduleAssumption, Zenon

LEMMA MessageIs ==
  ASSUME NEW requests \in Messages
  PROVE  /\ requests \in Seq(Desc)
         /\ \A k \in DOMAIN requests : requests[k].left \in Nat
<1> DEFINE R == [block : Blocks, left : Nat]
<1>1. requests \in Seq(R)
  BY ScheduleAssumption
<1>4. \A r \in R : r \in Desc /\ r.left \in Nat
  BY DEF Desc, Left
<1> HIDE DEF R
<1>2. PICK n \in Nat : n = Len(requests) /\ DOMAIN requests = 1..n
  BY <1>1
<1>3. \A k \in 1..n : requests[k] \in R
  BY <1>1, <1>2
<1>5. requests = [k \in 1..n |-> requests[k]]
  BY <1>1, <1>2
<1>6. requests \in Seq(Desc)
  BY <1>3, <1>4, <1>5
<1> QED BY <1>2, <1>3, <1>4, <1>6

\* The invariant says what the run checks.
LEMMA AnswersLatest ==
  ASSUME IInv
  PROVE  TableIsLatest
<1> SUFFICES ASSUME NEW n \in Neighbors, NEW b \in Blocks, latest[n, b] >= 0
             PROVE  /\ n \in DOMAIN table
                    /\ \E k \in DOMAIN table[n] :
                         /\ table[n][k].left = latest[n, b]
                         /\ {j \in DOMAIN table[n] : table[n][j].block = b} = {k}
  BY DEF TableIsLatest
<1> DEFINE list == table[n]
<1>1. /\ n \in DOMAIN table /\ OnePer(list)
      /\ [block |-> b, left |-> latest[n, b]] \in ToSet(list)
  BY DEF IInv, OneRequestPerBlock, Answers, Singles
<1> HIDE DEF list
<1> DEFINE d == [block |-> b, left |-> latest[n, b]]
<1>2. d.block = b /\ d.left = latest[n, b] /\ d \in ToSet(list)
  BY <1>1
<1> HIDE DEF d
<1>3. PICK k \in DOMAIN list : list[k] = d
  BY <1>2 DEF ToSet
<1>4. {j \in DOMAIN list : list[j].block = b} = {k}
  BY <1>1, <1>2, <1>3 DEF OnePer
<1> QED BY <1>1, <1>2, <1>3, <1>4 DEF list

LEMMA InitIInv == Init => IInv
<1> SUFFICES ASSUME Init PROVE IInv
  OBVIOUS
<1>1. 1 \in DOMAIN Phases
  BY ScheduleAssumption
<1>2. /\ DOMAIN table = {} /\ table \in [DOMAIN table -> Seq(Desc)]
      /\ queue \in Seq(Desc) /\ Len(queue) <= MaxQueue
  BY LimitsAre DEF Init
<1>3. latest = [x \in Neighbors \X Blocks |-> -1]
  BY DEF Init
<1>4. TypeOK
  <2>1. latest \in [Neighbors \X Blocks -> Left]
    BY <1>3 DEF Left
  <2>2. messages \in 0..MaxMessages
    BY LimitsAre DEF Init
  <2>3. phase \in DOMAIN Phases
    BY <1>1 DEF Init
  <2>4. DOMAIN table \subseteq Neighbors
    BY <1>2
  <2> QED BY <1>2, <2>1, <2>2, <2>3, <2>4 DEF Init, TypeOK
<1>5. OneRequestPerBlock
  BY <1>2 DEF OneRequestPerBlock
<1>6. Answers
  <2>1. ASSUME NEW n \in Neighbors, NEW b \in Blocks PROVE ~(latest[n, b] >= 0)
    <3> DEFINE left == latest[n, b]
    <3>1. left = -1
      BY <1>3
    <3> HIDE DEF left
    <3>2. ~(left >= 0)
      BY <3>1
    <3> QED BY <3>2 DEF left
  <2> QED BY <2>1, Zenon DEF Answers
<1> QED BY <1>4, <1>5, <1>6 DEF IInv

\* Whatever leaves the table and the requests alone leaves the invariant to the
\* types.
LEMMA TableStays ==
  ASSUME IInv, UNCHANGED <<table, latest>>, TypeOK'
  PROVE  IInv'
BY DEF IInv, OneRequestPerBlock, Answers

LEMMA OnBlockRequestIInv ==
  ASSUME IInv, NEW n \in Neighbors, NEW requests \in Messages, OnBlockRequest(n, requests)
  PROVE  IInv'
<1>0. TypeOK /\ OneRequestPerBlock /\ Answers
  BY DEF IInv
<1> DEFINE list == IF n \in DOMAIN table THEN table[n] ELSE << >>
           asks(x) == {k \in DOMAIN requests : x = <<n, requests[k].block>>}
           new == Given(list, requests)
<1>1. requests \in Seq(Desc) /\ \A k \in DOMAIN requests : requests[k].left \in Nat
  BY MessageIs
<1>2. PICK m \in Nat : m = Len(requests) /\ DOMAIN requests = 1..m
  BY <1>1
<1>12. \A k \in 1..m : requests[k] \in Desc /\ requests[k].left >= 0
  BY <1>1, <1>2
<1>3. list \in Singles
  <2>1. << >> \in Singles
    BY DEF Singles, OnePer
  <2> QED BY <1>0, <2>1 DEF OneRequestPerBlock
<1>4. /\ table' = [k \in DOMAIN table \cup {n} |-> IF k = n THEN new ELSE table[k]]
      /\ latest' = [x \in DOMAIN latest |->
                      IF asks(x) = {} THEN latest[x] ELSE requests[Max(asks(x))].left]
      /\ queue' = queue \o requests /\ Len(queue) + Len(requests) <= MaxQueue
      /\ messages' = messages + 1 /\ messages < MaxMessages
      /\ UNCHANGED <<neighbors, arrived, scheduled, home, frozen, sent, phase, due>>
  BY DEF OnBlockRequest, content, clock
<1>5. /\ new \in Singles
      /\ \A k \in 1..m :
           /\ requests[k].left >= 0
           /\ \A j \in 1..m : requests[j].block = requests[k].block => j <= k
           => requests[k] \in ToSet(new)
      /\ \A d \in ToSet(list) :
           /\ d.left >= 0
           /\ \A j \in 1..m : requests[j].block # d.block
           => d \in ToSet(new)
  <2> HIDE DEF list
  <2> QED BY <1>1, <1>2, <1>3, GivenIs
<1> HIDE DEF new
<1>6. /\ DOMAIN table' = DOMAIN table \cup {n} /\ table'[n] = new
      /\ \A k \in DOMAIN table \ {n} : table'[k] = table[k]
  BY <1>4
<1>7. ASSUME NEW x, asks(x) # {}
      PROVE  Max(asks(x)) \in asks(x) /\ \A k \in asks(x) : k <= Max(asks(x))
  <2>1. asks(x) \in SUBSET Int /\ \A k \in asks(x) : k <= m
    BY <1>2
  <2> HIDE DEF asks
  <2> QED BY <1>7, <2>1, MaxIs
<1>8. latest' \in [Neighbors \X Blocks -> Left]
  <2>1. latest \in [Neighbors \X Blocks -> Left]
    BY <1>0 DEF TypeOK
  <2>2. ASSUME NEW x \in Neighbors \X Blocks
        PROVE  (IF asks(x) = {} THEN latest[x] ELSE requests[Max(asks(x))].left) \in Left
    <3>1. CASE asks(x) = {}
      BY <2>1, <3>1
    <3>2. CASE asks(x) # {}
      <4>1. Max(asks(x)) \in DOMAIN requests
        BY <1>7, <3>2
      <4> HIDE DEF asks
      <4>2. requests[Max(asks(x))].left \in Left
        BY <1>1, <4>1 DEF Left
      <4> QED BY <3>2, <4>2
    <3> QED BY <3>1, <3>2
  <2> HIDE DEF asks
  <2> QED BY <1>4, <2>1, <2>2
<1>9. OneRequestPerBlock'
  BY <1>0, <1>5, <1>6 DEF OneRequestPerBlock
<1>10. TypeOK'
  <2>1. queue' \in Seq(Desc) /\ Len(queue') <= MaxQueue
    BY <1>0, <1>1, <1>4 DEF TypeOK
  <2>2. table' \in [DOMAIN table' -> Seq(Desc)] /\ DOMAIN table' \subseteq Neighbors
    <3>1. \A k \in DOMAIN table' : table'[k] \in Seq(Desc)
      BY <1>9 DEF OneRequestPerBlock, Singles
    <3>2. table' = [k \in DOMAIN table' |-> table'[k]]
      BY <1>4, <1>6, Zenon
    <3> QED BY <1>0, <1>6, <3>1, <3>2 DEF TypeOK
  <2>3. messages' \in 0..MaxMessages
    <3>1. messages \in Nat /\ messages' = messages + 1 /\ messages < MaxMessages
      BY <1>0, <1>4 DEF TypeOK
    <3> QED BY <3>1, LimitsAre
  <2> QED BY <1>0, <1>4, <1>8, <2>1, <2>2, <2>3 DEF TypeOK, Cached, Found
<1>11. Answers'
  <2> SUFFICES ASSUME NEW u \in Neighbors, NEW b \in Blocks, latest'[u, b] >= 0
               PROVE  /\ u \in DOMAIN table'
                      /\ [block |-> b, left |-> latest'[u, b]] \in ToSet(table'[u])
    BY DEF Answers
  <2>0. latest'[u, b] = IF asks(<<u, b>>) = {} THEN latest[u, b]
                        ELSE requests[Max(asks(<<u, b>>))].left
    <3>1. DOMAIN latest = Neighbors \X Blocks
      BY <1>0 DEF TypeOK
    <3> HIDE DEF asks
    <3> QED BY <1>4, <3>1
  <2>1. CASE asks(<<u, b>>) = {}
    <3>1. /\ u \in DOMAIN table /\ latest'[u, b] = latest[u, b]
          /\ [block |-> b, left |-> latest[u, b]] \in ToSet(table[u])
      BY <1>0, <2>0, <2>1 DEF Answers
    <3>2. CASE u # n
      BY <1>6, <3>1, <3>2
    <3>3. CASE u = n
      <4>1. \A j \in 1..m : requests[j].block # b
        BY <1>2, <2>1, <3>3
      <4> QED BY <1>5, <1>6, <3>1, <3>3, <4>1
    <3> QED BY <3>2, <3>3
  <2>2. CASE asks(<<u, b>>) # {}
    <3> DEFINE k == Max(asks(<<u, b>>))
    <3>1. k \in asks(<<u, b>>) /\ \A j \in asks(<<u, b>>) : j <= k
      BY <1>7, <2>2
    <3> HIDE DEF k
    <3>2. /\ u = n /\ k \in 1..m /\ requests[k].block = b
          /\ \A j \in 1..m : requests[j].block = requests[k].block => j <= k
      BY <1>2, <3>1
    <3>3. requests[k] \in Desc /\ requests[k].left >= 0
      BY <1>12, <3>2
    <3>4. requests[k] \in ToSet(new)
      BY <1>5, <3>2, <3>3
    <3>5. requests[k] = [block |-> b, left |-> latest'[u, b]]
      BY <2>0, <2>2, <3>2, <3>3 DEF Desc, k
    <3> QED BY <1>6, <3>2, <3>4, <3>5
  <2> QED BY <2>1, <2>2
<1> QED BY <1>9, <1>10, <1>11 DEF IInv

LEMMA ReadyIs == TypeOK => Ready \subseteq Blocks
BY DEF TypeOK, Ready, Reports, Found

\* What fwd_requests() takes off the queue.
LEMMA TakenIs == TypeOK => Taken \in 0..Len(queue)
<1> SUFFICES ASSUME TypeOK PROVE Taken \in 0..Len(queue)
  OBVIOUS
<1>1. PICK m \in Nat : m = Len(queue)
  BY DEF TypeOK
<1>2. Batch \in Nat
  BY LimitsAre
<1>3. Taken = IF Batch <= m THEN Batch ELSE m
  BY <1>1, <1>2, MinOfTwo DEF Taken
<1> QED BY <1>1, <1>2, <1>3

\* The table after sched(): what get_utility() was asked about and found expired is
\* gone.
SchedTable ==
  [n \in DOMAIN table |->
     IF n \in neighbors
     THEN Only(table[n], {d \in ToSet(table[n]) : d.left >= 0 \/ d.block \notin Ready})
     ELSE table[n]]

LEMMA SchedIInv ==
  ASSUME IInv, Sched
  PROVE  IInv'
<1>0. TypeOK /\ OneRequestPerBlock /\ Answers
  BY DEF IInv
<1>1. table' = SchedTable
  BY DEF Sched, SchedTable
<1>2. DOMAIN table' = DOMAIN table
  BY <1>1 DEF SchedTable
<1>3. ASSUME NEW n \in DOMAIN table
      PROVE  /\ table'[n] \in Singles
             /\ \A d \in ToSet(table[n]) : d.left >= 0 => d \in ToSet(table'[n])
  <2> DEFINE S == {d \in ToSet(table[n]) : d.left >= 0 \/ d.block \notin Ready}
  <2>1. table[n] \in Singles
    BY <1>0 DEF OneRequestPerBlock
  <2>2. CASE n \in neighbors
    <3>1. table'[n] = Only(table[n], S)
      BY <1>1, <2>2 DEF SchedTable
    <3>2. \A d \in ToSet(table[n]) : d.left >= 0 => d \in ToSet(table[n]) \cap S
      OBVIOUS
    <3> HIDE DEF S
    <3> QED BY <2>1, <3>1, <3>2, OnlyOfList
  <2>3. CASE n \notin neighbors
    <3>1. table'[n] = table[n]
      BY <1>1, <2>3 DEF SchedTable
    <3> QED BY <2>1, <3>1
  <2> QED BY <2>2, <2>3
<1>4. OneRequestPerBlock'
  BY <1>2, <1>3 DEF OneRequestPerBlock
<1>5. latest' = latest
  BY DEF Sched
<1>6. Answers'
  <2> SUFFICES ASSUME NEW n \in Neighbors, NEW b \in Blocks, latest'[n, b] >= 0
               PROVE  /\ n \in DOMAIN table'
                      /\ [block |-> b, left |-> latest'[n, b]] \in ToSet(table'[n])
    BY DEF Answers
  <2> DEFINE d == [block |-> b, left |-> latest[n, b]]
  <2>1. d.left >= 0 /\ n \in DOMAIN table /\ d \in ToSet(table[n])
    BY <1>0, <1>5 DEF Answers
  <2> HIDE DEF d
  <2>2. d \in ToSet(table'[n])
    BY <1>3, <2>1
  <2> QED BY <1>2, <1>5, <2>1, <2>2 DEF d
<1>7. TypeOK'
  <2>1. table' \in [DOMAIN table' -> Seq(Desc)]
    <3>1. \A n \in DOMAIN table' : table'[n] \in Seq(Desc)
      BY <1>4 DEF OneRequestPerBlock, Singles
    <3>2. table' = [n \in DOMAIN table' |-> table'[n]]
      BY <1>1, <1>2, Zenon DEF SchedTable
    <3> QED BY <3>1, <3>2
  <2>2. queue' \in Seq(Desc) /\ Len(queue') <= MaxQueue
    <3>1. queue' = SubSeq(queue, Taken + 1, Len(queue))
      BY DEF Sched
    <3>2. queue \in Seq(Desc) /\ Len(queue) \in Nat /\ Len(queue) <= MaxQueue
      BY <1>0 DEF TypeOK
    <3>3. Taken \in 0..Len(queue)
      BY <1>0, TakenIs
    <3> QED BY <3>1, <3>2, <3>3, LimitsAre
  <2>3. /\ scheduled' \subseteq Ready /\ frozen' \subseteq frozen \cup Cached
        /\ sent' \subseteq Found
    <3>1. PICK order \in Orders(Ready) : \E p \in Solutions(order) :
            LET now == {b \in Ready : p[b] = 1}
            IN  /\ scheduled' = Ready \ now
                /\ frozen' = (frozen \ {b \in Ready : p[b] = 0})
                               \cup {b \in Cached \cap Ready : p[b] > 0}
                /\ sent' = now \cap Found
      BY DEF Sched
    <3> QED BY <3>1
  <2>4. Ready \subseteq Blocks
    BY <1>0, ReadyIs
  <2>5. /\ due' = FALSE /\ arrived' = {}
        /\ UNCHANGED <<neighbors, home, phase, messages, latest>>
    BY DEF Sched
  <2> QED BY <1>0, <1>2, <2>1, <2>2, <2>3, <2>4, <2>5 DEF TypeOK, Cached, Found
<1> QED BY <1>4, <1>6, <1>7 DEF IInv

LEMMA PhaseIs ==
  ASSUME phase \in DOMAIN Phases
  PROVE  /\ Phases[phase] \in Nat \ {0}
         /\ (phase % Len(Phases)) + 1 \in DOMAIN Phases
<1>1. Phases \in Seq(Nat \ {0})
  BY ScheduleAssumption, Zenon
<1>2. PICK m \in Nat : m = Len(Phases) /\ DOMAIN Phases = 1..m
  BY <1>1
<1>3. phase \in 1..m /\ m > 0
  BY <1>2
<1>4. phase % m \in 0..m - 1
  BY <1>3
<1> QED BY <1>1, <1>2, <1>3, <1>4

LEMMA ElapseIInv ==
  ASSUME IInv, Elapse
  PROVE  IInv'
<1>0. TypeOK /\ OneRequestPerBlock /\ Answers
  BY DEF IInv
<1>1. PICK d \in Nat \ {0} : d = Phases[phase]
  BY <1>0, PhaseIs DEF TypeOK
<1>2. /\ table' = [n \in DOMAIN table |-> Aged(table[n], d)]
      /\ queue' = Aged(queue, d)
  BY <1>1 DEF Elapse, Aged
<1>3. /\ latest' = [x \in DOMAIN latest |-> Later(latest[x], d)]
      /\ latest \in [Neighbors \X Blocks -> Left]
  BY <1>0, <1>1 DEF Elapse, TypeOK
<1>4. ASSUME NEW n \in DOMAIN table
      PROVE  /\ table'[n] \in Singles
             /\ \A i \in ToSet(table[n]) :
                  [block |-> i.block, left |-> Later(i.left, d)] \in ToSet(table'[n])
  <2>1. table[n] \in Seq(Desc) /\ OnePer(table[n]) /\ table'[n] = Aged(table[n], d)
    BY <1>0, <1>2 DEF OneRequestPerBlock, Singles
  <2> QED BY <2>1, AgedIs DEF Singles
<1>5. DOMAIN table' = DOMAIN table
  BY <1>2
<1>6. OneRequestPerBlock'
  BY <1>4, <1>5 DEF OneRequestPerBlock
<1>7. Answers'
  <2> SUFFICES ASSUME NEW n \in Neighbors, NEW b \in Blocks, latest'[n, b] >= 0
               PROVE  /\ n \in DOMAIN table'
                      /\ [block |-> b, left |-> latest'[n, b]] \in ToSet(table'[n])
    BY DEF Answers
  <2> DEFINE left == latest[n, b]
             i    == [block |-> b, left |-> left]
  <2>1. left \in Left /\ latest'[n, b] = Later(left, d)
    BY <1>3
  <2>2. left >= 0
    BY <2>1, LaterIs
  <2>3. n \in DOMAIN table /\ i \in ToSet(table[n])
    BY <1>0, <2>2 DEF Answers
  <2>4. i.block = b /\ i.left = left
    OBVIOUS
  <2> HIDE DEF i, left
  <2>5. [block |-> i.block, left |-> Later(i.left, d)] \in ToSet(table'[n])
    BY <1>4, <2>3
  <2> QED BY <1>5, <2>1, <2>3, <2>4, <2>5
<1>8. TypeOK'
  <2>1. table' \in [DOMAIN table' -> Seq(Desc)]
    <3>1. \A n \in DOMAIN table' : table'[n] \in Seq(Desc)
      BY <1>6 DEF OneRequestPerBlock, Singles
    <3>2. table' = [n \in DOMAIN table' |-> table'[n]]
      BY <1>2, <1>5, Zenon
    <3> QED BY <3>1, <3>2
  <2>2. queue' \in Seq(Desc) /\ Len(queue') <= MaxQueue
    BY <1>0, <1>2, AgedIs DEF TypeOK
  <2>3. latest' \in [Neighbors \X Blocks -> Left]
    <3>1. \A x \in Neighbors \X Blocks : Later(latest[x], d) \in Left
      BY <1>3, LaterIs
    <3> QED BY <1>3, <3>1
  <2>4. phase' \in DOMAIN Phases /\ due' \in BOOLEAN
    <3>1. phase' = (phase % Len(Phases)) + 1 /\ due' = (phase = Len(Phases))
      BY DEF Elapse
    <3> QED BY <1>0, <3>1, PhaseIs DEF TypeOK
  <2>5. sent' = {} /\ UNCHANGED <<neighbors, arrived, scheduled, home, frozen, messages>>
    BY DEF Elapse
  <2> QED BY <1>0, <1>5, <2>1, <2>2, <2>3, <2>4, <2>5 DEF TypeOK, Cached, Found
<1> QED BY <1>6, <1>7, <1>8 DEF IInv

LEMMA NextIInv == IInv /\ [Next]_vars => IInv'
<1> SUFFICES ASSUME IInv, [Next]_vars PROVE IInv'
  OBVIOUS
<1>0. TypeOK
  BY DEF IInv
<1>1. ASSUME UNCHANGED vars PROVE IInv'
  <2>1. TypeOK'
    BY <1>0, <1>1 DEF vars, TypeOK, Cached, Found
  <2> QED BY <1>1, <2>1, TableStays DEF vars
<1>2. ASSUME NEW n \in Neighbors, Meet(n) PROVE IInv'
  <2>1. TypeOK'
    BY <1>0, <1>2 DEF Meet, content, clock, TypeOK, Cached, Found
  <2> QED BY <1>2, <2>1, TableStays DEF Meet
<1>3. ASSUME NEW b \in Blocks, OnBlock(b) PROVE IInv'
  <2>1. TypeOK'
    BY <1>0, <1>3 DEF OnBlock, clock, TypeOK, Cached, Found
  <2> QED BY <1>3, <2>1, TableStays DEF OnBlock
<1>4. ASSUME NEW b \in Blocks, Publish(b) PROVE IInv'
  <2>1. TypeOK'
    BY <1>0, <1>4 DEF Publish, clock, TypeOK, Cached, Found
  <2> QED BY <1>4, <2>1, TableStays DEF Publish
<1> QED
  BY <1>1, <1>2, <1>3, <1>4, OnBlockRequestIInv, SchedIInv, ElapseIInv DEF Next

-----------------------------------------------------------------------------
(* What the solver returns *)

\* As many requests as there are blocks fit in a list.
LEMMA ListsAreShort ==
  ASSUME NEW list \in Singles
  PROVE  Len(list) \in Nat /\ Len(list) <= Cardinality(Blocks)
<1>1. list \in Seq(Desc) /\ OnePer(list)
  BY DEF Singles
<1>2. PICK m \in Nat : m = Len(list) /\ DOMAIN list = 1..m
  BY <1>1
<1>3. \A k \in 1..m : list[k].block \in Blocks
  <2>1. \A k \in 1..m : list[k] \in Desc
    BY <1>1, <1>2
  <2> QED BY <2>1 DEF Desc
<1> DEFINE at == [k \in 1..m |-> list[k].block]
<1>4. at \in Injection(1..m, Blocks)
  <2>1. \A j, k \in 1..m : at[j] = at[k] => j = k
    BY <1>1, <1>2 DEF OnePer
  <2> QED BY <1>3, <2>1 DEF Injection, IsInjective
<1>5. IsFiniteSet(Blocks)
  BY ScheduleAssumption, Zenon
<1> HIDE DEF at
<1>6. Cardinality(1..m) <= Cardinality(Blocks)
  BY <1>4, <1>5, FS_Injection
<1>7. Cardinality(1..m) = m
  BY FS_Interval
<1> QED BY <1>2, <1>6, <1>7

\* A share of a list that is not empty is at least a unit.
LEMMA ShareIs ==
  ASSUME NEW k \in 1..Cardinality(Blocks)
  PROVE  Unit \div k \in Nat /\ Unit \div k >= 1
<1>1. IsFiniteSet(Blocks)
  BY ScheduleAssumption, Zenon
<1>2. k \in Nat \ {0}
  BY <1>1, FS_CardinalityType
<1>3. Unit % k = 0
  BY ScheduleAssumption, Zenon
<1>4. PICK u \in Nat \ {0} : u = Unit
  BY LimitsAre
<1> DEFINE q == u \div k
           r == u % k
<1>5. u = k * q + r /\ q \in Int
  BY <1>2
<1>6. r = 0 /\ q = Unit \div k
  BY <1>3, <1>4
<1> HIDE DEF q, r
<1>7. q >= 1
  <2> SUFFICES ASSUME q <= 0 PROVE FALSE
    BY <1>5
  <2>1. k * q <= 0
    BY <1>2, <1>5
  <2> QED BY <1>5, <1>6, <2>1
<1> QED BY <1>5, <1>6, <1>7

\* The ttl of a request that is alive is a slot.
LEMMA TTLIs ==
  ASSUME IInv, NEW n, NEW b
  PROVE  TTL(n, b) = -1 \/ TTL(n, b) \in Nat
<1> DEFINE live == IF n \in DOMAIN table
                   THEN {d \in ToSet(table[n]) : d.block = b /\ d.left > 0} ELSE {}
<1>1. CASE live = {}
  BY <1>1 DEF TTL
<1>2. CASE live # {}
  <2> DEFINE d == CHOOSE d \in live : TRUE
  <2>1. d \in live
    BY <1>2
  <2>2. n \in DOMAIN table /\ d \in ToSet(table[n]) /\ d.left > 0
    BY <1>2, <2>1
  <2>3. TTL(n, b) = (d.left * 1000) \div Interval
    BY <1>2 DEF TTL
  <2> HIDE DEF d
  <2>4. d \in Desc
    BY <2>2 DEF IInv, OneRequestPerBlock, Singles, ToSet
  <2>5. PICK left \in Nat : left = d.left
    BY <2>2, <2>4 DEF Desc, Left
  <2>6. PICK i \in Nat \ {0} : i = Interval
    BY LimitsAre
  <2>7. (left * 1000) \div i \in Nat
    <3> DEFINE a == left * 1000
               q == a \div i
               r == a % i
    <3>1. a \in Nat
      OBVIOUS
    <3>2. a = i * q + r /\ q \in Int /\ r \in 0..i - 1
      BY <3>1
    <3> HIDE DEF a, q, r
    <3>3. q >= 0
      <4> SUFFICES ASSUME q <= -1 PROVE FALSE
        BY <3>2
      <4>1. i * q <= i * (-1)
        BY <3>2
      <4> QED BY <3>1, <3>2, <4>1
    <3> QED BY <3>2, <3>3 DEF q, a
  <2> QED BY <2>3, <2>5, <2>6, <2>7
<1> QED BY <1>1, <1>2

\* What is alive is seen by the solver, whatever was erased before.
LEMMA SeenIs ==
  ASSUME IInv, NEW n \in DOMAIN table, NEW order, NEW i,
         NEW d \in ToSet(table[n]), d.left >= 0
  PROVE  /\ Seen(n, order, i) \in Singles
         /\ d \in ToSet(Seen(n, order, i))
         /\ Seen(n, order, i) # << >>
<1> DEFINE S == {e \in ToSet(table[n]) :
                   e.left >= 0 \/ e.block \notin ToSet(SubSeq(order, 1, i - 1))}
<1>1. table[n] \in Singles
  BY DEF IInv, OneRequestPerBlock
<1>2. d \in ToSet(table[n]) \cap S
  OBVIOUS
<1>3. Seen(n, order, i) = Only(table[n], S)
  BY DEF Seen
<1> HIDE DEF S
<1>4. Seen(n, order, i) \in Singles /\ d \in ToSet(Seen(n, order, i))
  BY <1>1, <1>2, <1>3, OnlyOfList
<1>5. ToSet(<< >>) = {}
  BY DEF ToSet
<1> QED BY <1>4, <1>5

\* A block for which a request is alive is worth something to its neighbour.
LEMMA UtilityIs ==
  ASSUME IInv, NEW n \in DOMAIN table, NEW order, NEW i,
         NEW d \in ToSet(table[n]), d.left >= 0, d.block = order[i]
  PROVE  Utility(n, order, i) \in Nat /\ Utility(n, order, i) >= 1
<1> DEFINE seen == Seen(n, order, i)
<1>1. seen \in Singles /\ d \in ToSet(seen) /\ seen # << >>
  BY SeenIs
<1>2. Utility(n, order, i)
        = IF \E k \in DOMAIN seen : seen[k].block = order[i] /\ seen[k].left >= 0
          THEN Unit \div Len(seen) ELSE 0
  BY DEF Utility
<1> HIDE DEF seen
<1>3. \E k \in DOMAIN seen : seen[k].block = order[i] /\ seen[k].left >= 0
  <2>1. PICK k \in DOMAIN seen : d = seen[k]
    BY <1>1 DEF ToSet
  <2> QED BY <2>1
<1>4. Len(seen) \in 1..Cardinality(Blocks)
  <2>1. Len(seen) \in Nat /\ Len(seen) <= Cardinality(Blocks)
    BY <1>1, ListsAreShort
  <2>2. Len(seen) # 0
    BY <1>1 DEF Singles
  <2>3. Cardinality(Blocks) \in Int
    <3>1. IsFiniteSet(Blocks)
      BY ScheduleAssumption, Zenon
    <3> QED BY <3>1, FS_CardinalityType
  <2> QED BY <2>1, <2>2, <2>3
<1> QED BY <1>2, <1>3, <1>4, ShareIs

\* One more block in a set of blocks.
LEMMA OneMore ==
  ASSUME NEW S, IsFiniteSet(S), NEW b, b \notin S, NEW limit \in Nat,
         Cardinality(S) < limit
  PROVE  Cardinality(S \cup {b}) <= limit
<1>1. Cardinality(S) \in Nat /\ Cardinality(S \cup {b}) = Cardinality(S) + 1
  BY FS_AddElement, FS_CardinalityType
<1> QED BY <1>1

\* What the bounds leave room for: a block that is not held can be held for a slot,
\* as long as there is storage and something else may be sent.
LEMMA HoldOneMore ==
  ASSUME NEW bs, IsFiniteSet(bs), NEW p \in Plans(bs), NEW b \in bs, p[b] = 0,
         Cardinality({c \in bs : p[c] > 0}) < Storage,
         Cardinality({c \in bs : p[c] = 1}) < Bandwidth
  PROVE  [p EXCEPT ![b] = 1] \in Plans(bs)
<1> DEFINE q == [p EXCEPT ![b] = 1]
<1>1. /\ p \in [bs -> 0..MaxTTL + 2]
      /\ \A t \in 0..MaxTTL : Cardinality({c \in bs : p[c] = t + 1}) <= Bandwidth
  BY DEF Plans
<1>2. q \in [bs -> 0..MaxTTL + 2]
  BY <1>1, LimitsAre
<1>3. q[b] = 1 /\ \A c \in bs \ {b} : q[c] = p[c]
  BY <1>1
<1> HIDE DEF q
<1>4. Cardinality({c \in bs : q[c] > 0}) <= Storage
  <2> DEFINE S == {c \in bs : p[c] > 0}
  <2>1. {c \in bs : q[c] > 0} = S \cup {b}
    BY <1>3
  <2>2. IsFiniteSet(S) /\ b \notin S /\ Cardinality(S) < Storage
    BY FS_Subset
  <2> HIDE DEF S
  <2> QED BY <2>1, <2>2, OneMore, LimitsAre
<1>5. ASSUME NEW t \in 0..MaxTTL
      PROVE  Cardinality({c \in bs : q[c] = t + 1}) <= Bandwidth
  <2>1. CASE t = 0
    <3> DEFINE S == {c \in bs : p[c] = 1}
    <3>1. {c \in bs : q[c] = t + 1} = S \cup {b}
      BY <1>3, <2>1
    <3>2. IsFiniteSet(S) /\ b \notin S /\ Cardinality(S) < Bandwidth
      BY FS_Subset
    <3> HIDE DEF S
    <3> QED BY <3>1, <3>2, OneMore, LimitsAre
  <2>2. CASE t # 0
    <3>1. t + 1 # 1 /\ t + 1 # 0
      BY <2>2
    <3>2. {c \in bs : q[c] = t + 1} = {c \in bs : p[c] = t + 1}
      BY <1>3, <3>1
    <3> QED BY <1>1, <3>2
  <2> QED BY <2>1, <2>2
<1>6. q \in Plans(bs)
  BY <1>2, <1>4, <1>5 DEF Plans
<1> QED BY <1>6 DEF q

\* There are finitely many shares.
LEMMA SharesAreFinite ==
  ASSUME TypeOK, NEW order, NEW len \in Nat, DOMAIN order = 1..len
  PROVE  IsFiniteSet(Shares(order))
<1>1. IsFiniteSet(Neighbors)
  BY ScheduleAssumption, Zenon
<1>2. IsFiniteSet(neighbors)
  BY <1>1, FS_Subset DEF TypeOK
<1>3. IsFiniteSet(1..len) /\ IsFiniteSet(1..Unit)
  BY LimitsAre, FS_Interval
<1> DEFINE T    == neighbors \X (1..len) \X (1..Unit)
           Pair == neighbors \X ((1..len) \X (1..Unit))
           at   == [x \in T |-> <<x[1], <<x[2], x[3]>>>>]
<1>4. IsFiniteSet(Pair)
  BY <1>2, <1>3, FS_Product
<1>5. at \in Injection(T, Pair)
  <2>1. at \in [T -> Pair]
    OBVIOUS
  <2>2. ASSUME NEW x \in T, NEW y \in T, at[x] = at[y] PROVE x = y
    <3>1. x[1] = y[1] /\ x[2] = y[2] /\ x[3] = y[3]
      BY <2>2
    <3> QED BY <3>1
  <2> QED BY <2>1, <2>2 DEF Injection, IsInjective
<1>6. IsFiniteSet(T)
  <2> HIDE DEF T, Pair, at
  <2> QED BY <1>4, <1>5, FS_Injection
<1>7. Shares(order) \in SUBSET T
  BY DEF Shares
<1> QED BY <1>6, <1>7, FS_Subset

\* A plan that is not beaten holds a block in which someone has a share, unless the
\* means are used up: to hold the block for one slot more would count that share and
\* take back none.
LEMMA WantedIsPlanned ==
  ASSUME IInv, NEW order, NEW len \in Nat, DOMAIN order = 1..len,
         IsFiniteSet(ToSet(order)),
         ~NotANumber(order), NEW p \in Solutions(order),
         NEW n \in neighbors, NEW i \in 1..len, p[order[i]] = 0,
         Utility(n, order, i) \in Nat, Utility(n, order, i) >= 1
  PROVE  \/ Cardinality({c \in ToSet(order) : p[c] = 1}) >= Bandwidth
         \/ Cardinality({c \in ToSet(order) : p[c] > 0}) >= Storage
<1> DEFINE bs        == ToSet(order)
           b         == order[i]
           q         == [p EXCEPT ![b] = 1]
           shares    == Shares(order)
           Valued(s) == {x \in shares : Counts(s, x[1], order[x[2]])}
<1>1. /\ p \in Plans(bs)
      /\ Value(p, order, shares) = Max({Value(s, order, shares) : s \in Plans(bs)})
  BY DEF Solutions
<1>2. b \in bs
  BY DEF ToSet
<1>3. p \in [bs -> 0..MaxTTL + 2]
  BY <1>1 DEF Plans
<1>4. q[b] = 1 /\ \A c \in bs \ {b} : q[c] = p[c]
  BY <1>2, <1>3
<1>5. IsFiniteSet(shares)
  BY SharesAreFinite DEF IInv
<1>6. \A s : /\ Value(s, order, shares) = Cardinality(Valued(s))
             /\ IsFiniteSet(Valued(s)) /\ Cardinality(Valued(s)) \in Nat
             /\ Cardinality(Valued(s)) <= Cardinality(shares)
  <2> SUFFICES ASSUME NEW s
               PROVE  /\ Value(s, order, shares) = Cardinality(Valued(s))
                      /\ IsFiniteSet(Valued(s)) /\ Cardinality(Valued(s)) \in Nat
                      /\ Cardinality(Valued(s)) <= Cardinality(shares)
    OBVIOUS
  <2>1. Value(s, order, shares) = Cardinality(Valued(s))
    BY DEF Value
  <2>2. Valued(s) \in SUBSET shares
    OBVIOUS
  <2> HIDE DEF Valued, shares
  <2> QED BY <1>5, <2>1, <2>2, FS_Subset, FS_CardinalityType
<1>7. ASSUME NEW s \in Plans(bs)
      PROVE  Cardinality(Valued(s)) <= Cardinality(Valued(p))
  <2> DEFINE K == {Value(t, order, shares) : t \in Plans(bs)}
  <2>1. Cardinality(shares) \in Int
    BY <1>5, FS_CardinalityType
  <2>2. K \in SUBSET Int /\ K # {} /\ \A k \in K : k <= Cardinality(shares)
    <3>1. \A t \in Plans(bs) : /\ Value(t, order, shares) \in Int
                               /\ Value(t, order, shares) <= Cardinality(shares)
      <4> HIDE DEF Valued
      <4> QED BY <1>6
    <3>2. Value(p, order, shares) \in K
      BY <1>1
    <3> QED BY <3>1, <3>2
  <2>3. Value(p, order, shares) = Max(K) /\ Value(s, order, shares) \in K
    BY <1>1
  <2> HIDE DEF K, Valued, shares
  <2>4. \A k \in K : k <= Max(K)
    BY <2>1, <2>2, MaxIs
  <2> QED BY <1>6, <2>3, <2>4
<1>8. Valued(p) \subseteq Valued(q)
  <2> SUFFICES ASSUME NEW x \in shares, Counts(p, x[1], order[x[2]])
               PROVE  Counts(q, x[1], order[x[2]])
    OBVIOUS
  <2>1. order[x[2]] \in bs
    BY DEF Shares, ToSet
  <2>2. p[order[x[2]]] > 0
    BY DEF Counts
  <2>3. order[x[2]] # b
    BY <2>2
  <2>4. q[order[x[2]]] = p[order[x[2]]]
    BY <1>4, <2>1, <2>3
  <2> HIDE DEF q, shares
  <2> QED BY <2>4 DEF Counts
<1>9. <<n, i, 1>> \in Valued(q) /\ <<n, i, 1>> \notin Valued(p)
  <2>1. <<n, i, 1>> \in shares
    BY LimitsAre DEF Shares
  <2>2. Counts(q, n, b)
    <3>1. TTL(n, b) = -1 \/ TTL(n, b) \in Nat
      BY TTLIs
    <3>2. ~(TTL(n, b) # -1 /\ TTL(n, b) + 1 < 1)
      BY <3>1
    <3> HIDE DEF q
    <3> QED BY <1>4, <3>2 DEF Counts
  <2>3. ~Counts(p, n, b)
    BY DEF Counts
  <2> HIDE DEF shares, q
  <2> QED BY <2>1, <2>2, <2>3
<1>10. Cardinality(Valued(p)) < Cardinality(Valued(q))
  <2> HIDE DEF Valued
  <2>1. /\ Valued(p) \in SUBSET Valued(q) /\ Valued(p) # Valued(q)
        /\ IsFiniteSet(Valued(q))
        /\ Cardinality(Valued(p)) \in Nat /\ Cardinality(Valued(q)) \in Nat
    BY <1>6, <1>8, <1>9
  <2>2. /\ Cardinality(Valued(p)) <= Cardinality(Valued(q))
        /\ Cardinality(Valued(p)) # Cardinality(Valued(q))
    BY <2>1, FS_Subset
  <2> QED BY <2>1, <2>2
<1>11. q \notin Plans(bs)
  <2> HIDE DEF q, Valued
  <2> QED BY <1>6, <1>7, <1>10
<1>12. /\ Cardinality({c \in bs : p[c] > 0}) \in Nat
       /\ Cardinality({c \in bs : p[c] = 1}) \in Nat
  BY FS_Subset, FS_CardinalityType
<1>13. \/ ~(Cardinality({c \in bs : p[c] > 0}) < Storage)
       \/ ~(Cardinality({c \in bs : p[c] = 1}) < Bandwidth)
  <2>1. p[b] = 0 /\ IsFiniteSet(bs)
    OBVIOUS
  <2> HIDE DEF b, bs
  <2> QED BY <1>1, <1>2, <1>11, <2>1, HoldOneMore DEF q
<1> QED BY <1>12, <1>13, LimitsAre

-----------------------------------------------------------------------------
(* Theorems *)

\* What holds in every state: the types, at most one request per block in a list, and
\* a request for every block whose last request is alive (insert_request, get_utility).
THEOREM SchedulerInvariant == Spec => []IInv
BY InitIInv, NextIInv, PTL DEF Spec

\* Table and queue stay within their types and bounds, nothing but cached blocks is
\* frozen and only blocks that are found are sent (BlockResponseScheduler::sched).
THEOREM SchedulerTypeCorrect == Spec => []TypeOK
BY SchedulerInvariant, PTL DEF IInv

\* A request that is alive is listed exactly once, as its neighbour last made it, for
\* any neighbours, messages and durations (insert_request, get_utility).
THEOREM TableAnswersLatest == Spec => []TableIsLatest
<1>1. IInv => TableIsLatest
  BY AnswersLatest
<1> QED BY <1>1, SchedulerInvariant, PTL

\* What sched() does to a block that a neighbour wants: it is held, or so many others
\* are held or sent.
LEMMA SchedHolds ==
  ASSUME IInv, Sched, AllListsLive, NEW b \in Cached \cap Ready,
         NEW n \in neighbors, latest[n, b] >= 0
  PROVE  \/ b \in frozen'
         \/ Cardinality(Ready \ scheduled') >= Bandwidth
         \/ Cardinality(Ready \ (Cached \ frozen')) >= Storage
<1>0. TypeOK /\ Answers
  BY DEF IInv
<1> DEFINE d == [block |-> b, left |-> latest[n, b]]
<1>1. d.block = b /\ d.left >= 0 /\ n \in DOMAIN table /\ d \in ToSet(table[n])
  BY <1>0 DEF Answers, TypeOK, Cached
<1> HIDE DEF d
<1>2. IsFiniteSet(Ready)
  <2>1. IsFiniteSet(Blocks)
    BY ScheduleAssumption, Zenon
  <2> QED BY <1>0, <2>1, ReadyIs, FS_Subset
<1>3. PICK len \in Nat : len = Cardinality(Ready)
  BY <1>2, FS_CardinalityType
<1>4. PICK order \in Orders(Ready) : \E p \in Solutions(order) :
        LET now == {c \in Ready : p[c] = 1}
        IN  /\ scheduled' = Ready \ now
            /\ frozen' = (frozen \ {c \in Ready : p[c] = 0})
                           \cup {c \in Cached \cap Ready : p[c] > 0}
            /\ sent' = now \cap Found
  BY DEF Sched
<1>5. PICK p \in Solutions(order) :
        /\ scheduled' = Ready \ {c \in Ready : p[c] = 1}
        /\ {c \in Cached \cap Ready : p[c] > 0} \subseteq frozen'
  BY <1>4
<1>6. ToSet(order) = Ready /\ DOMAIN order = 1..len
  BY <1>3, <1>4 DEF Orders
<1>7. p \in [Ready -> 0..MaxTTL + 2]
  <2>1. p \in Plans(ToSet(order))
    BY DEF Solutions
  <2> QED BY <1>6, <2>1 DEF Plans
<1>8. ~NotANumber(order)
  <2> SUFFICES ASSUME NEW u \in neighbors \cap DOMAIN table, NEW i \in DOMAIN order,
                      Seen(u, order, i) = << >>
               PROVE  FALSE
    BY DEF NotANumber
  <2>1. PICK e \in ToSet(table[u]) : e.left >= 0
    BY DEF AllListsLive
  <2> QED BY <2>1, SeenIs
<1>9. PICK i \in 1..len : order[i] = b
  BY <1>6 DEF ToSet
<1>10. Utility(n, order, i) \in Nat /\ Utility(n, order, i) >= 1
  BY <1>1, <1>9, UtilityIs
<1>11. CASE p[b] > 0
  BY <1>5, <1>11
<1>12. CASE p[b] = 0
  <2>1. \/ Cardinality({c \in Ready : p[c] = 1}) >= Bandwidth
        \/ Cardinality({c \in Ready : p[c] > 0}) >= Storage
    BY <1>2, <1>6, <1>8, <1>9, <1>10, <1>12, WantedIsPlanned
  <2>2. Ready \ scheduled' = {c \in Ready : p[c] = 1}
    BY <1>5
  <2>3. Cardinality({c \in Ready : p[c] > 0}) <= Cardinality(Ready \ (Cached \ frozen'))
    <3>1. {c \in Ready : p[c] > 0} \in SUBSET (Ready \ (Cached \ frozen'))
      BY <1>5
    <3>2. IsFiniteSet(Ready \ (Cached \ frozen'))
      BY <1>2, FS_Subset
    <3> QED BY <3>1, <3>2, FS_Subset
  <2>4. /\ Cardinality({c \in Ready : p[c] > 0}) \in Nat
        /\ Cardinality(Ready \ (Cached \ frozen')) \in Nat
    BY <1>2, FS_Subset, FS_CardinalityType
  <2>5. ASSUME NEW held \in Nat, NEW all \in Nat, held <= all, held >= Storage
        PROVE  all >= Storage
    BY ONLY <2>5, held \in Nat, all \in Nat, LimitsAre
  <2> QED BY <2>1, <2>2, <2>3, <2>4, <2>5
<1>13. p[b] > 0 \/ p[b] = 0
  <2>1. p[b] \in 0..MaxTTL + 2
    BY <1>7
  <2> QED BY ONLY <2>1, LimitsAre
<1> QED BY <1>11, <1>12, <1>13

\* Whichever optimum the solver returns and in whatever order it is given the blocks, a
\* block that a neighbour wants is left unfrozen only when as many blocks are held or
\* sent as can be, for any limits (BlockResponseScheduler::sched, LPSolver::solve).
THEOREM WantedStayFrozen == Spec => WantedBlocksHeld
<1>1. IInv /\ [Next]_vars =>
        [due /\ ~due' /\ AllListsLive
          => \A b \in Cached \cap Ready :
               (\E n \in neighbors : latest[n, b] >= 0)
               => \/ b \in frozen'
                  \/ Cardinality(Ready \ scheduled') >= Bandwidth
                  \/ Cardinality(Ready \ (Cached \ frozen')) >= Storage]_vars
  <2> SUFFICES ASSUME IInv, Next, due, ~due', AllListsLive
               PROVE  Sched
    BY SchedHolds
  <2> QED BY DEF Next, Meet, OnBlockRequest, OnBlock, Publish, Elapse, clock
<1> QED BY SchedulerInvariant, <1>1, PTL DEF Spec, WantedBlocksHeld
===============================================================================
