-------------------------- MODULE SessionStreamProofs --------------------------
(***************************************************************************)
(* What is proved of the parts that MCSessionStream runs beside each       *)
(* other: of SessionStream for sessions of any length, pages and answers   *)
(* of any size and any number of faults, that a pane passes over no event  *)
(* it has not shown; of PausedEditor, ExchangeFeed, Spaces,                *)
(* TerminalFanout and Timeline, each in a section of its own, for any      *)
(* number of requests, exchanges, calls, viewers and rows.                 *)
(***************************************************************************)
EXTENDS MCSessionStream, FiniteSetTheorems, FunctionTheorems, SequenceTheorems, WellFoundedInduction, TLAPS

Covered == seen \cup {b.seq : b \in backfills}
OnTheWay == {frames[i] : i \in DOMAIN frames}

\* Every event up to s was shown or waits for the gap before it.
UpTo(s) == \A t \in committed : t <= s => t \in Covered

Server == [pc : {"closed", "load", "wait"}, sent : Int, from : Int, to : Int]

TypeOK ==
  /\ next \in Nat /\ committed \in SUBSET Nat
  /\ wire \in Seq(Int) /\ queue \in Seq(Int)
  /\ server \in Server /\ frames \in Seq(Nat)
  /\ shown \in SUBSET Nat /\ seen \in SUBSET Nat
  /\ answer \in SUBSET Int
  /\ lastSeq \in Int /\ backfills \in SUBSET [from : Int, seq : Nat]

\* Nothing is known but what is stored, and nothing is stored beyond the next seq.
Stored ==
  /\ \A s \in committed : s < next
  /\ shown \subseteq seen /\ seen \subseteq committed
  /\ \A b \in backfills : b.seq \in committed
  /\ OnTheWay \subseteq committed
  /\ lastSeq < next /\ server.sent < next

\* An answer of the store holds the events from the first on.
AnswerIsPrefix ==
  answer # NoBacklog =>
    /\ answer \subseteq committed
    /\ \A s \in answer, t \in committed : t <= s => t \in answer

Passed ==
  /\ UpTo(lastSeq)
  /\ \A s \in shown : UpTo(s)
  /\ \A b \in backfills : UpTo(b.seq)

\* What the stream has sent is with the pane or on the way to it, in order.
Sent ==
  /\ Streaming => \A t \in committed : t <= server.sent => t \in Covered \cup OnTheWay
  /\ ~Streaming => frames = <<>>
  /\ \A i, j \in DOMAIN frames : i < j => frames[i] < frames[j]
  /\ \A i \in DOMAIN frames : frames[i] <= server.sent
  /\ server.pc = "load" => server.from = server.sent + 1

Inv == TypeOK /\ Stored /\ AnswerIsPrefix /\ Passed /\ Sent

-----------------------------------------------------------------------------
(* Sets and sequences of seqs.                                             *)

\* A bounded set of seqs that is not empty has a highest one.
LEMMA MaxFact ==
  ASSUME NEW S \in SUBSET Nat, NEW n \in Nat, \A s \in S : s < n, S # {}
  PROVE  Max(S) \in S /\ \A s \in S : s <= Max(S)
<1> DEFINE T == {k \in Nat : n - k \in S}
<1>1. T # {} /\ T \subseteq Nat
  <2>1. PICK s \in S : TRUE
    OBVIOUS
  <2>2. n - s \in Nat /\ n - (n - s) = s
    BY <2>1
  <2> QED
    BY <2>1, <2>2
<1>2. PICK k \in T : \A j \in T : ~(<<j, k>> \in OpToRel(<, Nat))
  BY <1>1, WFMin, NatLessThanWellFounded
<1>3. \A j \in T : ~(j < k)
  BY <1>1, <1>2 DEF OpToRel
<1>4. n - k \in S /\ \A s \in S : s <= n - k
  <2>1. ASSUME NEW s \in S PROVE s <= n - k
    <3>1. n - s \in T
      <4>1. s < n /\ s \in Nat
        OBVIOUS
      <4>2. n - s \in Nat /\ n - (n - s) = s
        BY <4>1
      <4> QED
        BY <4>2
    <3> QED
      BY <1>1, <1>3, <3>1
  <2> QED
    BY <2>1
<1> HIDE DEF T
<1> QED
  BY <1>4 DEF Max

LEMMA SeqsAreFinite ==
  ASSUME NEW S \in SUBSET Nat, NEW n \in Nat, \A s \in S : s < n
  PROVE  IsFiniteSet(S)
<1>1. \A s \in S : s <= n
  OBVIOUS
<1> QED
  BY <1>1, FS_BoundedSetOfNaturals

\* A page holds the first rows: whatever is stored below one of its rows is in it.
LEMMA FirstOfFacts ==
  ASSUME NEW S \in SUBSET Nat, IsFiniteSet(S), NEW n \in Nat
  PROVE  /\ FirstOf(S, n) \subseteq S
         /\ \A s \in FirstOf(S, n), t \in S : t <= s => t \in FirstOf(S, n)
<1> DEFINE Below(s) == {t \in S : t <= s}
<1>0. FirstOf(S, n) \subseteq S
  BY DEF FirstOf
<1>1. SUFFICES ASSUME NEW s \in FirstOf(S, n), NEW t \in S, t <= s
               PROVE  t \in FirstOf(S, n)
  BY <1>0
<1>2. s \in S /\ Cardinality(Below(s)) <= n
  BY DEF FirstOf
<1>3. Below(t) \in SUBSET Below(s) /\ Below(s) \in SUBSET S
  <2>1. s \in Nat /\ t \in Nat
    BY <1>2
  <2>2. ASSUME NEW u \in Below(t) PROVE u \in Below(s)
    <3>1. u \in Nat /\ u \in S /\ u <= t
      OBVIOUS
    <3> QED
      BY <1>1, <2>1, <3>1
  <2> QED
    BY <2>2
<1>4. IsFiniteSet(Below(s)) /\ IsFiniteSet(Below(t))
  BY <1>3, FS_Subset
<1>5. Cardinality(Below(t)) <= Cardinality(Below(s))
  BY <1>3, <1>4, FS_Subset
<1>6. Cardinality(Below(t)) \in Nat /\ Cardinality(Below(s)) \in Nat
  BY <1>4, FS_CardinalityType
<1>7. Cardinality(Below(t)) <= n
  BY <1>2, <1>5, <1>6
<1> QED
  BY <1>7 DEF FirstOf

LEMMA SeqByLength ==
  ASSUME NEW S, NEW n \in Nat, NEW f \in [1..n -> S]
  PROVE  f \in Seq(S)
OBVIOUS

\* The rows of a page, each at its place.
LEMMA InOrderFacts ==
  ASSUME NEW S \in SUBSET Nat, IsFiniteSet(S), NEW rows \in InOrder(S)
  PROVE  /\ rows \in Seq(Nat)
         /\ S = {rows[i] : i \in DOMAIN rows}
         /\ \A i, j \in DOMAIN rows : i < j => rows[i] < rows[j]
<1> DEFINE n == Cardinality(S)
<1>1. n \in Nat
  BY FS_CardinalityType
<1>2. /\ rows \in [1..n -> S]
      /\ \A i, j \in DOMAIN rows : i < j => rows[i] < rows[j]
  BY DEF InOrder
<1> HIDE DEF n
<1>3. IsFiniteSet(1..n) /\ Cardinality(1..n) = n
  BY <1>1, FS_Interval
<1>4. n = Cardinality(S)
  BY DEF n
<1>5. rows \in Injection(1..n, S)
  <2>1. ASSUME NEW i \in 1..n, NEW j \in 1..n, rows[i] = rows[j]
        PROVE  i = j
    <3>1. rows[i] \in S /\ DOMAIN rows = 1..n
      BY <1>2
    <3>2. i \in Int /\ j \in Int
      BY <1>1
    <3>3. rows[i] \in Nat
      BY <3>1
    <3>4. ~(i < j) /\ ~(j < i)
      BY <1>2, <2>1, <3>1, <3>2, <3>3
    <3> QED
      BY <3>2, <3>4
  <2> QED
    BY <1>2, <2>1 DEF Injection, IsInjective
<1>6. rows \in Surjection(1..n, S)
  BY <1>3, <1>4, <1>5, FS_Injection
<1>7. S = {rows[i] : i \in 1..n}
  BY <1>2, <1>6 DEF Surjection
<1>8. rows \in [1..n -> Nat]
  BY <1>2
<1>9. rows \in Seq(Nat)
  BY <1>1, <1>8, SeqByLength
<1> QED
  BY <1>2, <1>7, <1>9

-----------------------------------------------------------------------------
(* The store and the hub.                                                  *)

LEMMA Types ==
  ASSUME TypeOK
  PROVE  /\ server.sent \in Int /\ server.from \in Int /\ server.to \in Int
         /\ server.pc \in {"closed", "load", "wait"}
         /\ \A b \in backfills : b.seq \in Nat /\ b.from \in Int
         /\ \A i \in DOMAIN frames : frames[i] \in Nat
         /\ DOMAIN frames = 1..Len(frames) /\ Len(frames) \in Nat
BY DEF TypeOK, Server

\* What is stored has a seq that nothing known so far reaches.
LEMMA CommitStep ==
  ASSUME Inv, Commits
  PROVE  Inv'
<1>1. PICK last \in next..MaxSeq : \E poison \in SUBSET (next..last) : Commit(last, poison)
  BY DEF Commits
<1>2. next \in Nat /\ last \in Nat /\ next <= last /\ next' = last + 1
  BY <1>1, StreamConstants DEF Inv, TypeOK, Commit
<1>3. /\ committed \subseteq committed'
      /\ committed' \in SUBSET Nat
      /\ \A s \in committed' : s < next'
      /\ \A s \in committed' \ committed : next <= s
  BY <1>1, <1>2 DEF Inv, TypeOK, Stored, Commit
<1>4. UNCHANGED <<queue, server, frames, shown, seen, answer, lastSeq, backfills>>
  BY <1>1 DEF Commit, stream, pane
<1>5. Covered' = Covered /\ OnTheWay' = OnTheWay
  BY <1>4 DEF Covered, OnTheWay
<1>6. wire' \in Seq(Int)
  <2>1. last \in Int
    BY <1>2
  <2> QED
    BY <1>1, <2>1, AppendProperties DEF Inv, TypeOK, Commit
<1>7. TypeOK'
  BY <1>2, <1>3, <1>4, <1>6 DEF Inv, TypeOK
<1>8. next < next' /\ lastSeq < next' /\ server.sent < next'
  <2>1. lastSeq \in Int /\ server.sent \in Int /\ lastSeq < next /\ server.sent < next
    BY Types DEF Inv, TypeOK, Stored
  <2> QED
    BY <1>2, <2>1
<1>9. Stored'
  BY <1>3, <1>4, <1>5, <1>8 DEF Inv, Stored
<1>10. AnswerIsPrefix'
  <2> SUFFICES ASSUME answer # NoBacklog
               PROVE  /\ answer \subseteq committed'
                      /\ \A s \in answer, t \in committed' : t <= s => t \in answer
    BY <1>4 DEF AnswerIsPrefix, NoBacklog
  <2>1. answer \subseteq committed /\ \A s \in answer, t \in committed : t <= s => t \in answer
    BY DEF Inv, AnswerIsPrefix
  <2>2. ASSUME NEW s \in answer, NEW t \in committed', t <= s PROVE t \in committed
    <3>1. s \in Nat /\ s < next /\ t \in Nat
      BY <1>3, <2>1 DEF Inv, TypeOK, Stored
    <3> QED
      BY <1>2, <1>3, <2>2, <3>1
  <2> QED
    BY <1>3, <2>1, <2>2
<1>11. ASSUME NEW s \in Int, s < next, UpTo(s) PROVE UpTo(s)'
  <2>1. ASSUME NEW t \in committed', t <= s PROVE t \in committed
    <3>1. t \in Nat
      BY <1>3
    <3> QED
      BY <1>2, <1>3, <1>11, <2>1, <3>1
  <2> QED
    BY <1>5, <1>11, <2>1 DEF UpTo
<1>12. Passed'
  <2>1. UpTo(lastSeq)'
    BY <1>4, <1>11 DEF Inv, TypeOK, Stored, Passed
  <2>2. \A t \in shown : t \in Int /\ t < next /\ UpTo(t)
    BY DEF Inv, TypeOK, Stored, Passed
  <2>3. \A b \in backfills : b.seq \in Int /\ b.seq < next /\ UpTo(b.seq)
    BY Types DEF Inv, Stored, Passed
  <2>4. \A t \in shown : UpTo(t)'
    BY <1>11, <2>2
  <2>5. \A b \in backfills : UpTo(b.seq)'
    BY <1>11, <2>3
  <2> QED
    BY <1>4, <2>1, <2>4, <2>5 DEF Passed, UpTo, Covered
<1>13. Sent'
  <2>1. \A t \in committed' : t <= server.sent => t \in committed
    <3>1. server.sent \in Int /\ server.sent < next
      BY Types DEF Inv, Stored
    <3>2. \A t \in committed' : t \in Nat
      BY <1>3
    <3> QED
      BY <1>2, <1>3, <3>1, <3>2
  <2> QED
    BY <1>4, <1>5, <2>1 DEF Inv, Sent, Streaming
<1> QED
  BY <1>7, <1>9, <1>10, <1>12, <1>13 DEF Inv

\* Signals and the connection that brings them touch nothing the pane knows.
LEMMA HubStep ==
  ASSUME Inv, wire' \in Seq(Int), queue' \in Seq(Int),
         UNCHANGED <<next, committed, server, frames, shown, seen, answer, lastSeq, backfills>>
  PROVE  Inv'
<1>1. TypeOK'
  BY DEF Inv, TypeOK
<1>2. Stored' /\ AnswerIsPrefix'
  BY DEF Inv, Stored, AnswerIsPrefix, OnTheWay
<1>3. Passed'
  BY DEF Inv, Passed, UpTo, Covered
<1>4. Sent'
  BY DEF Inv, Sent, Streaming, Covered, OnTheWay
<1> QED
  BY <1>1, <1>2, <1>3, <1>4 DEF Inv

LEMMA PublishFacts ==
  ASSUME TypeOK, NEW signal \in Int, Publish(signal)
  PROVE  queue' \in Seq(Int)
<1>1. queue \in Seq(Int)
  BY DEF TypeOK
<1>2. Append(queue, signal) \in Seq(Int)
  BY <1>1, AppendProperties
<1> QED
  BY <1>1, <1>2 DEF Publish

LEMMA NotifiedStep ==
  ASSUME Inv, Notified
  PROVE  Inv'
<1>1. Head(wire) \in Int /\ wire' \in Seq(Int)
  BY HeadTailProperties DEF Inv, TypeOK, Notified
<1>2. queue' \in Seq(Int)
  BY <1>1, PublishFacts DEF Inv, Notified
<1> QED
  BY <1>1, <1>2, HubStep DEF Notified, stream, pane

LEMMA ListenerStep ==
  ASSUME Inv, ListenerDrops \/ ListenerConnects
  PROVE  Inv'
<1>1. CASE ListenerDrops
  BY <1>1, HubStep DEF ListenerDrops, stream, pane, Inv, TypeOK
<1>2. CASE ListenerConnects
  <2>1. queue' \in Seq(Int)
    BY <1>2, PublishFacts DEF Inv, ListenerConnects, CatchUp
  <2> QED
    BY <1>2, <2>1, HubStep DEF ListenerConnects, stream, pane, Inv, TypeOK
<1> QED
  BY <1>1, <1>2

-----------------------------------------------------------------------------
(* The stream endpoint.                                                    *)

LEMMA OpenStep ==
  ASSUME Inv, Open
  PROVE  Inv'
<1>1. /\ server' = [pc |-> "load", sent |-> lastSeq, from |-> lastSeq + 1, to |-> Unbounded]
      /\ ~Streaming /\ queue' = <<>>
      /\ UNCHANGED <<next, committed, wire, frames, shown, seen, answer, lastSeq, backfills>>
  BY DEF Open, pane
<1>2. /\ server' \in Server /\ server'.sent = lastSeq /\ server'.from = lastSeq + 1 /\ server'.pc = "load"
  BY <1>1, StreamConstants DEF Server, Unbounded, Inv, TypeOK
<1>3. frames = <<>> /\ frames' = <<>>
  BY <1>1 DEF Inv, Sent
<1>4. TypeOK' /\ Stored' /\ AnswerIsPrefix'
  BY <1>1, <1>2 DEF Inv, TypeOK, Stored, AnswerIsPrefix, OnTheWay
<1>5. Passed' /\ Covered' = Covered
  BY <1>1 DEF Inv, Passed, UpTo, Covered
<1>6. Sent'
  BY <1>1, <1>2, <1>3, <1>5 DEF Inv, Passed, UpTo, Sent, Streaming
<1> QED
  BY <1>4, <1>5, <1>6 DEF Inv

\* Pages follow one another without a gap.
LEMMA LoadPageStep ==
  ASSUME Inv, LoadPage
  PROVE  Inv'
<1> DEFINE R == {s \in committed : server.from <= s /\ s <= server.to}
           page == FirstOf(R, FetchLimit)
<1>1. PICK rows \in InOrder(page) :
        /\ frames' = frames \o rows
        /\ server' = [server EXCEPT !.sent = IF page = {} THEN @ ELSE Max(page),
                                    !.from = IF page = {} THEN @ ELSE Max(page) + 1,
                                    !.pc = IF Cardinality(page) < FetchLimit THEN "wait" ELSE @]
  BY DEF LoadPage
<1>2. /\ R \in SUBSET Nat /\ R \subseteq committed /\ next \in Nat
      /\ \A s \in R : s < next
  BY DEF Inv, TypeOK, Stored
<1>3. IsFiniteSet(R)
  BY <1>2, SeqsAreFinite
<1>4. page \subseteq R /\ \A s \in page, t \in R : t <= s => t \in page
  BY <1>2, <1>3, FirstOfFacts, StreamConstants
<1>5. page \in SUBSET Nat /\ IsFiniteSet(page) /\ \A s \in page : s < next
  BY <1>2, <1>3, <1>4, FS_Subset
<1>6. server.pc = "load" /\ server.from = server.sent + 1 /\ Streaming
  BY DEF LoadPage, Inv, Sent, Streaming
<1>7. /\ server.sent \in Int /\ server.from \in Int /\ server.to \in Int
      /\ server.sent < next /\ server \in Server
  BY Types DEF Inv, TypeOK, Stored
<1>8. \A s \in R : server.from <= s /\ s <= server.to
  OBVIOUS
<1>9. \A t \in committed : server.from <= t /\ t <= server.to => t \in R
  OBVIOUS
<1>10. UNCHANGED <<next, committed, wire, queue, shown, seen, answer, lastSeq, backfills>>
  BY DEF LoadPage, pane
<1> HIDE DEF R, page
<1> DEFINE m == IF page = {} THEN server.sent ELSE Max(page)
<1>11. page # {} => Max(page) \in page /\ \A s \in page : s <= Max(page)
  BY <1>2, <1>5, MaxFact
<1>12. /\ m \in Int /\ server.sent <= m /\ m < next
       /\ \A s \in page : s <= m
       /\ m = server.sent \/ (m \in page /\ m \in Nat)
  <2>1. CASE page = {}
    BY <1>7, <2>1
  <2>2. CASE page # {}
    <3>1. m = Max(page) /\ m \in page /\ \A s \in page : s <= m
      BY <1>11, <2>2
    <3>2. m \in Nat /\ m < next /\ server.from <= m
      BY <1>4, <1>5, <1>8, <3>1
    <3> QED
      BY <1>6, <1>7, <3>1, <3>2
  <2> QED
    BY <2>1, <2>2
<1>13. /\ server' \in Server /\ server'.sent = m /\ server'.from = m + 1
       /\ server'.pc # "closed"
  <2> DEFINE f == IF page = {} THEN server.from ELSE Max(page) + 1
             c == IF Cardinality(page) < FetchLimit THEN "wait" ELSE server.pc
  <2>1. server' = [server EXCEPT !.sent = m, !.from = f, !.pc = c]
    BY <1>1
  <2>2. f = m + 1 /\ f \in Int /\ c \in {"wait", "load"}
    BY <1>6, <1>12
  <2> HIDE DEF f, c, m
  <2>3. server' \in Server /\ server'.sent = m /\ server'.from = f /\ server'.pc = c
    BY <1>7, <1>12, <2>1, <2>2 DEF Server
  <2> QED
    BY <2>2, <2>3
<1> HIDE DEF m
<1>14. /\ rows \in Seq(Nat) /\ page = {rows[i] : i \in DOMAIN rows}
       /\ \A i, j \in DOMAIN rows : i < j => rows[i] < rows[j]
  BY <1>5, InOrderFacts
<1>15. frames \in Seq(Nat)
  BY DEF Inv, TypeOK
<1>16. /\ frames' \in Seq(Nat) /\ Len(frames') = Len(frames) + Len(rows)
       /\ Len(frames) \in Nat /\ Len(rows) \in Nat
       /\ DOMAIN frames = 1..Len(frames) /\ DOMAIN rows = 1..Len(rows)
       /\ DOMAIN frames' = 1..(Len(frames) + Len(rows))
       /\ \A i \in 1..(Len(frames) + Len(rows)) :
            frames'[i] = IF i <= Len(frames) THEN frames[i] ELSE rows[i - Len(frames)]
  BY <1>1, <1>14, <1>15, ConcatProperties
<1>17. /\ \A i \in DOMAIN frames' :
            \/ i \in DOMAIN frames /\ frames'[i] = frames[i]
            \/ i - Len(frames) \in DOMAIN rows /\ frames'[i] = rows[i - Len(frames)] /\ frames'[i] \in page
       /\ \A i \in DOMAIN frames : i \in DOMAIN frames' /\ frames'[i] = frames[i]
       /\ \A j \in DOMAIN rows : j + Len(frames) \in DOMAIN frames' /\ frames'[j + Len(frames)] = rows[j]
  <2> DEFINE a == Len(frames)
             b == Len(rows)
  <2>1. /\ a \in Nat /\ b \in Nat /\ DOMAIN frames = 1..a /\ DOMAIN rows = 1..b /\ DOMAIN frames' = 1..(a + b)
        /\ \A i \in 1..(a + b) : frames'[i] = IF i <= a THEN frames[i] ELSE rows[i - a]
    BY <1>16
  <2> HIDE DEF a, b
  <2>2. ASSUME NEW i \in 1..(a + b)
        PROVE  \/ i \in 1..a /\ frames'[i] = frames[i]
               \/ i - a \in 1..b /\ frames'[i] = rows[i - a]
    BY <2>1
  <2>3. ASSUME NEW i \in 1..a
        PROVE  i \in 1..(a + b) /\ frames'[i] = frames[i]
    BY <2>1
  <2>4. ASSUME NEW j \in 1..b
        PROVE  j + a \in 1..(a + b) /\ frames'[j + a] = rows[j]
    <3>1. j + a \in 1..(a + b) /\ ~(j + a <= a) /\ (j + a) - a = j
      BY <2>1
    <3> QED
      BY <2>1, <3>1
  <2>5. \A j \in DOMAIN rows : rows[j] \in page
    BY <1>14
  <2> QED
    BY <2>1, <2>2, <2>3, <2>4, <2>5 DEF a, b
<1>18. OnTheWay' = OnTheWay \cup page
  <2>1. OnTheWay' \subseteq OnTheWay \cup page
    BY <1>17 DEF OnTheWay
  <2>2. OnTheWay \subseteq OnTheWay'
    BY <1>17 DEF OnTheWay
  <2>3. page \subseteq OnTheWay'
    BY <1>14, <1>17 DEF OnTheWay
  <2> QED
    BY <2>1, <2>2, <2>3
<1>19. TypeOK'
  BY <1>10, <1>13, <1>16 DEF Inv, TypeOK
<1>20. Stored' /\ AnswerIsPrefix'
  BY <1>2, <1>4, <1>10, <1>12, <1>13, <1>18 DEF Inv, Stored, AnswerIsPrefix
<1>21. Passed' /\ Covered' = Covered
  BY <1>10 DEF Inv, Passed, UpTo, Covered
<1>22. \A t \in committed : t <= m => t \in Covered \cup OnTheWay \cup page
  <2> SUFFICES ASSUME NEW t \in committed, t <= m, ~(t <= server.sent)
               PROVE  t \in page
    BY <1>6 DEF Inv, Sent
  <2>1. t \in Nat /\ server.from <= t
    BY <1>6, <1>7 DEF Inv, TypeOK
  <2>2. m \in page /\ m \in Nat /\ m <= server.to
    BY <1>4, <1>8, <1>12, <2>1, <1>7
  <2>3. t \in R
    BY <1>7, <1>9, <2>1, <2>2
  <2> QED
    BY <1>4, <2>2, <2>3
<1>23. \A i \in DOMAIN frames' : frames'[i] <= m
  BY <1>7, <1>12, <1>17, Types DEF Inv, Sent
<1>24. \A i, j \in DOMAIN frames' : i < j => frames'[i] < frames'[j]
  <2> SUFFICES ASSUME NEW i \in DOMAIN frames', NEW j \in DOMAIN frames', i < j
               PROVE  frames'[i] < frames'[j]
    OBVIOUS
  <2>1. CASE i <= Len(frames) /\ j <= Len(frames)
    BY <1>16, <2>1 DEF Inv, Sent
  <2>2. CASE i <= Len(frames) /\ ~(j <= Len(frames))
    <3>1. frames'[i] = frames[i] /\ frames[i] \in Nat /\ frames[i] <= server.sent
      BY <1>16, <2>2, Types DEF Inv, Sent
    <3>2. frames'[j] \in page
      <4>1. j \notin DOMAIN frames
        BY <1>16, <2>2
      <4> QED
        BY <1>17, <4>1
    <3>3. frames'[j] \in Nat /\ server.from <= frames'[j]
      BY <1>4, <1>5, <1>8, <3>2
    <3> QED
      BY <1>6, <1>7, <3>1, <3>3
  <2>3. CASE ~(i <= Len(frames)) /\ ~(j <= Len(frames))
    <3>1. /\ i - Len(frames) \in DOMAIN rows /\ j - Len(frames) \in DOMAIN rows
          /\ i - Len(frames) < j - Len(frames)
          /\ frames'[i] = rows[i - Len(frames)] /\ frames'[j] = rows[j - Len(frames)]
      <4>1. i \notin DOMAIN frames /\ j \notin DOMAIN frames /\ i \in Int /\ j \in Int
        BY <1>16, <2>3
      <4>2. i - Len(frames) < j - Len(frames)
        BY <1>16, <4>1
      <4> QED
        BY <1>17, <4>1, <4>2
    <3> QED
      BY <1>14, <3>1
  <2>4. ~(~(i <= Len(frames)) /\ j <= Len(frames))
    BY <1>16
  <2> QED
    BY <2>1, <2>2, <2>3, <2>4
<1>25. Sent'
  BY <1>10, <1>13, <1>18, <1>21, <1>22, <1>23, <1>24 DEF Sent, Streaming
<1> QED
  BY <1>19, <1>20, <1>21, <1>25 DEF Inv

LEMMA TakeSignalStep ==
  ASSUME Inv, TakeSignal
  PROVE  Inv'
<1>1. Head(queue) \in Int /\ queue' \in Seq(Int) /\ server.pc = "wait" /\ server \in Server
  BY HeadTailProperties DEF TakeSignal, Inv, TypeOK
<1>2. UNCHANGED <<next, committed, wire, frames, shown, seen, answer, lastSeq, backfills>>
  BY DEF TakeSignal, pane
<1>3. /\ server' \in Server /\ server'.sent = server.sent /\ server'.pc # "closed"
      /\ server'.pc = "load" => server'.from = server'.sent + 1
  <2> DEFINE upto == IF Head(queue) = CatchUp THEN Unbounded ELSE Head(queue)
             f == server.sent + 1
             y == [server EXCEPT !.pc = "load", !.from = f, !.to = upto]
  <2>1. server' = server \/ server' = y
    BY DEF TakeSignal
  <2>2. upto \in Int /\ f \in Int /\ f = server.sent + 1
    BY <1>1, StreamConstants DEF Unbounded, Server
  <2> HIDE DEF upto, f
  <2>3. y \in Server /\ y.pc = "load" /\ y.sent = server.sent /\ y.from = f
    BY <1>1, <2>2 DEF Server
  <2> HIDE DEF y
  <2> QED
    BY <1>1, <2>1, <2>2, <2>3
<1>4. TypeOK' /\ Stored' /\ AnswerIsPrefix'
  BY <1>1, <1>2, <1>3 DEF Inv, TypeOK, Stored, AnswerIsPrefix, OnTheWay
<1>5. Passed' /\ Covered' = Covered /\ OnTheWay' = OnTheWay
  BY <1>2 DEF Inv, Passed, UpTo, Covered, OnTheWay
<1>6. Sent'
  BY <1>1, <1>2, <1>3, <1>5 DEF Inv, Sent, Streaming
<1> QED
  BY <1>4, <1>5, <1>6 DEF Inv

LEMMA StreamBreaksStep ==
  ASSUME Inv, StreamBreaks
  PROVE  Inv'
<1>1. /\ UNCHANGED <<next, committed, wire, shown, seen, answer, lastSeq, backfills>>
      /\ server' = [server EXCEPT !.pc = "closed"] /\ frames' = <<>> /\ queue' = <<>>
  BY DEF StreamBreaks, pane
<1>2. server' \in Server /\ server'.sent = server.sent /\ server'.pc = "closed"
  <2>1. server \in Server
    BY DEF Inv, TypeOK
  <2> QED
    BY <1>1, <2>1 DEF Server
<1>3. OnTheWay' = {}
  BY <1>1 DEF OnTheWay
<1>4. TypeOK' /\ Stored' /\ AnswerIsPrefix'
  BY <1>1, <1>2, <1>3 DEF Inv, TypeOK, Stored, AnswerIsPrefix
<1>5. Passed' /\ Sent'
  BY <1>1, <1>2 DEF Inv, Passed, UpTo, Covered, Sent, Streaming
<1> QED
  BY <1>4, <1>5 DEF Inv

-----------------------------------------------------------------------------
(* The pane.                                                               *)

\* lastSeqRef follows the pane's highest event or stays with what a handler left in it.
LEMMA ShowFacts ==
  ASSUME NEW n \in Nat, NEW events \in SUBSET Nat, \A s \in events : s < n,
         NEW last \in Int, last < n, Show(events, last)
  PROVE  /\ shown' = events /\ seen' = seen \cup events
         /\ lastSeq' \in Int /\ lastSeq' < n
         /\ lastSeq' \in events \cup {last, -1}
<1>1. events # {} => Max(events) \in events
  BY MaxFact
<1>2. Highest(events) \in events \cup {-1}
  BY <1>1 DEF Highest
<1>3. shown' = events /\ seen' = seen \cup events /\ lastSeq' \in {Highest(events), last}
  BY DEF Show
<1>4. \A s \in events \cup {last, -1} : s \in Int /\ s < n
  OBVIOUS
<1> QED
  BY <1>2, <1>3, <1>4

\* The pane comes to show `events`: nothing it passes by that is uncovered, as long as it
\* forgets no gap whose end it does not show.
LEMMA PaneStep ==
  ASSUME Inv, NEW events \in SUBSET committed, NEW last \in Int, last < next, Show(events, last),
         UNCHANGED <<next, committed, wire, queue, server>>,
         backfills' \subseteq backfills,
         \A b \in backfills \ backfills' : b.seq \in events,
         frames' \in Seq(Nat), OnTheWay' \subseteq OnTheWay, OnTheWay \subseteq OnTheWay' \cup events,
         ~Streaming => frames' = <<>>,
         \A i, j \in DOMAIN frames' : i < j => frames'[i] < frames'[j],
         \A i \in DOMAIN frames' : frames'[i] <= server.sent,
         answer' \in {answer, NoBacklog},
         \A s \in events \cup {last} : \A t \in committed : t <= s => t \in Covered \cup events
  PROVE  Inv'
<1>1. /\ events \in SUBSET Nat /\ next \in Nat /\ \A s \in events : s < next
      /\ committed \in SUBSET Nat
  BY DEF Inv, TypeOK, Stored
<1>2. /\ shown' = events /\ seen' = seen \cup events
      /\ lastSeq' \in Int /\ lastSeq' < next
      /\ lastSeq' \in events \cup {last, -1}
  BY <1>1, ShowFacts
<1>3. Covered \cup events \subseteq Covered'
  BY <1>2 DEF Covered
<1>4. TypeOK'
  BY <1>1, <1>2 DEF Inv, TypeOK, NoBacklog
<1>5. Stored'
  BY <1>1, <1>2 DEF Inv, Stored
<1>6. AnswerIsPrefix'
  BY DEF Inv, AnswerIsPrefix
<1>7. \A s \in events \cup {last, -1} : UpTo(s)'
  <2>1. UpTo(-1)'
    BY <1>1 DEF UpTo
  <2>2. \A s \in events \cup {last} : UpTo(s)'
    BY <1>3 DEF UpTo
  <2> QED
    BY <2>1, <2>2
<1>8. \A b \in backfills' : UpTo(b.seq)'
  BY <1>3 DEF Inv, Passed, UpTo
<1>9. Passed'
  BY <1>2, <1>7, <1>8 DEF Passed, UpTo, Covered
<1>10. Sent'
  BY <1>3 DEF Inv, Sent, Streaming
<1> QED
  BY <1>4, <1>5, <1>6, <1>9, <1>10 DEF Inv

LEMMA FramesUnchanged ==
  ASSUME Inv, UNCHANGED <<server, frames>>
  PROVE  /\ frames' \in Seq(Nat) /\ OnTheWay' = OnTheWay
         /\ ~Streaming => frames' = <<>>
         /\ \A i, j \in DOMAIN frames' : i < j => frames'[i] < frames'[j]
         /\ \A i \in DOMAIN frames' : frames'[i] <= server.sent
BY DEF Inv, TypeOK, Sent, OnTheWay

\* The message that is taken is the first of those on the way.
LEMMA FramesTaken ==
  ASSUME Inv, frames # <<>>, frames' = Tail(frames)
  PROVE  /\ frames' \in Seq(Nat) /\ OnTheWay' \subseteq OnTheWay
         /\ OnTheWay \subseteq OnTheWay' \cup {Head(frames)}
         /\ ~Streaming => frames' = <<>>
         /\ \A i, j \in DOMAIN frames' : i < j => frames'[i] < frames'[j]
         /\ \A i \in DOMAIN frames' : frames'[i] <= server.sent
         /\ Head(frames) \in OnTheWay /\ \A t \in OnTheWay : Head(frames) <= t
         /\ Head(frames) <= server.sent
<1> DEFINE n == Len(frames)
<1>1. frames \in Seq(Nat) /\ n \in Nat /\ DOMAIN frames = 1..n /\ 1 \in 1..n /\ Head(frames) = frames[1]
  BY DEF Inv, TypeOK
<1>2. /\ frames' \in Seq(Nat) /\ DOMAIN frames' = 1..(n - 1)
      /\ \A i \in 1..(n - 1) : frames'[i] = frames[i + 1]
  BY <1>1, HeadTailProperties
<1> HIDE DEF n
<1>3. \A i \in 1..(n - 1) : i + 1 \in 1..n /\ i \in Int
  BY <1>1
<1>4. \A i \in 1..n : i = 1 \/ (1 < i /\ i - 1 \in 1..(n - 1) /\ (i - 1) + 1 = i)
  BY <1>1
<1>5. \A i \in 1..n : frames[i] \in Nat /\ frames[i] <= server.sent /\ frames[1] <= frames[i]
  <2> SUFFICES ASSUME NEW i \in 1..n
               PROVE  frames[i] \in Nat /\ frames[i] <= server.sent /\ frames[1] <= frames[i]
    OBVIOUS
  <2>1. frames[i] \in Nat /\ frames[1] \in Nat
    BY <1>1
  <2>2. frames[i] <= server.sent
    BY <1>1 DEF Inv, Sent
  <2>3. i = 1 \/ frames[1] < frames[i]
    BY <1>1, <1>4 DEF Inv, Sent
  <2> QED
    BY <2>1, <2>2, <2>3
<1>6. OnTheWay' \subseteq OnTheWay
  BY <1>1, <1>2, <1>3 DEF OnTheWay
<1>7. OnTheWay \subseteq OnTheWay' \cup {frames[1]}
  <2> SUFFICES ASSUME NEW i \in 1..n
               PROVE  frames[i] \in OnTheWay' \cup {frames[1]}
    BY <1>1 DEF OnTheWay
  <2> DEFINE k == i - 1
  <2>1. i = 1 \/ (k \in 1..(n - 1) /\ k + 1 = i)
    BY <1>4
  <2> HIDE DEF k
  <2>2. i = 1 \/ (k \in DOMAIN frames' /\ frames'[k] = frames[i])
    BY <1>2, <2>1
  <2> QED
    BY <2>2 DEF OnTheWay
<1>8. \A i, j \in 1..(n - 1) : i < j => frames'[i] < frames'[j]
  <2> SUFFICES ASSUME NEW i \in 1..(n - 1), NEW j \in 1..(n - 1), i < j
               PROVE  frames[i + 1] < frames[j + 1]
    BY <1>2
  <2>1. i + 1 \in 1..n /\ j + 1 \in 1..n /\ i + 1 < j + 1
    BY <1>3
  <2> QED
    BY <1>1, <2>1 DEF Inv, Sent
<1>9. \A i \in DOMAIN frames' : frames'[i] <= server.sent
  BY <1>2, <1>3, <1>5
<1>10. Streaming
  BY DEF Inv, Sent
<1>11. \A t \in OnTheWay : frames[1] <= t
  BY <1>1, <1>5 DEF OnTheWay
<1> QED
  BY <1>1, <1>2, <1>5, <1>6, <1>7, <1>8, <1>9, <1>10, <1>11 DEF OnTheWay

LEMMA ReceiveStep ==
  ASSUME Inv, Receive
  PROVE  Inv'
<1> DEFINE s == Head(frames)
<1>1. /\ frames # <<>> /\ frames' = Tail(frames)
      /\ UNCHANGED <<next, committed, wire, queue, server, answer>>
      /\ \/ s <= lastSeq /\ UNCHANGED <<shown, lastSeq, seen, backfills>>
         \/ s = lastSeq + 1 /\ Show(shown \cup {s}, s) /\ UNCHANGED backfills
         \/ /\ s > lastSeq + 1
            /\ backfills' = backfills \cup {[from |-> lastSeq + 1, seq |-> s]}
            /\ UNCHANGED <<shown, lastSeq, seen>>
  BY DEF Receive
<1>2. /\ frames' \in Seq(Nat) /\ OnTheWay' \subseteq OnTheWay /\ OnTheWay \subseteq OnTheWay' \cup {s}
      /\ ~Streaming => frames' = <<>>
      /\ \A i, j \in DOMAIN frames' : i < j => frames'[i] < frames'[j]
      /\ \A i \in DOMAIN frames' : frames'[i] <= server.sent
      /\ s \in OnTheWay /\ \A t \in OnTheWay : s <= t
      /\ s <= server.sent
  BY <1>1, FramesTaken
<1> HIDE DEF s
<1>3. /\ s \in committed /\ s \in Nat /\ s < next /\ lastSeq \in Int
      /\ committed \in SUBSET Nat /\ shown \in SUBSET committed
  BY <1>2 DEF Inv, TypeOK, Stored
<1>4. Streaming
  BY <1>1 DEF Inv, Sent
<1>5. CASE s = lastSeq + 1 /\ Show(shown \cup {s}, s) /\ UNCHANGED backfills
  <2> DEFINE events == shown \cup {s}
  <2>1. ASSUME NEW x \in events \cup {s}, NEW t \in committed, t <= x
        PROVE  t \in Covered \cup events
    <3>1. CASE x \in shown
      BY <2>1, <3>1 DEF Inv, Passed, UpTo
    <3>2. CASE x = s
      <4>1. t = s \/ t <= lastSeq
        BY <1>3, <1>5, <2>1, <3>2
      <4> QED
        BY <4>1 DEF Inv, Passed, UpTo
    <3> QED
      BY <3>1, <3>2
  <2>2. events \in SUBSET committed
    BY <1>3
  <2>3. Show(events, s)
    BY <1>5
  <2>4. s \in events
    OBVIOUS
  <2> HIDE DEF events
  <2>5. OnTheWay \subseteq OnTheWay' \cup events /\ s \in Int
    BY <1>2, <1>3, <2>4
  <2> QED
    BY <1>1, <1>2, <1>3, <1>5, <2>1, <2>2, <2>3, <2>5, PaneStep
<1>6. CASE /\ UNCHANGED <<shown, lastSeq, seen>>
           /\ \/ s <= lastSeq /\ UNCHANGED backfills
              \/ s > lastSeq + 1 /\ backfills' = backfills \cup {[from |-> lastSeq + 1, seq |-> s]}
  <2>1. /\ backfills' \in SUBSET [from : Int, seq : Nat]
        /\ backfills \subseteq backfills'
        /\ \A b \in backfills' : b \in backfills \/ (b.seq = s /\ s > lastSeq + 1)
    <3>1. [from |-> lastSeq + 1, seq |-> s] \in [from : Int, seq : Nat]
      BY <1>3
    <3> QED
      BY <1>6, <3>1 DEF Inv, TypeOK
  <2>2. s <= lastSeq \/ \E b \in backfills' : b.seq = s
    <3>1. [from |-> lastSeq + 1, seq |-> s].seq = s
      OBVIOUS
    <3> QED
      BY <1>6, <3>1
  <2>3. Covered \subseteq Covered'
    BY <1>6, <2>1 DEF Covered
  <2>4. s \in Covered'
    BY <1>3, <2>2, <2>3 DEF Inv, Passed, UpTo, Covered
  <2>5. TypeOK'
    BY <1>1, <1>2, <1>6, <2>1 DEF Inv, TypeOK
  <2>6. Stored'
    BY <1>1, <1>2, <1>3, <1>6, <2>1 DEF Inv, Stored
  <2>7. AnswerIsPrefix'
    BY <1>1 DEF Inv, AnswerIsPrefix
  <2>8. \A t \in committed : t <= s => t \in Covered'
    <3> SUFFICES ASSUME NEW t \in committed, t <= s
                 PROVE  t \in Covered'
      OBVIOUS
    <3>1. t <= server.sent
      BY <1>2, <1>3, Types DEF Inv, TypeOK
    <3>2. t \in Covered \/ t \in OnTheWay
      BY <1>4, <3>1 DEF Inv, Sent
    <3>3. t \in OnTheWay => t = s
      BY <1>2, <1>3
    <3> QED
      BY <2>3, <2>4, <3>2, <3>3
  <2>9. Passed'
    BY <1>1, <1>6, <2>1, <2>3, <2>8 DEF Inv, Passed, UpTo
  <2>10. Sent'
    BY <1>1, <1>2, <2>3, <2>4 DEF Inv, Sent, Streaming
  <2> QED
    BY <2>5, <2>6, <2>7, <2>9, <2>10 DEF Inv
<1> QED
  BY <1>1, <1>5, <1>6

LEMMA BackfillArrivesStep ==
  ASSUME Inv, NEW b \in backfills, BackfillArrives(b)
  PROVE  Inv'
<1> DEFINE events == shown \cup Missing(b) \cup {b.seq}
<1>1. /\ Show(events, b.seq) /\ backfills' = backfills \ {b}
      /\ UNCHANGED <<next, committed, wire, queue, server, frames, answer>>
  BY DEF BackfillArrives, stream
<1>2. /\ b.seq \in committed /\ b.seq \in Int /\ b.seq < next /\ committed \in SUBSET Nat
      /\ shown \subseteq committed
  BY Types DEF Inv, TypeOK, Stored
<1>3. Missing(b) \subseteq committed /\ \A s \in Missing(b) : s < b.seq
  BY DEF Missing, FirstOf
<1>4. UpTo(b.seq)
  BY DEF Inv, Passed
<1>5. ASSUME NEW x \in events \cup {b.seq}, NEW t \in committed, t <= x
      PROVE  t \in Covered \cup events
  <2>1. CASE x \in shown
    BY <1>5, <2>1 DEF Inv, Passed, UpTo
  <2>2. CASE x \notin shown
    <3>1. x <= b.seq /\ x \in Int /\ t \in Int
      BY <1>2, <1>3, <1>5, <2>2
    <3> QED
      BY <1>2, <1>4, <1>5, <3>1 DEF UpTo
  <2> QED
    BY <2>1, <2>2
<1>6. events \in SUBSET committed /\ b.seq \in events
  BY <1>2, <1>3
<1> HIDE DEF events
<1> QED
  BY <1>1, <1>2, <1>5, <1>6, FramesUnchanged, PaneStep

LEMMA BackfillFailsStep ==
  ASSUME Inv, NEW b \in backfills, BackfillFails(b)
  PROVE  Inv'
<1> DEFINE events == shown \cup {b.seq}
           last == Max({lastSeq, b.seq})
<1>1. /\ Show(events, last) /\ backfills' = backfills \ {b}
      /\ UNCHANGED <<next, committed, wire, queue, server, frames, answer>>
  BY DEF BackfillFails, stream
<1>2. /\ b.seq \in committed /\ b.seq \in Int /\ b.seq < next /\ committed \in SUBSET Nat
      /\ shown \subseteq committed /\ lastSeq \in Int /\ lastSeq < next
  BY Types DEF Inv, TypeOK, Stored
<1>3. last \in {lastSeq, b.seq}
  BY <1>2 DEF Max
<1> HIDE DEF last
<1>4. ASSUME NEW x \in events \cup {last}, NEW t \in committed, t <= x
      PROVE  t \in Covered \cup events
  BY <1>3, <1>4 DEF Inv, Passed, UpTo
<1>5. events \in SUBSET committed /\ b.seq \in events /\ last \in Int /\ last < next
  BY <1>2, <1>3
<1> HIDE DEF events
<1> QED
  BY <1>1, <1>4, <1>5, FramesUnchanged, PaneStep

LEMMA QueryBacklogStep ==
  ASSUME Inv, QueryBacklog
  PROVE  Inv'
<1>1. /\ answer' = FirstOf(committed, ListLimit)
      /\ UNCHANGED <<next, committed, wire, queue, server, frames, shown, seen, lastSeq, backfills>>
  BY DEF QueryBacklog, stream
<1>2. committed \in SUBSET Nat /\ IsFiniteSet(committed)
  BY SeqsAreFinite DEF Inv, TypeOK, Stored
<1>3. /\ answer' \subseteq committed
      /\ \A s \in answer', t \in committed : t <= s => t \in answer'
  BY <1>1, <1>2, FirstOfFacts, StreamConstants
<1>4. TypeOK' /\ Stored' /\ AnswerIsPrefix'
  <2>1. answer' \in SUBSET Int
    BY <1>2, <1>3
  <2>2. TypeOK'
    BY <1>1, <2>1 DEF Inv, TypeOK
  <2>3. Stored'
    BY <1>1 DEF Inv, Stored, OnTheWay
  <2>4. AnswerIsPrefix'
    BY <1>1, <1>3 DEF AnswerIsPrefix
  <2> QED
    BY <2>2, <2>3, <2>4
<1>5. Passed' /\ Sent'
  BY <1>1 DEF Inv, Passed, UpTo, Covered, Sent, Streaming, OnTheWay
<1> QED
  BY <1>4, <1>5 DEF Inv

LEMMA BacklogArrivesStep ==
  ASSUME Inv, BacklogArrives
  PROVE  Inv'
<1>1. /\ answer # NoBacklog /\ answer' = NoBacklog
      /\ UNCHANGED <<next, committed, wire, queue, server, frames, backfills>>
  BY DEF BacklogArrives, stream
<1>2. CASE answer = loaded
  <2>1. UNCHANGED <<shown, lastSeq, seen>>
    BY <1>2 DEF BacklogArrives
  <2>2. TypeOK' /\ Stored' /\ AnswerIsPrefix'
    BY <1>1, <2>1 DEF Inv, TypeOK, Stored, AnswerIsPrefix, OnTheWay, NoBacklog
  <2>3. Passed' /\ Sent'
    BY <1>1, <2>1 DEF Inv, Passed, UpTo, Covered, Sent, Streaming, OnTheWay
  <2> QED
    BY <2>2, <2>3 DEF Inv
<1>3. CASE answer # loaded
  <2>1. Show(answer, lastSeq)
    BY <1>3 DEF BacklogArrives
  <2>2. answer \in SUBSET committed /\ lastSeq \in Int /\ lastSeq < next
    BY <1>1 DEF Inv, AnswerIsPrefix, TypeOK, Stored
  <2>3. \A x \in answer \cup {lastSeq} : \A t \in committed : t <= x => t \in Covered \cup answer
    BY <1>1 DEF Inv, AnswerIsPrefix, Passed, UpTo
  <2> QED
    BY <1>1, <2>1, <2>2, <2>3, FramesUnchanged, PaneStep
<1> QED
  BY <1>2, <1>3

-----------------------------------------------------------------------------
LEMMA InitHolds ==
  ASSUME Init
  PROVE  Inv
<1>1. server \in Server /\ server.sent = -1 /\ server.pc = "closed"
  BY StreamConstants DEF Init, Server, Unbounded
<1>2. TypeOK
  BY <1>1 DEF Init, TypeOK, NoBacklog
<1>3. Stored /\ AnswerIsPrefix
  BY <1>1 DEF Init, Stored, AnswerIsPrefix, OnTheWay
<1>4. Passed /\ Sent
  BY <1>1 DEF Init, Passed, UpTo, Sent, Streaming
<1> QED
  BY <1>2, <1>3, <1>4 DEF Inv

LEMMA Inductive ==
  ASSUME Inv, [Next]_vars
  PROVE  Inv'
<1>1. CASE Commits
  BY <1>1, CommitStep
<1>2. CASE Notified
  BY <1>2, NotifiedStep
<1>3. CASE ListenerDrops \/ ListenerConnects
  BY <1>3, ListenerStep
<1>4. CASE Open
  BY <1>4, OpenStep
<1>5. CASE LoadPage
  BY <1>5, LoadPageStep
<1>6. CASE TakeSignal
  BY <1>6, TakeSignalStep
<1>7. CASE StreamBreaks
  BY <1>7, StreamBreaksStep
<1>8. CASE Receive
  BY <1>8, ReceiveStep
<1>9. CASE BackfillEnds
  BY <1>9, BackfillArrivesStep DEF BackfillEnds
<1>10. CASE BackfillLost
  BY <1>10, BackfillFailsStep DEF BackfillLost
<1>11. CASE QueryBacklog
  BY <1>11, QueryBacklogStep
<1>12. CASE BacklogArrives
  BY <1>12, BacklogArrivesStep
<1>13. CASE UNCHANGED vars
  BY <1>13, HubStep DEF vars, stream, pane, Inv, TypeOK
<1> QED
  BY <1>1, <1>2, <1>3, <1>4, <1>5, <1>6, <1>7, <1>8, <1>9, <1>10, <1>11, <1>12, <1>13 DEF Next

LEMMA InvHolds == Spec => []Inv
<1>1. Init => Inv
  BY InitHolds
<1>2. Inv /\ [Next]_vars => Inv'
  BY Inductive
<1> QED
  BY <1>1, <1>2, PTL DEF Spec

\* The variables keep their types, for sessions of any length.
THEOREM TypeTheorem == Spec => []TypeOK
<1>1. Inv => TypeOK
  BY DEF Inv
<1> QED
  BY <1>1, InvHolds, PTL

\* However pages, notifications, gaps, failed backfills, reconnections and late backlogs
\* follow one another: an event at or below lastSeqRef, which no message will bring again,
\* was on the screen or is the end of a gap that is being fetched.
THEOREM PassedTheorem == Spec => []NothingPassedUnseen
<1>1. Inv => NothingPassedUnseen
  BY DEF Inv, Passed, UpTo, Covered, NothingPassedUnseen
<1> QED
  BY <1>1, InvHolds, PTL

-----------------------------------------------------------------------------
(* PausedEditor: any number of requests, broken connections and calls.     *)

EditorCalls == [flow : Flows, kind : {"forward", "drop", "clear"}, state : {"sent", "ok", "refused"}]

EditorTypeOK ==
  /\ fate \in [Flows -> {"new", "paused", "open", "dropped", "ended"}]
  /\ pushed \in Seq([type : {"paused", "exchange"}, flow : Flows])
  /\ editor \in [paused : Flows \cup {"none"}, forwarding : Flows \cup {"none"}, loading : BOOLEAN]
  /\ hydration \in [status : Flows \cup {"none", "asked"}, detail : Flows \cup {"none", "asked"}]
  /\ (hydration.detail = "asked" => hydration.status \in Flows)
  /\ calls \subseteq EditorCalls
  /\ offered \in Flows \cup {"none"}

OneIsPaused == \A f, g \in Flows : fate[f] = "paused" /\ fate[g] = "paused" => f = g

\* Whatever names a flow as paused comes after its pause; the event of an exchange and the
\* answer to a release come after the pause is over.
PauseIsOlder ==
  /\ offered # "none" => fate[offered] # "new"
  /\ hydration.detail \in Flows => fate[hydration.detail] # "new"
  /\ \A i \in DOMAIN pushed :
       /\ pushed[i].type = "paused" => fate[pushed[i].flow] # "new"
       /\ pushed[i].type = "exchange" => fate[pushed[i].flow] = "ended"
  /\ \A c \in calls : c.state = "ok" =>
       IF c.kind = "clear" THEN fate[c.flow] # "new" ELSE fate[c.flow] \notin {"new", "paused"}

EditorInv == EditorTypeOK /\ OneIsPaused /\ PauseIsOlder /\ EditorStays

Editors == [paused : Flows \cup {"none"}, forwarding : Flows \cup {"none"}, loading : BOOLEAN]
Looks == [status : Flows \cup {"none", "asked"}, detail : Flows \cup {"none", "asked"}]
Events == [type : {"paused", "exchange"}, flow : Flows]

\* What a look at the gate is about is known once it has been asked for.
Known(h) == h \in Looks /\ (h.detail = "asked" => h.status \in Flows)

LEMMA HydratedFacts ==
  ASSUME NEW h, Known(h), NEW e
  PROVE /\ Known(Editor!Hydrated(h, e))
        /\ Editor!Hydrated(h, e).detail \in Flows => Editor!Hydrated(h, e).detail = h.detail
<1>1. CASE Editor!Hydrated(h, e) = h
  BY <1>1 DEF Known
<1>2. CASE Editor!Hydrated(h, e) # h
  <2>1. h.status \in Flows /\ Editor!Hydrated(h, e) = [h EXCEPT !.detail = "asked"]
    BY <1>2 DEF Editor!Hydrated
  <2>2. [h EXCEPT !.detail = "asked"] \in Looks
    BY DEF Known, Looks
  <2>3. [h EXCEPT !.detail = "asked"].detail = "asked" /\ [h EXCEPT !.detail = "asked"].status = h.status
    BY DEF Known, Looks
  <2> QED BY <2>1, <2>2, <2>3, FlowsAssumption DEF Known
<1> QED BY <1>1, <1>2

\* What the page shows and has asked, after a step that shows e.
LEMMA ShowKeepsTypes ==
  ASSUME EditorInv, NEW e, e \in Editors, Editor!Show(e)
  PROVE /\ editor' = e /\ Known(hydration')
        /\ hydration'.detail \in Flows => hydration'.detail = hydration.detail
  BY HydratedFacts DEF EditorInv, EditorTypeOK, Known, Looks, Editor!Show

LEMMA PresentedFacts ==
  ASSUME EditorInv, NEW f \in Flows
  PROVE Editor!Presented(f) \in Editors /\ Editor!Presented(f).paused = f
  BY DEF EditorInv, EditorTypeOK, Editors, Editor!Presented

LEMMA AfterExchangeFacts ==
  ASSUME EditorInv, NEW f \in Flows, fate[f] # "paused", offered # "none" => offered \in Flows
  PROVE /\ Editor!AfterExchange(f) \in Editors
        /\ offered # "none" /\ fate[offered] = "paused" => Editor!AfterExchange(f).paused = offered
<1>1. offered # "none" /\ fate[offered] = "paused" => editor.paused = offered /\ offered # f
  BY DEF EditorInv, EditorStays, Editor!EditorStays, Editor!NoFlow
<1>2. CASE f # editor.forwarding
  BY <1>1, <1>2 DEF EditorInv, EditorTypeOK, Editors, Editor!AfterExchange
<1>3. CASE f = editor.forwarding /\ editor.paused \in {"none", f}
  BY <1>1, <1>3 DEF EditorInv, EditorTypeOK, Editors, Editor!AfterExchange, Editor!NoEditor, Editor!NoFlow
<1>4. CASE f = editor.forwarding /\ editor.paused \notin {"none", f}
  BY <1>1, <1>4 DEF EditorInv, EditorTypeOK, Editors, Editor!AfterExchange, Editor!NoEditor, Editor!NoFlow
<1> QED BY <1>2, <1>3, <1>4

LEMMA PushedFacts ==
  ASSUME EditorInv
  PROVE /\ pushed \in Seq(Events) /\ Len(pushed) \in Nat /\ DOMAIN pushed = 1..Len(pushed)
        /\ \A i \in DOMAIN pushed : pushed[i] \in Events /\ pushed[i].flow \in Flows
<1>1. pushed \in Seq(Events)
  BY DEF EditorInv, EditorTypeOK, Events
<1>2. Len(pushed) \in Nat /\ DOMAIN pushed = 1..Len(pushed) /\ \A i \in 1..Len(pushed) : pushed[i] \in Events
  BY <1>1, LenProperties, ElementOfSeq
<1>3. \A e \in Events : e.flow \in Flows
  BY DEF Events
<1> QED BY <1>1, <1>2, <1>3

LEMMA EventAdded ==
  ASSUME NEW s \in Seq(Events), NEW e \in Events
  PROVE /\ Append(s, e) \in Seq(Events)
        /\ \A i \in DOMAIN Append(s, e) : (i \in DOMAIN s /\ Append(s, e)[i] = s[i]) \/ Append(s, e)[i] = e
<1>1. /\ Append(s, e) \in Seq(Events) /\ Len(Append(s, e)) = Len(s) + 1 /\ Len(s) \in Nat
      /\ (\A i \in 1..Len(s) : Append(s, e)[i] = s[i]) /\ Append(s, e)[Len(s) + 1] = e
  BY AppendProperties, LenProperties
<1>2. DOMAIN Append(s, e) = 1..(Len(s) + 1) /\ DOMAIN s = 1..Len(s)
  BY <1>1, LenProperties
<1> QED BY <1>1, <1>2

LEMMA PauseStep ==
  ASSUME EditorInv, NEW f \in Flows, Editor!Pause(f)
  PROVE EditorInv'
<1> DEFINE e == [type |-> "paused", flow |-> f]
<1> USE DEF EditorInv
<1>1. /\ fate[f] = "new" /\ fate' = [fate EXCEPT ![f] = "paused"] /\ pushed' = Append(pushed, e)
      /\ UNCHANGED <<editor, hydration, calls, offered, reloads, asked>>
      /\ \A g \in Flows : fate[g] # "paused"
  BY DEF Editor!Pause, Editor!Goes, Editor!Sends
<1>2. fate'[f] = "paused" /\ \A g \in Flows \ {f} : fate'[g] = fate[g]
  BY <1>1 DEF EditorTypeOK
<1>3. pushed' \in Seq(Events) /\ Len(pushed') = Len(pushed) + 1
      /\ (\A i \in 1..Len(pushed) : pushed'[i] = pushed[i]) /\ pushed'[Len(pushed) + 1] = e
  BY <1>1, AppendProperties DEF EditorTypeOK, Events
<1>4. EditorTypeOK'
  BY <1>1, <1>3 DEF EditorTypeOK, Events
<1>5. OneIsPaused'
  BY <1>1, <1>2 DEF OneIsPaused
<1>6. PauseIsOlder'
  <2>1. \A i \in DOMAIN pushed' : i \in DOMAIN pushed \/ i = Len(pushed) + 1
    BY <1>3 DEF EditorTypeOK
  <2>2. \A i \in DOMAIN pushed' : /\ pushed'[i].type = "paused" => fate'[pushed'[i].flow] # "new"
                                  /\ pushed'[i].type = "exchange" => fate'[pushed'[i].flow] = "ended"
    <3> TAKE i \in DOMAIN pushed'
    <3>1. CASE i \in DOMAIN pushed
      <4>1. pushed'[i] = pushed[i] /\ pushed[i].flow \in Flows
        BY <3>1, <1>3, PushedFacts
      <4> QED BY <3>1, <4>1, <1>1, <1>2 DEF PauseIsOlder
    <3>2. CASE i = Len(pushed) + 1
      BY <3>2, <1>2, <1>3
    <3> QED BY <2>1, <3>1, <3>2
  <2>3. \A c \in calls' : c.state = "ok" =>
          IF c.kind = "clear" THEN fate'[c.flow] # "new" ELSE fate'[c.flow] \notin {"new", "paused"}
    <3> TAKE c \in calls'
    <3>1. c \in calls /\ c.flow \in Flows
      BY <1>1 DEF EditorTypeOK, EditorCalls
    <3> QED BY <3>1, <1>1, <1>2 DEF PauseIsOlder
  <2>4. /\ offered' # "none" => fate'[offered'] # "new"
        /\ hydration'.detail \in Flows => fate'[hydration'.detail] # "new"
    BY <1>1, <1>2 DEF PauseIsOlder, EditorTypeOK
  <2> QED BY <2>2, <2>3, <2>4 DEF PauseIsOlder
<1>7. EditorStays'
  \* The flow that pauses is new, so it has not been offered.
  BY <1>1, <1>2 DEF EditorStays, Editor!EditorStays, Editor!NoFlow, PauseIsOlder, EditorTypeOK
<1> QED BY <1>4, <1>5, <1>6, <1>7
\* A flow leaves the gate, or what it became: no flow becomes new or paused.
FatesGoOn ==
  /\ fate' \in [Flows -> {"new", "paused", "open", "dropped", "ended"}]
  /\ \A g \in Flows : \/ fate'[g] = fate[g]
                      \/ fate[g] \notin {"new", "ended"} /\ fate'[g] \in {"open", "dropped", "ended"}

LEMMA FateSteps ==
  ASSUME EditorInv, NEW f \in Flows, NEW from \in {"paused", "open", "dropped"}, NEW to \in {"open", "dropped", "ended"},
         Editor!Goes(f, from, to)
  PROVE FatesGoOn /\ fate'[f] = to /\ UNCHANGED <<editor, hydration, calls, offered, reloads, asked>>
<1>1. /\ fate[f] = from /\ fate' = [fate EXCEPT ![f] = to]
      /\ fate \in [Flows -> {"new", "paused", "open", "dropped", "ended"}]
      /\ UNCHANGED <<editor, hydration, calls, offered, reloads, asked>>
  BY DEF Editor!Goes, EditorInv, EditorTypeOK
<1>2. fate'[f] = to /\ \A g \in Flows \ {f} : fate'[g] = fate[g]
  BY <1>1
<1>3. fate' \in [Flows -> {"new", "paused", "open", "dropped", "ended"}]
  BY <1>1
<1>4. ASSUME NEW g \in Flows
      PROVE fate'[g] = fate[g] \/ (fate[g] \notin {"new", "ended"} /\ fate'[g] \in {"open", "dropped", "ended"})
  <2>1. CASE g = f
    BY <2>1, <1>1, <1>2
  <2>2. CASE g # f
    BY <2>2, <1>2
  <2> QED BY <2>1, <2>2
<1>5. FatesGoOn
  BY <1>3, <1>4 DEF FatesGoOn
<1> QED BY <1>1, <1>2, <1>5

\* What no step of the page takes away: the gate goes on, and the events that are left are
\* events of before or of an exchange that has ended.
LEMMA GateStep ==
  ASSUME EditorInv, FatesGoOn, UNCHANGED <<editor, hydration, offered>>,
         NEW f, pushed' = pushed \/ (f \in Flows /\ fate'[f] = "ended" /\ pushed' = Append(pushed, [type |-> "exchange", flow |-> f])),
         calls' \subseteq EditorCalls,
         \A c \in calls' : c \in calls \/ (c.state = "ok" =>
           IF c.kind = "clear" THEN fate'[c.flow] # "new" ELSE fate'[c.flow] \notin {"new", "paused"})
  PROVE EditorInv'
<1> DEFINE e == [type |-> "exchange", flow |-> f]
<1> USE DEF EditorInv
<1>1. \A g \in Flows : /\ fate[g] # "new" => fate'[g] # "new"
                       /\ fate'[g] = "paused" => fate[g] = "paused"
                       /\ fate[g] = "ended" => fate'[g] = "ended"
  BY DEF FatesGoOn
<1>2. pushed' \in Seq(Events)
      /\ \A i \in DOMAIN pushed' : (i \in DOMAIN pushed /\ pushed'[i] = pushed[i]) \/ (pushed'[i] = e /\ f \in Flows /\ fate'[f] = "ended")
  <2>1. CASE pushed' = pushed
    BY <2>1, PushedFacts
  <2>2. CASE f \in Flows /\ fate'[f] = "ended" /\ pushed' = Append(pushed, e)
    <3>1. e \in Events
      BY <2>2 DEF Events
    <3> HIDE DEF e
    <3> QED BY <2>2, <3>1, PushedFacts, EventAdded
  <2> QED BY <2>1, <2>2
<1>3. EditorTypeOK'
  BY <1>2 DEF EditorTypeOK, FatesGoOn, Events
<1>4. OneIsPaused'
  BY <1>1 DEF OneIsPaused
<1>5. PauseIsOlder'
  <2>1. \A i \in DOMAIN pushed' : /\ pushed'[i].type = "paused" => fate'[pushed'[i].flow] # "new"
                                  /\ pushed'[i].type = "exchange" => fate'[pushed'[i].flow] = "ended"
    BY <1>1, <1>2, PushedFacts DEF PauseIsOlder
  <2>2. \A c \in calls' : c.state = "ok" =>
          IF c.kind = "clear" THEN fate'[c.flow] # "new" ELSE fate'[c.flow] \notin {"new", "paused"}
    <3> TAKE c \in calls'
    <3>1. CASE c \in calls
      <4>1. c.flow \in Flows
        BY <3>1 DEF EditorTypeOK, EditorCalls
      <4> QED BY <3>1, <4>1, <1>1 DEF PauseIsOlder
    <3>2. CASE c \notin calls
      BY <3>2
    <3> QED BY <3>1, <3>2
  <2>3. /\ offered' # "none" => fate'[offered'] # "new"
        /\ hydration'.detail \in Flows => fate'[hydration'.detail] # "new"
    BY <1>1 DEF PauseIsOlder, EditorTypeOK
  <2> QED BY <2>1, <2>2, <2>3 DEF PauseIsOlder
<1>6. EditorStays'
  BY <1>1 DEF EditorStays, Editor!EditorStays, Editor!NoFlow, EditorTypeOK
<1> QED BY <1>3, <1>4, <1>5, <1>6

LEMMA ServedStep ==
  ASSUME EditorInv, NEW c \in calls, Editor!Served(c)
  PROVE EditorInv'
<1> DEFINE ok == fate[c.flow] = "paused"
           d == [c EXCEPT !.state = IF ok THEN "ok" ELSE "refused"]
<1>1. /\ calls' = (calls \ {c}) \cup {d}
      /\ fate' = IF ~ok \/ c.kind = "clear" THEN fate
                  ELSE [fate EXCEPT ![c.flow] = IF c.kind = "drop" THEN "dropped" ELSE "open"]
      /\ UNCHANGED <<pushed, editor, hydration, offered, reloads, asked>>
  BY DEF Editor!Served
<1>2. c \in EditorCalls /\ calls \subseteq EditorCalls /\ c.flow \in Flows
      /\ fate \in [Flows -> {"new", "paused", "open", "dropped", "ended"}]
  BY DEF EditorInv, EditorTypeOK, EditorCalls
<1>3. d \in EditorCalls /\ d.flow = c.flow /\ d.kind = c.kind /\ (d.state = "ok" => ok)
  BY <1>2 DEF EditorCalls
<1>4. FatesGoOn
  <2>1. CASE fate' = fate
    <3>1. fate' \in [Flows -> {"new", "paused", "open", "dropped", "ended"}] /\ \A g \in Flows : fate'[g] = fate[g]
      BY <2>1, <1>2
    <3> QED BY ONLY <3>1 DEF FatesGoOn
  <2>2. CASE ok /\ c.kind # "clear"
    <3>1. PICK to \in {"open", "dropped"} : fate' = [fate EXCEPT ![c.flow] = to]
      BY <1>1, <2>2
    <3>2. fate'[c.flow] = to /\ \A g \in Flows \ {c.flow} : fate'[g] = fate[g]
      BY <1>2, <3>1
    <3>3. fate' \in [Flows -> {"new", "paused", "open", "dropped", "ended"}]
      BY <1>2, <3>1
    <3>4. ASSUME NEW g \in Flows
          PROVE fate'[g] = fate[g] \/ (fate[g] \notin {"new", "ended"} /\ fate'[g] \in {"open", "dropped", "ended"})
      <4>1. CASE g = c.flow
        BY <4>1, <2>2, <3>1, <3>2
      <4>2. CASE g # c.flow
        BY <4>2, <3>2
      <4> QED BY <4>1, <4>2
    <3> QED BY <3>3, <3>4 DEF FatesGoOn
  <2> QED BY <1>1, <2>1, <2>2
<1>5. d.state = "ok" => IF d.kind = "clear" THEN fate'[d.flow] # "new" ELSE fate'[d.flow] \notin {"new", "paused"}
  BY <1>1, <1>2, <1>3
<1> HIDE DEF d
<1> QED BY <1>1, <1>2, <1>3, <1>4, <1>5, GateStep

LEMMA ProxyStep ==
  ASSUME EditorInv, NEW f \in Flows, Editor!AutoRelease(f) \/ Editor!Respond(f) \/ Editor!Discard(f)
  PROVE EditorInv'
<1>1. CASE Editor!AutoRelease(f)
  <2>1. FatesGoOn /\ UNCHANGED <<pushed, editor, hydration, calls, offered>>
    BY <1>1, FateSteps DEF Editor!AutoRelease
  <2> QED BY <2>1, GateStep DEF EditorInv, EditorTypeOK
<1>2. CASE Editor!Respond(f)
  <2>1. FatesGoOn /\ fate'[f] = "ended" /\ UNCHANGED <<editor, hydration, calls, offered>>
    BY <1>2, FateSteps DEF Editor!Respond
  <2>2. pushed' = Append(pushed, [type |-> "exchange", flow |-> f])
    BY <1>2 DEF Editor!Respond, Editor!Sends
  <2> QED BY <2>1, <2>2, GateStep DEF EditorInv, EditorTypeOK
<1>3. CASE Editor!Discard(f)
  <2>1. FatesGoOn /\ UNCHANGED <<pushed, editor, hydration, calls, offered>>
    BY <1>3, FateSteps DEF Editor!Discard
  <2> QED BY <2>1, GateStep DEF EditorInv, EditorTypeOK
<1> QED BY <1>1, <1>2, <1>3
\* A step of the page, which leaves the gate as it is: what it shows, what it has asked and
\* what it is told fit the gate as before.
LEMMA PageStep ==
  ASSUME EditorInv, UNCHANGED fate, editor' \in Editors, Known(hydration'),
         hydration'.detail \in Flows => fate[hydration'.detail] # "new",
         pushed' \in Seq(Events), \A i \in DOMAIN pushed' : \E j \in DOMAIN pushed : pushed'[i] = pushed[j],
         calls' \subseteq EditorCalls, \A c \in calls' : c \in calls \/ c.state = "sent",
         offered' \in Flows \cup {"none"}, offered' # "none" => fate[offered'] # "new",
         offered' # "none" /\ fate[offered'] = "paused" => editor'.paused = offered'
  PROVE EditorInv'
<1>1. EditorTypeOK'
  BY DEF EditorInv, EditorTypeOK, Editors, Known, Looks, Events
<1>2. OneIsPaused'
  BY DEF EditorInv, OneIsPaused
<1>3. PauseIsOlder'
  BY DEF EditorInv, PauseIsOlder
<1>4. EditorStays'
  BY DEF EditorStays, Editor!EditorStays, Editor!NoFlow
<1> QED BY <1>1, <1>2, <1>3, <1>4 DEF EditorInv

\* An event less.
LEMMA EventTaken ==
  ASSUME EditorInv, pushed # <<>>
  PROVE /\ Head(pushed) \in Events /\ 1 \in DOMAIN pushed /\ Head(pushed) = pushed[1]
        /\ Tail(pushed) \in Seq(Events)
        /\ \A i \in DOMAIN Tail(pushed) : \E j \in DOMAIN pushed : Tail(pushed)[i] = pushed[j]
<1>1. /\ Head(pushed) = pushed[1] /\ Tail(pushed) \in Seq(Events) /\ Len(Tail(pushed)) = Len(pushed) - 1
      /\ Head(pushed) \in Events
      /\ \A i \in 1..Len(Tail(pushed)) : Tail(pushed)[i] = pushed[i + 1]
  BY PushedFacts, HeadTailProperties
<1>2. DOMAIN Tail(pushed) = 1..(Len(pushed) - 1) /\ Len(pushed) # 0
  BY <1>1, PushedFacts, LenProperties, EmptySeq
<1> QED BY <1>1, <1>2, PushedFacts

\* What holds of the state of the page before any step.
LEMMA PageFacts ==
  ASSUME EditorInv
  PROVE /\ editor \in Editors /\ Known(hydration)
        /\ hydration.detail \in Flows => fate[hydration.detail] # "new"
        /\ pushed \in Seq(Events) /\ (\A i \in DOMAIN pushed : \E j \in DOMAIN pushed : pushed[i] = pushed[j])
        /\ calls \subseteq EditorCalls
        /\ offered \in Flows \cup {"none"} /\ (offered # "none" => fate[offered] # "new")
        /\ (offered # "none" /\ fate[offered] = "paused" => editor.paused = offered)
  BY DEF EditorInv, EditorTypeOK, PauseIsOlder, EditorStays, Editor!EditorStays, Editor!NoFlow,
         Editors, Known, Looks, Events

LEMMA DeliverStep ==
  ASSUME EditorInv, Editor!Deliver
  PROVE EditorInv'
<1>1. PICK e \in {Head(pushed)} :
        \/ e.type = "paused" /\ Editor!Show(Editor!Presented(e.flow)) /\ offered' = e.flow
        \/ e.type = "exchange" /\ Editor!Show(Editor!AfterExchange(e.flow)) /\ UNCHANGED offered
  BY DEF Editor!Deliver
<1>2. pushed # <<>> /\ pushed' = Tail(pushed) /\ UNCHANGED <<fate, calls>>
  BY DEF Editor!Deliver
<1>3. e \in Events /\ e.flow \in Flows /\ (e.type = "paused" => fate[e.flow] # "new")
      /\ (e.type = "exchange" => fate[e.flow] # "paused")
  BY <1>1, <1>2, EventTaken DEF Events, EditorInv, PauseIsOlder
<1>4. /\ editor' \in Editors /\ Known(hydration') /\ (hydration'.detail \in Flows => hydration'.detail = hydration.detail)
      /\ offered' \in Flows \cup {"none"} /\ (offered' # "none" => fate[offered'] # "new")
      /\ (offered' # "none" /\ fate[offered'] = "paused" => editor'.paused = offered')
  <2>1. CASE e.type = "paused" /\ Editor!Show(Editor!Presented(e.flow)) /\ offered' = e.flow
    BY <1>3, <2>1, PresentedFacts, ShowKeepsTypes
  <2>2. CASE e.type = "exchange" /\ Editor!Show(Editor!AfterExchange(e.flow)) /\ UNCHANGED offered
    BY <1>3, <2>2, AfterExchangeFacts, ShowKeepsTypes, PageFacts
  <2> QED BY <1>1, <2>1, <2>2
<1> QED BY <1>2, <1>4, PageFacts, EventTaken, PageStep

LEMMA LostStep ==
  ASSUME EditorInv, Editor!Lost
  PROVE EditorInv'
<1>1. pushed # <<>> /\ pushed' = Tail(pushed) /\ UNCHANGED <<fate, editor, hydration, calls, offered>>
  BY DEF Editor!Lost
<1> QED BY <1>1, PageFacts, EventTaken, PageStep

LEMMA CallStep ==
  ASSUME EditorInv, NEW kind \in {"forward", "drop", "clear"}, Editor!Call(kind)
  PROVE EditorInv'
<1> DEFINE c == [flow |-> editor.paused, kind |-> kind, state |-> "sent"]
<1>1. /\ editor.paused # "none" /\ calls' = calls \cup {c}
      /\ editor' = [editor EXCEPT !.loading = @ \/ kind # "clear"]
      /\ UNCHANGED <<fate, pushed, hydration, offered>>
  BY DEF Editor!Call, Editor!NoFlow
<1>2. c \in EditorCalls /\ c.state = "sent"
  BY <1>1, PageFacts DEF Editors, EditorCalls
<1>3. editor' \in Editors /\ editor'.paused = editor.paused
  BY <1>1, PageFacts DEF Editors
<1> HIDE DEF c
<1> QED BY <1>1, <1>2, <1>3, PageFacts, PageStep

LEMMA AnsweredStep ==
  ASSUME EditorInv, NEW c \in calls, Editor!Answered(c)
  PROVE EditorInv'
<1>1. /\ c.state \in {"ok", "refused"} /\ calls' = calls \ {c} /\ UNCHANGED <<fate, pushed>>
      /\ offered' = IF c.state = "ok" /\ c.kind # "forward" /\ c.flow # offered THEN "none" ELSE offered
  BY DEF Editor!Answered, Editor!NoFlow
<1>2. c.flow \in Flows /\ c.kind \in {"forward", "drop", "clear"}
      /\ (c.state = "ok" => IF c.kind = "clear" THEN fate[c.flow] # "new" ELSE fate[c.flow] \notin {"new", "paused"})
  BY DEF EditorInv, EditorTypeOK, EditorCalls, PauseIsOlder
<1>3. offered' \in Flows \cup {"none"} /\ (offered' # "none" => offered' = offered)
  BY <1>1, PageFacts
<1>4. /\ editor' \in Editors /\ Known(hydration') /\ (hydration'.detail \in Flows => hydration'.detail = hydration.detail)
      /\ (offered' # "none" /\ fate[offered'] = "paused" => editor'.paused = offered')
  <2>1. CASE c.state = "refused"
    <3> DEFINE x == [editor EXCEPT !.loading = @ /\ (c.kind = "clear" \/ editor.paused # c.flow)]
    <3>1. Editor!Show(x)
      BY <2>1 DEF Editor!Answered
    <3>2. x \in Editors /\ x.paused = editor.paused
      BY PageFacts DEF Editors
    <3> HIDE DEF x
    <3> QED BY <3>1, <3>2, <1>3, PageFacts, ShowKeepsTypes
  <2>2. CASE c.state = "ok" /\ c.kind = "forward"
    <3> DEFINE x == [editor EXCEPT !.forwarding = c.flow]
    <3>1. Editor!Show(x)
      BY <2>2 DEF Editor!Answered
    <3>2. x \in Editors /\ x.paused = editor.paused
      BY <1>2, PageFacts DEF Editors
    <3> HIDE DEF x
    <3> QED BY <3>1, <3>2, <1>3, PageFacts, ShowKeepsTypes
  <2>3. CASE c.state = "ok" /\ c.kind = "drop"
    <3>1. Editor!Show(Editor!NoEditor)
      BY <2>3 DEF Editor!Answered
    <3>2. Editor!NoEditor \in Editors
      BY DEF Editor!NoEditor, Editor!NoFlow, Editors
    \* The flow that was dropped is not paused, and no other flow stays on offer.
    <3>3. ~(offered' # "none" /\ fate[offered'] = "paused")
      BY <1>1, <1>2, <2>3
    <3> QED BY <3>1, <3>2, <3>3, ShowKeepsTypes
  <2>4. CASE c.state = "ok" /\ c.kind = "clear"
    <3>1. Editor!Show(Editor!Presented(c.flow))
      BY <2>4 DEF Editor!Answered
    <3>2. offered' # "none" => offered' = c.flow
      BY <1>1, <2>4
    <3> QED BY <3>1, <3>2, <1>2, PresentedFacts, ShowKeepsTypes
  <2> QED BY <1>1, <1>2, <2>1, <2>2, <2>3, <2>4
<1> QED BY <1>1, <1>3, <1>4, PageFacts, PageStep

LEMMA ForwardTimesOutStep ==
  ASSUME EditorInv, Editor!ForwardTimesOut
  PROVE EditorInv'
<1>1. /\ editor' = [editor EXCEPT !.forwarding = "none", !.loading = FALSE]
      /\ UNCHANGED <<fate, pushed, hydration, calls, offered>>
  BY DEF Editor!ForwardTimesOut, Editor!NoFlow
<1>2. editor' \in Editors /\ editor'.paused = editor.paused
  BY <1>1, PageFacts DEF Editors
<1> QED BY <1>1, <1>2, PageFacts, PageStep

LEMMA StatusStep ==
  ASSUME EditorInv, Editor!StatusArrives
  PROVE EditorInv'
<1>1. PICK P \in {{f \in Flows : fate[f] = "paused"}} :
        hydration' = Editor!Hydrated([hydration EXCEPT !.status = IF P = {} THEN "none" ELSE CHOOSE f \in P : TRUE], editor)
  BY DEF Editor!StatusArrives, Editor!NoFlow
<1> DEFINE s == IF P = {} THEN "none" ELSE CHOOSE f \in P : TRUE
           h == [hydration EXCEPT !.status = s]
<1>2. hydration.status = "asked" /\ UNCHANGED <<fate, pushed, editor, calls, offered>>
  BY DEF Editor!StatusArrives
<1>3. s \in Flows \cup {"none"}
  BY <1>1
<1> HIDE DEF s
<1>4. h \in Looks /\ h.detail = hydration.detail /\ hydration.detail # "asked"
  BY <1>2, <1>3, PageFacts, FlowsAssumption DEF Looks, Known
<1>5. Known(h)
  BY <1>4 DEF Known
<1>6. hydration' = Editor!Hydrated(h, editor)
  BY <1>1 DEF s
<1> HIDE DEF h
<1>7. Known(hydration') /\ (hydration'.detail \in Flows => hydration'.detail = hydration.detail)
  BY <1>4, <1>5, <1>6, HydratedFacts
<1> QED BY <1>2, <1>7, PageFacts, PageStep

LEMMA ReadDetailStep ==
  ASSUME EditorInv, Editor!ReadDetail
  PROVE EditorInv'
<1> DEFINE d == IF fate[hydration.status] = "paused" THEN hydration.status ELSE "none"
<1>1. hydration.detail = "asked" /\ hydration' = [hydration EXCEPT !.detail = d] /\ UNCHANGED <<fate, pushed, editor, calls, offered>>
  BY DEF Editor!ReadDetail, Editor!NoFlow
<1>2. hydration.status \in Flows
  BY <1>1, PageFacts DEF Known
<1>3. d \in Flows \cup {"none"} /\ (d = "none" \/ fate[d] = "paused")
  BY <1>2
<1> HIDE DEF d
<1>4. hydration' \in Looks /\ hydration'.detail = d
  BY <1>1, <1>3, PageFacts DEF Looks, Known
<1>5. "none" \notin Flows /\ "asked" \notin Flows
  BY FlowsAssumption
<1>6. Known(hydration') /\ (hydration'.detail \in Flows => fate[hydration'.detail] # "new")
  BY <1>3, <1>4, <1>5 DEF Known
<1> QED BY <1>1, <1>6, PageFacts, PageStep

LEMMA DetailArrivesStep ==
  ASSUME EditorInv, Editor!DetailArrives
  PROVE EditorInv'
<1> DEFINE f == hydration.detail
<1>1. /\ f \in Flows /\ editor' = Editor!Presented(f)
      /\ offered' = IF fate[f] = "paused" \/ offered = "none" THEN f ELSE "none"
      /\ hydration' = [hydration EXCEPT !.detail = "none"]
      /\ UNCHANGED <<fate, pushed, calls>>
  BY DEF Editor!DetailArrives, Editor!NoFlow
<1>2. hydration' \in Looks /\ hydration'.detail = "none" /\ "none" \notin Flows
  BY <1>1, PageFacts, FlowsAssumption DEF Looks, Known
<1>3. editor' \in Editors /\ editor'.paused = f /\ fate[f] # "new"
  BY <1>1, PageFacts, PresentedFacts
<1>4. offered' \in {f, "none"}
  BY <1>1
<1> HIDE DEF f
<1> QED BY <1>1, <1>2, <1>3, <1>4, PageFacts, PageStep DEF Known

LEMMA ReloadStep ==
  ASSUME EditorInv, Editor!Reload
  PROVE EditorInv'
<1>1. /\ pushed' = <<>> /\ calls' = {} /\ offered' = "none" /\ UNCHANGED fate
      /\ editor' = [paused |-> "none", forwarding |-> "none", loading |-> FALSE]
      /\ hydration' = [status |-> "asked", detail |-> "none"]
  BY DEF Editor!Reload, Editor!NoEditor, Editor!FirstLook, Editor!NoFlow
<1>2. editor' \in Editors /\ Known(hydration') /\ hydration'.detail \notin Flows
  BY <1>1, FlowsAssumption DEF Editors, Known, Looks
<1>3. pushed' \in Seq(Events) /\ DOMAIN pushed' = {}
  BY <1>1
<1> QED BY <1>1, <1>2, <1>3, PageStep

LEMMA EditorInitHolds ==
  ASSUME Editor!Init
  PROVE EditorInv
<1>1. /\ fate = [f \in Flows |-> "new"] /\ pushed = <<>> /\ calls = {} /\ offered = "none"
      /\ editor = [paused |-> "none", forwarding |-> "none", loading |-> FALSE]
      /\ hydration = [status |-> "asked", detail |-> "none"]
  BY DEF Editor!Init, Editor!NoEditor, Editor!FirstLook, Editor!NoFlow
<1>2. EditorTypeOK
  BY <1>1 DEF EditorTypeOK
<1>3. OneIsPaused /\ PauseIsOlder /\ EditorStays
  BY <1>1, FlowsAssumption DEF OneIsPaused, PauseIsOlder, EditorStays, Editor!EditorStays, Editor!NoFlow
<1> QED BY <1>2, <1>3 DEF EditorInv

LEMMA EditorInductive ==
  ASSUME EditorInv, [Editor!Next]_(Editor!vars)
  PROVE EditorInv'
<1>1. CASE UNCHANGED Editor!vars
  BY <1>1 DEF Editor!vars, EditorInv, EditorTypeOK, OneIsPaused, PauseIsOlder, EditorStays, Editor!EditorStays
<1>2. ASSUME NEW f \in Flows, Editor!Pause(f) \/ Editor!AutoRelease(f) \/ Editor!Respond(f) \/ Editor!Discard(f)
      PROVE EditorInv'
  BY <1>2, PauseStep, ProxyStep
<1>3. ASSUME NEW kind \in {"forward", "drop", "clear"}, Editor!Call(kind)
      PROVE EditorInv'
  BY <1>3, CallStep
<1>4. ASSUME NEW c \in calls, Editor!Served(c) \/ Editor!Answered(c)
      PROVE EditorInv'
  BY <1>4, ServedStep, AnsweredStep
<1>5. CASE Editor!Deliver \/ Editor!Lost \/ Editor!ForwardTimesOut \/ Editor!StatusArrives
           \/ Editor!ReadDetail \/ Editor!DetailArrives \/ Editor!Reload
  BY <1>5, DeliverStep, LostStep, ForwardTimesOutStep, StatusStep, ReadDetailStep, DetailArrivesStep, ReloadStep
<1> QED BY <1>1, <1>2, <1>3, <1>4, <1>5 DEF Editor!Next

\* With any number of requests, reloads and calls, a flow that was put into the editor stays
\* there while it is paused: no answer, event or look at the gate that names another flow
\* takes its editor from it, except one that comes after it and is about that other flow.
THEOREM EditorTheorem == Editor!Spec => []EditorStays
<1>1. EditorInv /\ [Editor!Next]_(Editor!vars) => EditorInv'
  BY EditorInductive
<1>2. EditorInv => EditorStays
  BY DEF EditorInv
<1> QED BY <1>1, <1>2, EditorInitHolds, PTL DEF Editor!Spec

-----------------------------------------------------------------------------
(* ExchangeFeed: any number of exchanges, any queue, any number of broken   *)
(* connections, failed reads and reloads.                                   *)

ListRows == {"none", "waiting", "answered"}
Reported == [flow : Flows, row : ListRows]

FeedTypeOK ==
  /\ index \in [Flows -> ListRows \cup {"deleted"}]
  /\ subscription \in [on : BOOLEAN, queue : Seq(Reported)]
  /\ link \in [connected : BOOLEAN, before : BOOLEAN]
  /\ list \in [Flows -> ListRows]
  /\ fetch \in [at : {"asked", "read", "idle", "failed"}, rows : [Flows -> ListRows], known : BOOLEAN]

\* What the page knows of its connection, and what a subscription holds.
LinkFits ==
  /\ link.connected => subscription.on /\ link.before
  /\ ~subscription.on => subscription.queue = <<>>
  /\ fetch.at = "idle" => fetch.known

Shows(f, r) == r = Feed!Listed(index[f])
Queued(f) == \E i \in DOMAIN subscription.queue : subscription.queue[i].flow = f
IsLast(q, i) == \A j \in DOMAIN q : j > i => q[j].flow # q[i].flow

\* The page is connected, or nothing will make it ask again for what it misses.
Counted == link.connected \/ ~link.before \/ ~fetch.known

\* The last event of an exchange that is queued has its row of now.
QueueIsCurrent ==
  \A i \in DOMAIN subscription.queue : IsLast(subscription.queue, i) =>
    LET e == subscription.queue[i] IN
      /\ e.flow \notin blind => Shows(e.flow, e.row)
      /\ fetch.at = "read" /\ e.flow \notin since => Shows(e.flow, e.row)

\* An exchange of which no event is queued is shown as it is, or as it was read.
ReadIsCurrent ==
  fetch.at = "read" /\ Counted => \A f \in Flows \ since : ~Queued(f) => Shows(f, fetch.rows[f])
ListIsCurrent ==
  fetch.at = "idle" /\ Counted => \A f \in Flows \ blind : ~Queued(f) => Shows(f, list[f])

FeedInv == FeedTypeOK /\ LinkFits /\ QueueIsCurrent /\ ReadIsCurrent /\ ListIsCurrent

Queue == subscription.queue
Rows == [Flows -> ListRows]

LEMMA FeedFacts ==
  ASSUME FeedInv
  PROVE /\ index \in [Flows -> ListRows \cup {"deleted"}] /\ list \in Rows /\ fetch.rows \in Rows
        /\ fetch.at \in {"asked", "read", "idle", "failed"} /\ fetch.known \in BOOLEAN
        /\ link.connected \in BOOLEAN /\ link.before \in BOOLEAN /\ subscription.on \in BOOLEAN
        /\ Queue \in Seq(Reported) /\ Len(Queue) \in Nat /\ DOMAIN Queue = 1..Len(Queue)
        /\ \A i \in DOMAIN Queue : Queue[i] \in Reported /\ Queue[i].flow \in Flows /\ Queue[i].row \in ListRows
<1>1. Queue \in Seq(Reported)
  BY DEF FeedInv, FeedTypeOK, Queue
<1>2. Len(Queue) \in Nat /\ DOMAIN Queue = 1..Len(Queue) /\ \A i \in 1..Len(Queue) : Queue[i] \in Reported
  BY <1>1, LenProperties, ElementOfSeq
<1>3. \A e \in Reported : e.flow \in Flows /\ e.row \in ListRows
  BY DEF Reported
<1>4. /\ fetch.rows \in Rows /\ fetch.at \in {"asked", "read", "idle", "failed"} /\ fetch.known \in BOOLEAN
      /\ link.connected \in BOOLEAN /\ link.before \in BOOLEAN /\ subscription.on \in BOOLEAN
  BY DEF FeedInv, FeedTypeOK, Rows
<1>5. index \in [Flows -> ListRows \cup {"deleted"}] /\ list \in Rows
  BY DEF FeedInv, FeedTypeOK, Rows
<1> QED BY <1>1, <1>2, <1>3, <1>4, <1>5

\* t is s with one event more, and the last of its exchange; or without the first.
OneMore(s, t, e) ==
  /\ t \in Seq(Reported)
  /\ \E i \in DOMAIN t : t[i] = e
  /\ \A i \in DOMAIN s : i \in DOMAIN t /\ t[i] = s[i]
  /\ \A i \in DOMAIN t : IsLast(t, i) =>
       t[i] = e \/ (i \in DOMAIN s /\ t[i] = s[i] /\ t[i].flow # e.flow /\ IsLast(s, i))
OneLess(s, t) ==
  /\ t \in Seq(Reported) /\ Head(s) \in Reported /\ Head(s) = s[1] /\ 1 \in DOMAIN s
  /\ \A i \in DOMAIN t : IsLast(t, i) => \E j \in DOMAIN s : t[i] = s[j] /\ IsLast(s, j)
  /\ \A f \in Flows : (\E i \in DOMAIN s : s[i].flow = f) =>
       (\E i \in DOMAIN t : t[i].flow = f) \/ (f = s[1].flow /\ IsLast(s, 1))

LEMMA EventQueued ==
  ASSUME NEW s \in Seq(Reported), NEW e \in Reported, NEW t, t = Append(s, e)
  PROVE OneMore(s, t, e)
<1>1. /\ t \in Seq(Reported) /\ Len(t) = Len(s) + 1 /\ Len(s) \in Nat
      /\ (\A i \in 1..Len(s) : t[i] = s[i]) /\ t[Len(s) + 1] = e
  BY AppendProperties, LenProperties
<1>2. DOMAIN t = 1..(Len(s) + 1) /\ DOMAIN s = 1..Len(s)
  BY <1>1, LenProperties
<1>3. ASSUME NEW i \in DOMAIN t, IsLast(t, i), i # Len(s) + 1
      PROVE i \in DOMAIN s /\ t[i] = s[i] /\ t[i].flow # e.flow /\ IsLast(s, i)
  <2>1. i \in DOMAIN s /\ t[i] = s[i]
    BY <1>1, <1>2, <1>3
  <2>2. t[Len(s) + 1].flow # t[i].flow
    BY <1>1, <1>2, <1>3 DEF IsLast
  <2>3. IsLast(s, i)
    BY <1>1, <1>2, <1>3, <2>1 DEF IsLast
  <2> QED BY <1>1, <2>1, <2>2, <2>3
<1> QED BY <1>1, <1>2, <1>3 DEF OneMore

LEMMA EventApplied ==
  ASSUME NEW s \in Seq(Reported), s # <<>>, NEW t, t = Tail(s)
  PROVE OneLess(s, t)
<1>1. /\ t \in Seq(Reported) /\ Len(t) = Len(s) - 1 /\ Head(s) = s[1] /\ Head(s) \in Reported
      /\ \A i \in 1..Len(t) : t[i] = s[i + 1]
  BY HeadTailProperties
<1>2. Len(s) \in Nat /\ DOMAIN s = 1..Len(s) /\ DOMAIN t = 1..Len(t) /\ Len(s) # 0
  BY <1>1, LenProperties, EmptySeq
<1>3. ASSUME NEW i \in DOMAIN t, IsLast(t, i)
      PROVE i + 1 \in DOMAIN s /\ t[i] = s[i + 1] /\ IsLast(s, i + 1)
  <2>1. i + 1 \in DOMAIN s /\ t[i] = s[i + 1]
    BY <1>1, <1>2, <1>3
  <2>2. ASSUME NEW j \in DOMAIN s, j > i + 1
        PROVE s[j].flow # s[i + 1].flow
    <3>1. j - 1 \in DOMAIN t /\ j - 1 > i /\ t[j - 1] = s[j]
      BY <1>1, <1>2, <2>2, <1>3
    <3> QED BY <3>1, <2>1, <1>3 DEF IsLast
  <2> QED BY <2>1, <2>2 DEF IsLast
<1>4. ASSUME NEW f \in Flows, NEW i \in DOMAIN s, s[i].flow = f, \A j \in DOMAIN t : t[j].flow # f
      PROVE f = s[1].flow /\ IsLast(s, 1)
  <2>1. \A j \in DOMAIN s : j # 1 => s[j].flow # f
    <3> SUFFICES ASSUME NEW j \in DOMAIN s, j # 1
                 PROVE s[j].flow # f
      OBVIOUS
    <3>1. j - 1 \in DOMAIN t /\ t[j - 1] = s[j]
      BY <1>1, <1>2
    <3> QED BY <3>1, <1>4
  <2>2. i = 1
    BY <2>1, <1>4
  <2> QED BY <2>1, <2>2, <1>2, <1>4 DEF IsLast
<1> QED BY <1>1, <1>2, <1>3, <1>4 DEF OneLess

LEMMA SubscribeStep ==
  ASSUME FeedInv, Feed!Subscribe
  PROVE FeedInv'
<1>1. /\ ~subscription.on /\ ~link.connected /\ subscription' = [on |-> TRUE, queue |-> <<>>]
      /\ UNCHANGED <<index, link, list, fetch, blind, since>>
  BY DEF Feed!Subscribe
<1>2. /\ subscription' \in [on : BOOLEAN, queue : Seq(Reported)] /\ subscription'.on
      /\ Queue' = <<>> /\ Queue = <<>>
  BY <1>1 DEF FeedInv, LinkFits, Queue
<1>3. FeedTypeOK'
  BY <1>1, <1>2 DEF FeedInv, FeedTypeOK
<1>4. LinkFits'
  BY <1>1, <1>2 DEF FeedInv, LinkFits
<1>5. QueueIsCurrent' /\ ReadIsCurrent' /\ ListIsCurrent'
  BY <1>1, <1>2 DEF FeedInv, QueueIsCurrent, ReadIsCurrent, ListIsCurrent, Shows, Queued, Counted, IsLast, Queue
<1> QED BY <1>3, <1>4, <1>5 DEF FeedInv

LEMMA RefetchFacts ==
  ASSUME FeedInv, NEW x, x = Feed!Refetch(fetch)
  PROVE /\ x \in [at : {"asked", "read", "idle", "failed"}, rows : Rows, known : BOOLEAN]
        /\ x = fetch \/ x.at = "asked"
        /\ fetch.known \/ fetch.at = "idle" => x.at = "asked"
        /\ x.known = fetch.known
<1>1. fetch \in [at : {"asked", "read", "idle", "failed"}, rows : Rows, known : BOOLEAN]
  BY DEF FeedInv, FeedTypeOK, Rows
<1> QED BY <1>1 DEF Feed!Refetch

LEMMA OpenedStep ==
  ASSUME FeedInv, Feed!Opened
  PROVE FeedInv'
<1>1. /\ subscription.on /\ ~link.connected /\ link' = [connected |-> TRUE, before |-> TRUE]
      /\ fetch' = IF link.before THEN Feed!Refetch(fetch) ELSE fetch
      /\ UNCHANGED <<index, subscription, list, blind, since>>
  BY DEF Feed!Opened
<1>2. /\ fetch' \in [at : {"asked", "read", "idle", "failed"}, rows : Rows, known : BOOLEAN]
      /\ fetch' = fetch \/ fetch'.at = "asked"
  BY <1>1, RefetchFacts DEF FeedInv, FeedTypeOK, Rows
<1>3. FeedTypeOK'
  BY <1>1, <1>2 DEF FeedInv, FeedTypeOK, Rows
<1>4. LinkFits'
  BY <1>1, <1>2 DEF FeedInv, LinkFits
\* A fetch that goes on is one nothing was missed for.
<1>5. fetch' = fetch /\ fetch'.at # "asked" => Counted
  BY <1>1, RefetchFacts DEF Counted
<1>6. QueueIsCurrent'
  BY <1>1, <1>2 DEF FeedInv, QueueIsCurrent, Shows, IsLast
<1>7. ReadIsCurrent' /\ ListIsCurrent'
  BY <1>1, <1>2, <1>5 DEF FeedInv, ReadIsCurrent, ListIsCurrent, Shows, Queued
<1> QED BY <1>3, <1>4, <1>6, <1>7 DEF FeedInv

LEMMA BrokenStep ==
  ASSUME FeedInv, Feed!Broken
  PROVE FeedInv'
<1> DEFINE F == IF Feed!Unrepaired THEN {e.flow : e \in Feed!ToSet(subscription.queue)} ELSE {}
<1>1. /\ subscription.on /\ subscription' = [on |-> FALSE, queue |-> <<>>]
      /\ blind' = blind \cup F /\ since' = since \cup F
      /\ link' = [link EXCEPT !.connected = FALSE]
      /\ UNCHANGED <<index, list, fetch>>
  BY DEF Feed!Broken, Feed!Off, Feed!Misses
<1>2. link' \in [connected : BOOLEAN, before : BOOLEAN] /\ ~link'.connected /\ link'.before = link.before
  BY <1>1 DEF FeedInv, FeedTypeOK
<1>3. subscription' \in [on : BOOLEAN, queue : Seq(Reported)] /\ DOMAIN subscription'.queue = {}
      /\ ~subscription'.on /\ subscription'.queue = <<>>
  BY <1>1
<1>4. FeedTypeOK'
  BY <1>1, <1>2, <1>3 DEF FeedInv, FeedTypeOK
<1>5. LinkFits'
  BY <1>1, <1>2, <1>3 DEF FeedInv, LinkFits
\* The events that were queued are missed, unless the page will ask again.
<1>6. Counted' => Counted /\ \A f \in Flows : Queued(f) => f \in F
  BY <1>1, <1>2, FeedFacts DEF Counted, Feed!Unrepaired, Queued, Feed!ToSet, Queue
<1> HIDE DEF F
<1>7. QueueIsCurrent'
  BY <1>3 DEF QueueIsCurrent
<1>8. ReadIsCurrent' /\ ListIsCurrent'
  BY <1>1, <1>6 DEF FeedInv, ReadIsCurrent, ListIsCurrent, Shows
<1> QED BY <1>4, <1>5, <1>7, <1>8 DEF FeedInv

LEMMA DeliverEventStep ==
  ASSUME FeedInv, Feed!Deliver
  PROVE FeedInv'
<1> DEFINE e == Head(Queue)
<1>1. /\ link.connected /\ Queue # <<>> /\ subscription' = [subscription EXCEPT !.queue = Tail(@)]
      /\ list' = [list EXCEPT ![e.flow] = e.row] /\ since' = since \cup {e.flow}
      /\ fetch' = [fetch EXCEPT !.known = TRUE]
      /\ UNCHANGED <<index, link, blind>>
  BY DEF Feed!Deliver, Queue
<1>2. /\ Queue' = Tail(Queue) /\ subscription'.on = subscription.on
      /\ fetch'.at = fetch.at /\ fetch'.rows = fetch.rows /\ fetch'.known
  BY <1>1 DEF FeedInv, FeedTypeOK, Queue
<1>3. OneLess(Queue, Queue')
  BY <1>1, <1>2, FeedFacts, EventApplied
<1>4. e = Queue[1] /\ 1 \in DOMAIN Queue /\ e.flow \in Flows /\ e.row \in ListRows
  BY <1>3 DEF OneLess, Reported
<1> HIDE DEF e
<1>5. FeedTypeOK'
  <2>1. subscription' \in [on : BOOLEAN, queue : Seq(Reported)]
    BY <1>1, <1>3 DEF FeedInv, FeedTypeOK, Queue, OneLess
  <2>2. list' \in [Flows -> ListRows] /\ fetch' \in [at : {"asked", "read", "idle", "failed"}, rows : [Flows -> ListRows], known : BOOLEAN]
    BY <1>1, <1>4 DEF FeedInv, FeedTypeOK
  <2> QED BY <1>1, <2>1, <2>2 DEF FeedInv, FeedTypeOK
<1>6. LinkFits'
  BY <1>1, <1>2 DEF FeedInv, LinkFits
<1>7. QueueIsCurrent'
  BY <1>1, <1>2, <1>3 DEF FeedInv, QueueIsCurrent, Shows, Queue, OneLess
<1>8. Counted
  BY <1>1 DEF Counted
<1>9. ASSUME NEW f \in Flows, ~Queued(f)', f # e.flow
      PROVE ~Queued(f) /\ list'[f] = list[f]
  BY <1>1, <1>3, <1>4, <1>9, FeedFacts DEF Queued, Queue, Rows, OneLess
<1>10. ReadIsCurrent'
  BY <1>1, <1>2, <1>8, <1>9 DEF FeedInv, ReadIsCurrent, Shows
<1>11. ListIsCurrent'
  <2> SUFFICES ASSUME fetch.at = "idle", NEW f \in Flows \ blind, ~Queued(f)'
               PROVE list'[f] = Feed!Listed(index[f])
    BY <1>1, <1>2 DEF ListIsCurrent, Shows
  <2>1. CASE f # e.flow
    BY <2>1, <1>1, <1>8, <1>9 DEF FeedInv, ListIsCurrent, Shows
  \* The last event of the exchange has just been put into the list.
  <2>2. CASE f = e.flow
    <3>1. IsLast(Queue, 1)
      BY <2>2, <1>3, <1>4 DEF Queued, Queue, OneLess
    <3>2. Shows(f, e.row)
      BY <2>2, <3>1, <1>4 DEF FeedInv, QueueIsCurrent, Queue
    <3>3. list'[f] = e.row
      BY <2>2, <1>1, <1>4, FeedFacts DEF Rows
    <3> QED BY <3>2, <3>3, <1>1 DEF Shows
  <2> QED BY <2>1, <2>2
<1> QED BY <1>5, <1>6, <1>7, <1>10, <1>11 DEF FeedInv

LEMMA ListedIsRow ==
  ASSUME NEW r \in ListRows \cup {"deleted"}
  PROVE Feed!Listed(r) \in ListRows
  BY DEF Feed!Listed, ListRows, Feed!NoRow

LEMMA ReadIndexStep ==
  ASSUME FeedInv, Feed!ReadIndex
  PROVE FeedInv'
<1>1. /\ fetch' = [fetch EXCEPT !.at = "read", !.rows = [f \in Flows |-> Feed!Listed(index[f])]]
      /\ since' = {f \in blind : \E e \in Feed!ToSet(Queue) : e.flow = f}
      /\ UNCHANGED <<index, subscription, link, list, blind>>
  BY DEF Feed!ReadIndex, Queue
<1>2. [f \in Flows |-> Feed!Listed(index[f])] \in Rows
  BY ListedIsRow, FeedFacts DEF Rows
<1>3. /\ fetch' \in [at : {"asked", "read", "idle", "failed"}, rows : Rows, known : BOOLEAN]
      /\ fetch'.at = "read" /\ \A f \in Flows : fetch'.rows[f] = Feed!Listed(index[f])
  BY <1>1, <1>2 DEF FeedInv, FeedTypeOK, Rows
<1>4. FeedTypeOK'
  BY <1>1, <1>3 DEF FeedInv, FeedTypeOK, Rows
<1>5. LinkFits'
  BY <1>1, <1>3 DEF FeedInv, LinkFits
\* An exchange of which an event is queued is made good only when none was lost.
<1>6. \A i \in DOMAIN Queue : Queue[i].flow \notin since' => Queue[i].flow \notin blind
  BY <1>1 DEF Feed!ToSet
<1>7. QueueIsCurrent'
  BY <1>1, <1>6 DEF FeedInv, QueueIsCurrent, Shows, IsLast, Queue
<1>8. ReadIsCurrent' /\ ListIsCurrent'
  BY <1>1, <1>3 DEF ReadIsCurrent, ListIsCurrent, Shows
<1> QED BY <1>4, <1>5, <1>7, <1>8 DEF FeedInv

LEMMA FetchedStep ==
  ASSUME FeedInv, Feed!Fetched
  PROVE FeedInv'
<1>1. /\ fetch.at = "read" /\ fetch' = [fetch EXCEPT !.at = "idle", !.known = TRUE]
      /\ list' = fetch.rows /\ blind' = since
      /\ UNCHANGED <<index, subscription, link, since>>
  BY DEF Feed!Fetched
<1>2. /\ fetch' \in [at : {"asked", "read", "idle", "failed"}, rows : Rows, known : BOOLEAN]
      /\ fetch'.at = "idle" /\ fetch'.known
  BY <1>1 DEF FeedInv, FeedTypeOK, Rows
<1>3. FeedTypeOK'
  BY <1>1, <1>2, FeedFacts DEF FeedInv, FeedTypeOK, Rows
<1>4. LinkFits'
  BY <1>1, <1>2 DEF FeedInv, LinkFits
<1>5. QueueIsCurrent'
  BY <1>1, <1>2 DEF FeedInv, QueueIsCurrent, Shows, IsLast
<1>6. ReadIsCurrent'
  BY <1>2 DEF ReadIsCurrent
<1>7. Counted' => Counted
  BY <1>1, <1>2 DEF Counted
<1>8. ListIsCurrent'
  BY <1>1, <1>7 DEF FeedInv, ReadIsCurrent, ListIsCurrent, Shows, Queued
<1> QED BY <1>3, <1>4, <1>5, <1>6, <1>8 DEF FeedInv

LEMMA FetchFailsStep ==
  ASSUME FeedInv, Feed!FetchFails
  PROVE FeedInv'
<1>1. /\ fetch' = [fetch EXCEPT !.at = "failed"]
      /\ UNCHANGED <<index, subscription, link, list, blind, since>>
  BY DEF Feed!FetchFails
<1>2. fetch' \in [at : {"asked", "read", "idle", "failed"}, rows : Rows, known : BOOLEAN] /\ fetch'.at = "failed"
  BY <1>1 DEF FeedInv, FeedTypeOK, Rows
<1>3. FeedTypeOK' /\ LinkFits'
  BY <1>1, <1>2 DEF FeedInv, FeedTypeOK, LinkFits, Rows
<1>4. QueueIsCurrent' /\ ReadIsCurrent' /\ ListIsCurrent'
  BY <1>1, <1>2 DEF FeedInv, QueueIsCurrent, ReadIsCurrent, ListIsCurrent, Shows, IsLast
<1> QED BY <1>3, <1>4 DEF FeedInv

LEMMA PageReloadStep ==
  ASSUME FeedInv, Feed!Reload
  PROVE FeedInv'
<1>1. /\ subscription' = [on |-> FALSE, queue |-> <<>>] /\ link' = [connected |-> FALSE, before |-> FALSE]
      /\ list' = [f \in Flows |-> "none"]
      /\ fetch' = [at |-> "asked", rows |-> [f \in Flows |-> "none"], known |-> FALSE]
      /\ UNCHANGED index
  BY DEF Feed!Reload, Feed!Off, Feed!NoLink, Feed!NoList, Feed!FirstFetch, Feed!NoRow
<1>2. list' \in Rows
  BY <1>1 DEF Rows, ListRows
<1>3. FeedTypeOK' /\ LinkFits'
  BY <1>1, <1>2 DEF FeedInv, FeedTypeOK, LinkFits, Rows
<1>4. QueueIsCurrent' /\ ReadIsCurrent' /\ ListIsCurrent'
  BY <1>1 DEF QueueIsCurrent, ReadIsCurrent, ListIsCurrent
<1> QED BY <1>3, <1>4 DEF FeedInv

LEMMA RecordStep ==
  ASSUME FeedInv, NEW f \in Flows, NEW from, NEW r \in {"waiting", "answered", "deleted"}, Feed!Record(f, from, r)
  PROVE FeedInv'
<1> DEFINE e == [flow |-> f, row |-> Feed!Listed(r)]
<1>1. index' = [index EXCEPT ![f] = r] /\ Feed!Emit(f, Feed!Listed(r)) /\ UNCHANGED <<link, list, fetch>>
  BY DEF Feed!Record
<1>2. /\ index' \in [Flows -> ListRows \cup {"deleted"}] /\ index'[f] = r
      /\ \A g \in Flows \ {f} : index'[g] = index[g]
  BY <1>1, FeedFacts DEF ListRows
<1>3. e \in Reported
  BY <1>2, FeedFacts, ListedIsRow DEF Reported
<1>4. Counted' = Counted
  BY <1>1 DEF Counted
<1>5. FeedTypeOK' /\ LinkFits'
  <2>1. subscription' \in [on : BOOLEAN, queue : Seq(Reported)]
        /\ subscription'.on = subscription.on /\ (~subscription.on => subscription'.queue = subscription.queue)
    <3>1. CASE UNCHANGED subscription
      BY <3>1 DEF FeedInv, FeedTypeOK
    <3>2. CASE subscription.on /\ subscription' = [subscription EXCEPT !.queue = Append(@, e)]
      <4>1. Append(Queue, e) \in Seq(Reported)
        BY <1>3, FeedFacts, EventQueued
      <4> QED BY <3>2, <4>1 DEF FeedInv, FeedTypeOK, Queue
    <3> QED BY <1>1, <3>1, <3>2 DEF Feed!Emit
  <2> QED BY <1>1, <1>2, <2>1 DEF FeedInv, FeedTypeOK, LinkFits
<1>6. CASE UNCHANGED subscription /\ \E F : Feed!Misses(F) /\ (Counted => f \in F) /\ (subscription.queue # <<>> => f \in F)
  <2>1. PICK F : Feed!Misses(F) /\ (Counted => f \in F) /\ (subscription.queue # <<>> => f \in F)
    BY <1>6
  <2>2. blind' = blind \cup F /\ since' = since \cup F
    BY <2>1 DEF Feed!Misses
  <2>3. \A i \in DOMAIN Queue : f \in F
    BY <2>1, FeedFacts, EmptySeq, LenProperties DEF Queue
  <2>4. QueueIsCurrent'
    BY <1>1, <1>2, <1>6, <2>2, <2>3, FeedFacts DEF FeedInv, QueueIsCurrent, Shows, Queue
  <2>5. ReadIsCurrent' /\ ListIsCurrent'
    BY <1>1, <1>2, <1>4, <1>6, <2>1, <2>2 DEF FeedInv, ReadIsCurrent, ListIsCurrent, Shows, Queued
  <2> QED BY <1>5, <2>4, <2>5 DEF FeedInv
<1>7. CASE /\ subscription.on /\ subscription' = [subscription EXCEPT !.queue = Append(@, e)]
           /\ UNCHANGED <<blind, since>>
  <2>1. Queue' = Append(Queue, e)
    BY <1>7 DEF FeedInv, FeedTypeOK, Queue
  <2>2. OneMore(Queue, Queue', e)
    BY <2>1, <1>3, FeedFacts, EventQueued
  <2>3. e.flow = f /\ e.row = Feed!Listed(index'[f])
    BY <1>2
  <2> HIDE DEF e
  <2>4. QueueIsCurrent'
    <3> SUFFICES ASSUME NEW i \in DOMAIN Queue', IsLast(Queue', i)
                 PROVE Queue'[i].flow \notin blind \/ (fetch.at = "read" /\ Queue'[i].flow \notin since) =>
                         Queue'[i].row = Feed!Listed(index'[Queue'[i].flow])
      BY <1>1, <1>7 DEF QueueIsCurrent, Queue, Shows
    <3>1. CASE Queue'[i] = e
      BY <3>1, <2>3
    <3>2. CASE i \in DOMAIN Queue /\ Queue'[i] = Queue[i] /\ Queue'[i].flow # e.flow /\ IsLast(Queue, i)
      BY <3>2, <1>1, <1>2, <1>7, <2>3, FeedFacts DEF FeedInv, QueueIsCurrent, Shows, Queue
    <3> QED BY <2>2, <3>1, <3>2 DEF OneMore
  <2>5. \A g \in Flows : ~Queued(g)' => g # f /\ ~Queued(g)
    BY <2>2, <2>3 DEF Queued, Queue, OneMore
  <2>6. ReadIsCurrent' /\ ListIsCurrent'
    BY <1>1, <1>2, <1>4, <1>7, <2>5 DEF FeedInv, ReadIsCurrent, ListIsCurrent, Shows
  <2> QED BY <1>5, <2>4, <2>6 DEF FeedInv
<1>8. CASE ~subscription.on
  <2>1. UNCHANGED subscription /\ Feed!Misses(IF Feed!Unrepaired THEN {f} ELSE {})
    BY <1>1, <1>8 DEF Feed!Emit
  <2>2. (Counted => Feed!Unrepaired) /\ subscription.queue = <<>>
    BY <1>8 DEF FeedInv, LinkFits, Counted, Feed!Unrepaired
  <2> QED BY <2>1, <2>2, <1>6
<1>9. CASE subscription.on /\ Len(Queue) = QueueMaxSize
  BY <1>1, <1>6, <1>9 DEF Feed!Emit, Queue
<1>10. CASE subscription.on /\ Len(Queue) # QueueMaxSize
  BY <1>1, <1>7, <1>10 DEF Feed!Emit, Feed!Misses, Queue
<1> QED BY <1>8, <1>9, <1>10

LEMMA FeedInitHolds ==
  ASSUME Feed!Init
  PROVE FeedInv
<1>1. /\ subscription = [on |-> FALSE, queue |-> <<>>] /\ link = [connected |-> FALSE, before |-> FALSE]
      /\ list = [f \in Flows |-> "none"] /\ index = [f \in Flows |-> "none"]
      /\ fetch = [at |-> "asked", rows |-> [f \in Flows |-> "none"], known |-> FALSE]
  BY DEF Feed!Init, Feed!Off, Feed!NoLink, Feed!NoList, Feed!FirstFetch, Feed!NoRow
<1>2. list \in Rows /\ index \in [Flows -> ListRows \cup {"deleted"}]
  BY <1>1 DEF Rows, ListRows
<1>3. FeedTypeOK /\ LinkFits
  BY <1>1, <1>2 DEF FeedTypeOK, LinkFits, Rows
<1>4. QueueIsCurrent /\ ReadIsCurrent /\ ListIsCurrent
  BY <1>1 DEF QueueIsCurrent, ReadIsCurrent, ListIsCurrent
<1> QED BY <1>3, <1>4 DEF FeedInv

LEMMA FeedInductive ==
  ASSUME FeedInv, [Feed!Next]_(Feed!vars)
  PROVE FeedInv'
<1>1. CASE UNCHANGED Feed!vars
  BY <1>1 DEF Feed!vars, FeedInv, FeedTypeOK, LinkFits, QueueIsCurrent, ReadIsCurrent, ListIsCurrent, Shows, Queued, Counted, IsLast
<1>2. ASSUME NEW f \in Flows,
             Feed!Record(f, Feed!NoRow, "waiting") \/ Feed!Record(f, "waiting", "answered") \/ Feed!Record(f, "waiting", "deleted")
      PROVE FeedInv'
  BY <1>2, RecordStep
<1>3. CASE Feed!Subscribe \/ Feed!Opened \/ Feed!Broken \/ Feed!Deliver
  BY <1>3, SubscribeStep, OpenedStep, BrokenStep, DeliverEventStep
<1>4. CASE Feed!ReadIndex \/ Feed!Fetched \/ Feed!FetchFails \/ Feed!Reload
  BY <1>4, ReadIndexStep, FetchedStep, FetchFailsStep, PageReloadStep
<1> QED BY <1>1, <1>2, <1>3, <1>4 DEF Feed!Next

\* With any number of exchanges and any history of broken connections, full queues, failed
\* reads and reloads, a page that is connected and has what it asked for lists every
\* exchange as the index has it, except those of which it was told nothing.
THEOREM FeedTheorem == Feed!Spec => []ListFollows
<1>1. FeedInv /\ [Feed!Next]_(Feed!vars) => FeedInv'
  BY FeedInductive
<1>2. FeedInv => ListFollows
  <2> SUFFICES ASSUME FeedInv, link.connected, Queue = <<>>, fetch.at = "idle", NEW f \in Flows \ blind
               PROVE list[f] = Feed!Listed(index[f])
    BY DEF ListFollows, Feed!ListFollows, Queue
  <2>1. Counted /\ ~Queued(f)
    BY FeedFacts, EmptySeq DEF Counted, Queued, Queue
  <2> QED BY <2>1 DEF FeedInv, ListIsCurrent, Shows
<1> QED BY <1>1, <1>2, FeedInitHolds, PTL DEF Feed!Spec

-----------------------------------------------------------------------------
(* Spaces: any number of calls, stored sessions and changes of the file     *)
(* system.                                                                  *)

\* A database, as one transaction leaves it to the next.
IsDatabase(d) == DOMAIN d = {"spaces", "identity", "tree", "of"} /\ DOMAIN d.tree = Repository!Paths
OneSpace(S) == \A s, t \in S : s = t

SpacesTypeOK ==
  /\ IsDatabase(db) /\ IsDatabase(startup.saved)
  /\ DOMAIN call = Calls
  /\ \A c \in Calls :
       /\ DOMAIN call[c] = {"at", "path", "found", "space"}
       /\ call[c].at # "idle" =>
            /\ call[c].path \in Repository!Paths /\ call[c].found.git \in BOOLEAN
            /\ ~call[c].found.git => DOMAIN call[c].found.rows = {call[c].path}
  /\ DOMAIN startup = {"at", "batch", "seen", "resolved", "again", "saved", "cwd"}
  /\ fresh \in BOOLEAN

\* git lists a repository's main worktree, which is there.
MainIsListed == listed # {} => "main" \in listed /\ "main" \in exists

\* The spaces that have the repository's key, or will have it with the write of a call.
Claimed == {call[c].space : c \in {d \in Calls : call[d].at = "write" /\ call[d].found.git}}
KeyHasOneSpace == OneSpace(db.identity \cup Claimed) /\ OneSpace(startup.saved.identity)

CallsComeAfterStartup == startup.at # "serving" => \A c \in Calls : call[c].at = "idle"

\* What RepoRowsMatch asks of the row of one path.
RowMatches(d, p) ==
  IF p \in listed
  THEN d.tree[p].space \in d.identity /\ d.tree[p].missing = (p \notin exists) /\ d.tree[p].primary = (p = "main")
  ELSE d.tree[p].space \in d.identity => d.tree[p].missing /\ ~d.tree[p].primary
RowsMatch(d) == listed # {} => \A p \in Repository!Paths : RowMatches(d, p)

SpacesInv ==
  /\ SpacesTypeOK /\ MainIsListed /\ KeyHasOneSpace /\ CallsComeAfterStartup
  /\ fresh => RowsMatch(db)

LEMMA DetectFacts ==
  ASSUME NEW p \in Repository!Paths, NEW found, found = Repository!DetectSpace(p)
  PROVE /\ found.git \in BOOLEAN
        /\ ~found.git => DOMAIN found.rows = {p}
        /\ found.git => /\ DOMAIN found.rows = listed
                        /\ \A q \in listed : found.rows[q].missing = (q \notin exists) /\ found.rows[q].primary = (q = "main")
<1>1. CASE p \in exists /\ Repository!Root(p) \in listed
  <2>1. found = [git |-> TRUE, rows |-> [q \in listed |-> [missing |-> q \notin exists, primary |-> q = "main"]]]
    BY <1>1 DEF Repository!DetectSpace
  <2> QED BY <2>1
<1>2. CASE ~(p \in exists /\ Repository!Root(p) \in listed)
  <2>1. found = [git |-> FALSE, rows |-> [q \in {p} |-> [missing |-> p \notin exists, primary |-> p \in exists]]]
    BY <1>2 DEF Repository!DetectSpace
  <2> QED BY <2>1
<1> QED BY <1>1, <1>2

\* u is d with a write of what was found in a space.
Written(d, found, space, u) ==
  /\ IsDatabase(u)
  /\ u.identity = IF found.git THEN d.identity \cup {space} ELSE d.identity
  /\ \A p \in Repository!Paths :
       u.tree[p] = IF p \in DOMAIN found.rows
                   THEN [space |-> space, missing |-> found.rows[p].missing, primary |-> found.rows[p].primary]
                   ELSE IF found.git /\ d.tree[p].space = space
                   THEN [space |-> space, missing |-> TRUE, primary |-> FALSE] ELSE d.tree[p]

LEMMA UpsertedFacts ==
  ASSUME NEW d, IsDatabase(d), NEW found, NEW space
  PROVE Written(d, found, space, Repository!Upserted(d, found, space))
  BY DEF IsDatabase, Written, Repository!Upserted

\* What a write makes of the rows, when the ghost says that they are of the repository as it is.
LEMMA WriteMatches ==
  ASSUME IsDatabase(db), NEW p \in Repository!Paths, NEW found, NEW space,
         found.git \in BOOLEAN, ~found.git => DOMAIN found.rows = {p},
         found.git => \A s \in db.identity : s = space,
         fresh => RowsMatch(db), Repository!FreshAfter(found, p, space)
  PROVE RowsMatch(Repository!Upserted(db, found, space))
<1> DEFINE u == Repository!Upserted(db, found, space)
<1>0. Written(db, found, space, u)
  BY UpsertedFacts
<1> HIDE DEF u
<1>1. /\ u.identity = IF found.git THEN db.identity \cup {space} ELSE db.identity
      /\ \A q \in Repository!Paths :
           u.tree[q] = IF q \in DOMAIN found.rows
                       THEN [space |-> space, missing |-> found.rows[q].missing, primary |-> found.rows[q].primary]
                       ELSE IF found.git /\ db.tree[q].space = space
                       THEN [space |-> space, missing |-> TRUE, primary |-> FALSE] ELSE db.tree[q]
  BY <1>0 DEF Written
<1> SUFFICES ASSUME listed # {}, NEW q \in Repository!Paths
             PROVE RowMatches(u, q)
  BY DEF RowsMatch, u
<1>2. CASE found.git
  <2>1. /\ DOMAIN found.rows = listed
        /\ \A r \in listed : found.rows[r].missing = (r \notin exists) /\ found.rows[r].primary = (r = "main")
    BY <1>2, DetectFacts DEF Repository!FreshAfter
  <2>2. u.identity = {space}
    BY <1>1, <1>2
  <2>3. CASE q \in listed
    <3>1. u.tree[q] = [space |-> space, missing |-> found.rows[q].missing, primary |-> found.rows[q].primary]
      BY <1>1, <2>1, <2>3
    <3> QED BY <3>1, <2>1, <2>2, <2>3 DEF RowMatches
  <2>4. CASE q \notin listed /\ db.tree[q].space = space
    <3>1. u.tree[q] = [space |-> space, missing |-> TRUE, primary |-> FALSE]
      BY <1>1, <1>2, <2>1, <2>4
    <3> QED BY <3>1, <2>4 DEF RowMatches
  <2>5. CASE q \notin listed /\ db.tree[q].space # space
    <3>1. u.tree[q] = db.tree[q]
      BY <1>1, <2>1, <2>5
    <3> QED BY <3>1, <2>2, <2>5 DEF RowMatches
  <2> QED BY <2>3, <2>4, <2>5
\* A plain directory: neither its row nor its space is the repository's.
<1>3. CASE ~found.git
  <2>1. fresh /\ db.tree[p].space \notin db.identity /\ space \notin db.identity
    BY <1>3 DEF Repository!FreshAfter
  <2>2. u.identity = db.identity /\ RowMatches(db, q) /\ RowMatches(db, p)
    BY <1>1, <1>3, <2>1 DEF RowsMatch
  <2>3. CASE q = p
    <3>1. u.tree[q].space = space
      <4>1. q \in DOMAIN found.rows
        BY <1>3, <2>3
      <4>2. u.tree[q] = [space |-> space, missing |-> found.rows[q].missing, primary |-> found.rows[q].primary]
        BY <1>1, <4>1
      <4> QED BY <4>2
    <3> QED BY <3>1, <2>1, <2>2, <2>3 DEF RowMatches
  <2>4. CASE q # p
    <3>1. u.tree[q] = db.tree[q]
      BY <1>1, <1>3, <2>4
    <3> QED BY <3>1, <2>2 DEF RowMatches
  <2> QED BY <2>3, <2>4
<1> QED BY <1>2, <1>3

\* The call of one step, and the calls that are left as they are.
LEMMA CallsAfter ==
  ASSUME SpacesInv, NEW c \in Calls, NEW x, call' = [call EXCEPT ![c] = x]
  PROVE DOMAIN call' = Calls /\ call'[c] = x /\ \A o \in Calls \ {c} : call'[o] = call[o]
  BY DEF SpacesInv, SpacesTypeOK

LEMMA CallTypes ==
  ASSUME SpacesInv, NEW c \in Calls, DOMAIN call' = Calls, \A o \in Calls \ {c} : call'[o] = call[o],
         DOMAIN call'[c] = {"at", "path", "found", "space"},
         call'[c].at # "idle" =>
            /\ call'[c].path \in Repository!Paths /\ call'[c].found.git \in BOOLEAN
            /\ ~call'[c].found.git => DOMAIN call'[c].found.rows = {call'[c].path},
         UNCHANGED startup, IsDatabase(db'), fresh' \in BOOLEAN
  PROVE SpacesTypeOK'
<1>1. \A o \in Calls :
       /\ DOMAIN call'[o] = {"at", "path", "found", "space"}
       /\ call'[o].at # "idle" =>
            /\ call'[o].path \in Repository!Paths /\ call'[o].found.git \in BOOLEAN
            /\ ~call'[o].found.git => DOMAIN call'[o].found.rows = {call'[o].path}
  BY DEF SpacesInv, SpacesTypeOK
<1> QED BY <1>1 DEF SpacesInv, SpacesTypeOK

LEMMA DetectStep ==
  ASSUME SpacesInv, NEW c \in Calls, NEW p \in Repository!Paths, Repository!Detect(c, p)
  PROVE SpacesInv'
<1> DEFINE found == Repository!DetectSpace(p)
           x == [at |-> "lookup", path |-> p, found |-> found, space |-> 0]
<1>1. /\ startup.at = "serving" /\ call[c].at = "idle" /\ call' = [call EXCEPT ![c] = x]
      /\ UNCHANGED <<exists, listed, db, startup, fresh>>
  BY DEF Repository!Detect
<1>2. found.git \in BOOLEAN /\ (~found.git => DOMAIN found.rows = {p})
  BY DetectFacts
<1> HIDE DEF found
<1>3. DOMAIN call' = Calls /\ call'[c] = x /\ \A o \in Calls \ {c} : call'[o] = call[o]
  BY <1>1, CallsAfter
<1>4. SpacesTypeOK'
  BY <1>1, <1>2, <1>3, CallTypes DEF SpacesInv, SpacesTypeOK
<1>5. Claimed' \subseteq Claimed
  BY <1>1, <1>3 DEF Claimed
<1>6. KeyHasOneSpace' /\ MainIsListed' /\ CallsComeAfterStartup'
  BY <1>1, <1>5 DEF SpacesInv, KeyHasOneSpace, OneSpace, MainIsListed, CallsComeAfterStartup
<1>7. (fresh => RowsMatch(db))'
  BY <1>1 DEF SpacesInv, RowsMatch, RowMatches
<1> QED BY <1>4, <1>6, <1>7 DEF SpacesInv

LEMMA LookupStep ==
  ASSUME SpacesInv, NEW c \in Calls, Repository!Lookup(c)
  PROVE SpacesInv'
<1> DEFINE found == call[c].found
           new == Repository!SpaceFor(db, found, call[c].path, Repository!FirstOf(Repository!Unused))
<1>1. /\ call[c].at = "lookup"
      /\ ~found.git \/ db.identity # {} \/ \A o \in Calls : call[o].at # "write" \/ ~call[o].found.git
      /\ call' = [call EXCEPT ![c].at = "write", ![c].space = new]
      /\ UNCHANGED <<exists, listed, db, startup, fresh>>
  BY DEF Repository!Lookup
<1>2. found.git /\ db.identity # {} => new \in db.identity
  BY DEF Repository!SpaceFor
<1> HIDE DEF new
<1>3. /\ DOMAIN call' = Calls /\ DOMAIN call'[c] = {"at", "path", "found", "space"}
      /\ call'[c].at = "write" /\ call'[c].path = call[c].path /\ call'[c].found = found /\ call'[c].space = new
      /\ \A o \in Calls \ {c} : call'[o] = call[o]
  BY <1>1 DEF SpacesInv, SpacesTypeOK
<1>4. SpacesTypeOK'
  BY <1>1, <1>3, CallTypes DEF SpacesInv, SpacesTypeOK
<1>5. KeyHasOneSpace'
  <2>1. CASE ~found.git
    <3>1. Claimed' \subseteq Claimed
      BY <1>3, <2>1 DEF Claimed
    <3> QED BY <1>1, <3>1 DEF SpacesInv, KeyHasOneSpace, OneSpace
  <2>2. CASE found.git /\ db.identity # {}
    <3>1. Claimed' \subseteq Claimed \cup {new} /\ new \in db.identity
      BY <1>2, <1>3, <2>2 DEF Claimed
    <3> QED BY <1>1, <3>1 DEF SpacesInv, KeyHasOneSpace, OneSpace
  \* The key is claimed by one transaction at a time.
  <2>3. CASE found.git /\ db.identity = {}
    <3>1. Claimed' \subseteq {new}
      BY <1>1, <1>3, <2>3 DEF Claimed
    <3> QED BY <1>1, <2>3, <3>1 DEF SpacesInv, KeyHasOneSpace, OneSpace
  <2>4. found.git \in BOOLEAN
    BY <1>1 DEF SpacesInv, SpacesTypeOK
  <2> QED BY <2>1, <2>2, <2>3, <2>4
<1>6. MainIsListed' /\ CallsComeAfterStartup'
  BY <1>1 DEF SpacesInv, MainIsListed, CallsComeAfterStartup
<1>7. (fresh => RowsMatch(db))'
  BY <1>1 DEF SpacesInv, RowsMatch, RowMatches
<1> QED BY <1>4, <1>5, <1>6, <1>7 DEF SpacesInv

LEMMA IdleAgain ==
  ASSUME SpacesInv, NEW c \in Calls, call' = [call EXCEPT ![c] = Repository!Idle]
  PROVE /\ DOMAIN call' = Calls /\ DOMAIN call'[c] = {"at", "path", "found", "space"} /\ call'[c].at = "idle"
        /\ (\A o \in Calls \ {c} : call'[o] = call[o]) /\ Claimed' \subseteq Claimed
<1>1. DOMAIN call' = Calls /\ call'[c] = Repository!Idle /\ \A o \in Calls \ {c} : call'[o] = call[o]
  BY CallsAfter
<1>2. DOMAIN call'[c] = {"at", "path", "found", "space"} /\ call'[c].at = "idle"
  BY <1>1 DEF Repository!Idle
<1> QED BY <1>1, <1>2 DEF Claimed

LEMMA WriteStep ==
  ASSUME SpacesInv, NEW c \in Calls, Repository!Write(c)
  PROVE SpacesInv'
<1> DEFINE found == call[c].found
           p == call[c].path
           space == call[c].space
<1>1. /\ call[c].at = "write" /\ db' = Repository!Upserted(db, found, space)
      /\ fresh' = Repository!FreshAfter(found, p, space) /\ call' = [call EXCEPT ![c] = Repository!Idle]
      /\ UNCHANGED <<exists, listed, startup>>
  BY DEF Repository!Write
<1>2. /\ p \in Repository!Paths /\ found.git \in BOOLEAN /\ (~found.git => DOMAIN found.rows = {p})
      /\ IsDatabase(db)
  BY <1>1 DEF SpacesInv, SpacesTypeOK
<1>3. found.git => space \in Claimed
  BY <1>1 DEF Claimed
<1>4. found.git => \A s \in db.identity : s = space
  BY <1>3 DEF SpacesInv, KeyHasOneSpace, OneSpace
<1>5. /\ DOMAIN call' = Calls /\ DOMAIN call'[c] = {"at", "path", "found", "space"} /\ call'[c].at = "idle"
      /\ (\A o \in Calls \ {c} : call'[o] = call[o]) /\ Claimed' \subseteq Claimed
  BY <1>1, IdleAgain
<1>6. IsDatabase(db') /\ db'.identity = IF found.git THEN db.identity \cup {space} ELSE db.identity
  <2>1. Written(db, found, space, db')
    BY <1>1, <1>2, UpsertedFacts
  <2> QED BY <2>1 DEF Written
<1>7. fresh' => RowsMatch(Repository!Upserted(db, found, space))
  <2>1. fresh => RowsMatch(db)
    BY DEF SpacesInv
  <2> SUFFICES ASSUME fresh'
               PROVE RowsMatch(Repository!Upserted(db, found, space))
    OBVIOUS
  <2>2. Repository!FreshAfter(found, p, space)
    BY <1>1
  <2> HIDE DEF found, p, space
  <2> QED BY <1>2, <1>4, <2>1, <2>2, WriteMatches
<1>8. (fresh => RowsMatch(db))'
  BY <1>1, <1>7 DEF RowsMatch, RowMatches
<1>9. fresh' \in BOOLEAN
  BY <1>1 DEF Repository!FreshAfter, SpacesInv, SpacesTypeOK
<1> HIDE DEF found, p, space
<1>10. SpacesTypeOK'
  BY <1>1, <1>5, <1>6, <1>9, CallTypes
<1>11. db'.identity \cup Claimed' \subseteq db.identity \cup Claimed
  BY <1>3, <1>5, <1>6
<1>12. KeyHasOneSpace' /\ MainIsListed' /\ CallsComeAfterStartup'
  BY <1>1, <1>5, <1>11 DEF SpacesInv, KeyHasOneSpace, OneSpace, MainIsListed, CallsComeAfterStartup
<1> QED BY <1>8, <1>10, <1>12 DEF SpacesInv

LEMMA AbortStep ==
  ASSUME SpacesInv, NEW c \in Calls, Repository!Abort(c)
  PROVE SpacesInv'
<1>1. call' = [call EXCEPT ![c] = Repository!Idle] /\ UNCHANGED <<exists, listed, db, startup, fresh>>
  BY DEF Repository!Abort
<1>2. /\ DOMAIN call' = Calls /\ DOMAIN call'[c] = {"at", "path", "found", "space"} /\ call'[c].at = "idle"
      /\ (\A o \in Calls \ {c} : call'[o] = call[o]) /\ Claimed' \subseteq Claimed
  BY <1>1, IdleAgain
<1>3. SpacesTypeOK'
  BY <1>1, <1>2, CallTypes DEF SpacesInv, SpacesTypeOK
<1>4. KeyHasOneSpace' /\ MainIsListed' /\ CallsComeAfterStartup'
  BY <1>1, <1>2 DEF SpacesInv, KeyHasOneSpace, OneSpace, MainIsListed, CallsComeAfterStartup
<1>5. (fresh => RowsMatch(db))'
  BY <1>1 DEF SpacesInv, RowsMatch, RowMatches
<1> QED BY <1>3, <1>4, <1>5 DEF SpacesInv

\* A step of the startup: no call has begun.
LEMMA NoClaims ==
  ASSUME SpacesInv, startup.at # "serving"
  PROVE Claimed = {}
  BY DEF SpacesInv, CallsComeAfterStartup, Claimed

\* What a resolution at startup writes.
LEMMA ResolvedFacts ==
  ASSUME SpacesInv, startup.at # "serving", NEW p \in Repository!Paths, NEW u, u = Repository!Resolved(db, p)
  PROVE /\ IsDatabase(u) /\ OneSpace(u.identity)
        /\ Repository!FreshAfter(Repository!DetectSpace(p), p, Repository!SpaceOf(db, p)) => RowsMatch(u)
<1> DEFINE found == Repository!DetectSpace(p)
           space == Repository!SpaceOf(db, p)
<1>1. u = Repository!Upserted(db, found, space) /\ IsDatabase(db)
  BY DEF Repository!Resolved, SpacesInv, SpacesTypeOK
<1>2. found.git \in BOOLEAN /\ (~found.git => DOMAIN found.rows = {p})
  BY DetectFacts
<1>3. OneSpace(db.identity)
  BY DEF SpacesInv, KeyHasOneSpace, OneSpace
<1>4. found.git => \A s \in db.identity : s = space
  BY <1>3 DEF Repository!SpaceOf, Repository!SpaceFor, OneSpace
<1> HIDE DEF found, space
<1>5. Written(db, found, space, u)
  BY <1>1, UpsertedFacts
<1>6. IsDatabase(u) /\ OneSpace(u.identity)
  BY <1>3, <1>4, <1>5 DEF Written, OneSpace
<1>7. fresh => RowsMatch(db)
  BY DEF SpacesInv
<1>8. Repository!FreshAfter(found, p, space) => RowsMatch(u)
  BY <1>1, <1>2, <1>4, <1>7, WriteMatches
<1> QED BY <1>6, <1>8 DEF found, space

\* What is left to show of a step of the startup.
LEMMA StartupStep ==
  ASSUME SpacesInv, startup.at # "serving", UNCHANGED <<exists, listed, call>>,
         IsDatabase(db'), OneSpace(db'.identity),
         DOMAIN startup' = {"at", "batch", "seen", "resolved", "again", "saved", "cwd"},
         IsDatabase(startup'.saved), OneSpace(startup'.saved.identity),
         fresh' \in BOOLEAN, fresh' => RowsMatch(db')
  PROVE SpacesInv'
<1>1. SpacesTypeOK' /\ MainIsListed'
  BY DEF SpacesInv, SpacesTypeOK, MainIsListed
<1>2. KeyHasOneSpace'
  <2>1. Claimed' = {}
    BY NoClaims DEF Claimed
  <2> QED BY <2>1 DEF KeyHasOneSpace, OneSpace
<1>3. CallsComeAfterStartup'
  BY DEF SpacesInv, CallsComeAfterStartup
<1>4. (fresh => RowsMatch(db))'
  BY DEF RowsMatch, RowMatches
<1> QED BY <1>1, <1>2, <1>3, <1>4 DEF SpacesInv

LEMMA StartupFacts ==
  ASSUME SpacesInv
  PROVE /\ IsDatabase(db) /\ OneSpace(db.identity)
        /\ DOMAIN startup = {"at", "batch", "seen", "resolved", "again", "saved", "cwd"}
        /\ IsDatabase(startup.saved) /\ OneSpace(startup.saved.identity)
        /\ fresh \in BOOLEAN /\ (fresh => RowsMatch(db))
        /\ IsDatabase(Repository!NoRows) /\ OneSpace(Repository!NoRows.identity)
<1>1. IsDatabase(Repository!NoRows) /\ OneSpace(Repository!NoRows.identity)
  BY DEF IsDatabase, OneSpace, Repository!NoRows
<1> QED BY <1>1 DEF SpacesInv, SpacesTypeOK, KeyHasOneSpace, OneSpace

LEMMA ServingFacts ==
  ASSUME SpacesInv, startup' = Repository!Serving
  PROVE /\ DOMAIN startup' = {"at", "batch", "seen", "resolved", "again", "saved", "cwd"}
        /\ startup'.saved = Repository!NoRows
  BY StartupFacts DEF Repository!Serving

LEMMA ResolveCurrentSpaceStep ==
  ASSUME SpacesInv, Repository!ResolveCurrentSpace
  PROVE SpacesInv'
<1>1. /\ startup.at = "starting" /\ db' = IF "main" \in exists THEN Repository!Resolved(db, "main") ELSE db
      /\ fresh' = ("main" \in exists) /\ startup' = [startup EXCEPT !.at = "listing", !.saved = db']
      /\ UNCHANGED <<exists, listed, call>>
  BY DEF Repository!ResolveCurrentSpace
<1>2. "main" \in Repository!Paths
  BY DEF Repository!Paths
<1>3. IsDatabase(db') /\ OneSpace(db'.identity)
  BY <1>1, <1>2, ResolvedFacts, StartupFacts
<1>4. /\ DOMAIN startup' = {"at", "batch", "seen", "resolved", "again", "saved", "cwd"}
      /\ startup'.saved = db'
  BY <1>1, StartupFacts
<1>5. fresh' => RowsMatch(db')
  <2>1. CASE listed = {}
    BY <2>1 DEF RowsMatch
  <2>2. CASE listed # {} /\ "main" \in exists
    <3>1. "main" \in listed
      BY <2>2 DEF SpacesInv, MainIsListed
    <3>2. Repository!DetectSpace("main").git
      BY <2>2, <3>1 DEF Repository!DetectSpace, Repository!Root
    <3>3. Repository!FreshAfter(Repository!DetectSpace("main"), "main", Repository!SpaceOf(db, "main"))
      BY <3>2 DEF Repository!FreshAfter
    <3> QED BY <1>1, <1>2, <2>2, <3>3, ResolvedFacts
  <2> QED BY <1>1, <2>1, <2>2
<1> QED BY <1>1, <1>3, <1>4, <1>5, StartupStep

LEMMA BackfillListStep ==
  ASSUME SpacesInv, Repository!BackfillList
  PROVE SpacesInv'
<1>1. /\ startup.at = "listing" /\ UNCHANGED <<exists, listed, db, call, fresh>>
      /\ startup' = IF Repository!Batch = {} THEN Repository!Serving
                    ELSE [startup EXCEPT !.at = "batch", !.batch = Repository!Batch, !.resolved = 0, !.again = TRUE]
  BY DEF Repository!BackfillList
<1>2. /\ DOMAIN startup' = {"at", "batch", "seen", "resolved", "again", "saved", "cwd"}
      /\ startup'.saved \in {startup.saved, Repository!NoRows}
  BY <1>1, ServingFacts, StartupFacts
<1> QED BY <1>1, <1>2, StartupFacts, StartupStep

LEMMA BackfillNextStep ==
  ASSUME SpacesInv, Repository!BackfillNext
  PROVE SpacesInv'
<1>1. /\ startup.at = "batch" /\ UNCHANGED <<exists, listed, db, call, fresh>>
      /\ startup' = Repository!Serving \/ startup' = [startup EXCEPT !.at = "listing"]
  BY DEF Repository!BackfillNext
<1>2. /\ DOMAIN startup' = {"at", "batch", "seen", "resolved", "again", "saved", "cwd"}
      /\ startup'.saved \in {startup.saved, Repository!NoRows}
  BY <1>1, ServingFacts, StartupFacts
<1> QED BY <1>1, <1>2, StartupFacts, StartupStep

LEMMA BackfillSessionStep ==
  ASSUME SpacesInv, Repository!BackfillSession
  PROVE SpacesInv'
<1>1. startup.at = "batch" /\ UNCHANGED <<exists, listed, call>>
  BY DEF Repository!BackfillSession
<1>2. PICK s :
        LET cwd == startup.cwd[s] IN
        \/ /\ cwd = ""
           /\ startup' = [startup EXCEPT !.batch = @ \ {s}, !.seen = @ \cup {s}, !.again = @ /\ s \in startup.seen]
           /\ UNCHANGED <<db, fresh>>
        \/ /\ cwd \in Repository!Paths
           /\ \E p \in {IF Repository!DetectSpace(cwd).git THEN Repository!Root(cwd) ELSE cwd} :
                db' = [Repository!Resolved(db, cwd) EXCEPT !.of[s] = Repository!Resolved(db, cwd).tree[p].space]
           /\ fresh' = Repository!FreshAfter(Repository!DetectSpace(cwd), cwd, Repository!SpaceOf(db, cwd))
           /\ startup' = [startup EXCEPT !.batch = @ \ {s}, !.resolved = @ + 1, !.again = FALSE]
        \/ /\ cwd = "file"
           /\ db' = startup.saved /\ fresh' = FALSE
           /\ startup' = Repository!Serving
  BY DEF Repository!BackfillSession
<1> DEFINE cwd == startup.cwd[s]
<1>3. CASE startup' = [startup EXCEPT !.batch = @ \ {s}, !.seen = @ \cup {s}, !.again = @ /\ s \in startup.seen] /\ UNCHANGED <<db, fresh>>
  <2>1. /\ DOMAIN startup' = {"at", "batch", "seen", "resolved", "again", "saved", "cwd"}
        /\ startup'.saved = startup.saved
    BY <1>3, StartupFacts
  <2> QED BY <1>1, <1>3, <2>1, StartupFacts, StartupStep
<1>4. CASE /\ cwd \in Repository!Paths
           /\ \E p \in {IF Repository!DetectSpace(cwd).git THEN Repository!Root(cwd) ELSE cwd} :
                db' = [Repository!Resolved(db, cwd) EXCEPT !.of[s] = Repository!Resolved(db, cwd).tree[p].space]
           /\ fresh' = Repository!FreshAfter(Repository!DetectSpace(cwd), cwd, Repository!SpaceOf(db, cwd))
           /\ startup' = [startup EXCEPT !.batch = @ \ {s}, !.resolved = @ + 1, !.again = FALSE]
  <2> DEFINE u == Repository!Resolved(db, cwd)
  <2>1. PICK n : db' = [u EXCEPT !.of[s] = n]
    BY <1>4
  <2>2. /\ DOMAIN startup' = {"at", "batch", "seen", "resolved", "again", "saved", "cwd"}
        /\ startup'.saved = startup.saved
    BY <1>4, StartupFacts
  <2>3. IsDatabase(u) /\ OneSpace(u.identity) /\ (fresh' => RowsMatch(u))
    <3>1. fresh' => Repository!FreshAfter(Repository!DetectSpace(cwd), cwd, Repository!SpaceOf(db, cwd))
      BY <1>4
    <3>2. cwd \in Repository!Paths
      BY <1>4
    <3> HIDE DEF cwd
    <3> QED BY <1>1, <3>1, <3>2, ResolvedFacts
  <2>4. fresh' \in BOOLEAN
    BY <1>4, StartupFacts DEF Repository!FreshAfter
  <2> HIDE DEF u, cwd
  <2>5. IsDatabase(db') /\ db'.identity = u.identity /\ db'.tree = u.tree
    BY <2>1, <2>3 DEF IsDatabase
  <2>6. fresh' => RowsMatch(db')
    BY <2>3, <2>5 DEF RowsMatch, RowMatches
  <2> QED BY <1>1, <2>2, <2>3, <2>4, <2>5, <2>6, StartupFacts, StartupStep
\* The transaction of the backfill is rolled back.
<1>5. CASE db' = startup.saved /\ fresh' = FALSE /\ startup' = Repository!Serving
  BY <1>1, <1>5, ServingFacts, StartupFacts, StartupStep
<1> QED BY <1>2, <1>3, <1>4, <1>5

LEMMA FileSystemStep ==
  ASSUME SpacesInv, Repository!FileSystem
  PROVE SpacesInv'
<1> DEFINE Kept(there, trees) == trees # {} => "main" \in trees /\ "main" \in there
<1>1. \E there, trees : Repository!Change(there, trees) /\ Kept(there, trees)
  <2>1. Kept(exists, listed)
    BY DEF SpacesInv, MainIsListed
  <2>2. CASE "main" \in exists /\ listed = {} /\ Repository!Change(exists, {"main"})
    BY <2>2
  <2>3. CASE listed # {} /\ Repository!Change(exists \cup {"linked"}, listed \cup {"linked"})
    BY <2>1, <2>3
  <2>4. CASE Repository!Change(exists, {p \in listed : p \in exists})
    <3>1. Kept(exists, {p \in listed : p \in exists})
      BY <2>1
    <3> QED BY <2>4, <3>1
  <2>5. CASE "linked" \in listed /\ Repository!Change(exists \ {"linked"}, listed \ {"linked"})
    <3>1. Kept(exists \ {"linked"}, listed \ {"linked"})
      BY <2>1
    <3> QED BY <2>5, <3>1
  <2>6. CASE "main" \in listed /\ Repository!Change(exists, {})
    BY <2>6
  <2>7. ASSUME NEW p \in exists,
               IF p = "main" THEN Repository!Change(exists \ {"main", "sub"}, {}) ELSE Repository!Change(exists \ {p}, listed)
        PROVE \E there, trees : Repository!Change(there, trees) /\ Kept(there, trees)
    <3>1. CASE p = "main"
      BY <2>7, <3>1
    <3>2. CASE p # "main"
      <4>1. Kept(exists \ {p}, listed)
        BY <2>1, <3>2
      <4> QED BY <2>7, <3>2, <4>1
    <3> QED BY <3>1, <3>2
  <2>8. ASSUME NEW p \in Repository!Paths, Repository!Change(exists \cup {p}, listed)
        PROVE \E there, trees : Repository!Change(there, trees) /\ Kept(there, trees)
    <3>1. Kept(exists \cup {p}, listed)
      BY <2>1
    <3> QED BY <2>8, <3>1
  <2> HIDE DEF Kept
  <2> QED BY <2>2, <2>3, <2>4, <2>5, <2>6, <2>7, <2>8 DEF Repository!FileSystem
<1>4. PICK there, trees : Repository!Change(there, trees) /\ Kept(there, trees)
  BY <1>1
<1>2. exists' = there /\ listed' = trees /\ fresh' = FALSE /\ UNCHANGED <<db, call, startup>>
  BY <1>4 DEF Repository!Change
<1>3. SpacesTypeOK' /\ MainIsListed' /\ KeyHasOneSpace' /\ CallsComeAfterStartup'
  BY <1>4, <1>2 DEF SpacesInv, SpacesTypeOK, MainIsListed, KeyHasOneSpace, CallsComeAfterStartup, Claimed
<1> QED BY <1>2, <1>3 DEF SpacesInv

LEMMA SpacesInitHolds ==
  ASSUME Repository!Init
  PROVE SpacesInv
<1>1. /\ db = Repository!NoRows /\ call = [c \in Calls |-> Repository!Idle] /\ fresh = FALSE
      /\ \E cwd \in SessionCwds :
           startup = [at |-> "starting", batch |-> {}, seen |-> {}, resolved |-> 0, again |-> FALSE, saved |-> Repository!NoRows, cwd |-> cwd]
      /\ MainIsListed
  BY DEF Repository!Init, MainIsListed
<1>2. DOMAIN startup = {"at", "batch", "seen", "resolved", "again", "saved", "cwd"} /\ startup.saved = Repository!NoRows
  BY <1>1
<1>3. IsDatabase(Repository!NoRows) /\ Repository!NoRows.identity = {}
  BY DEF IsDatabase, Repository!NoRows
<1>4. \A c \in Calls : DOMAIN call[c] = {"at", "path", "found", "space"} /\ call[c].at = "idle"
  BY <1>1 DEF Repository!Idle
<1>5. SpacesTypeOK
  BY <1>1, <1>2, <1>3, <1>4 DEF SpacesTypeOK
<1>6. KeyHasOneSpace /\ CallsComeAfterStartup
  BY <1>1, <1>2, <1>3, <1>4 DEF KeyHasOneSpace, OneSpace, Claimed, CallsComeAfterStartup
<1> QED BY <1>1, <1>5, <1>6 DEF SpacesInv

LEMMA SpacesInductive ==
  ASSUME SpacesInv, [Repository!Next]_(Repository!vars)
  PROVE SpacesInv'
<1>1. CASE UNCHANGED Repository!vars
  BY <1>1 DEF Repository!vars, SpacesInv, SpacesTypeOK, MainIsListed, KeyHasOneSpace, CallsComeAfterStartup, Claimed, RowsMatch, RowMatches
<1>2. ASSUME NEW c \in Calls, NEW p \in Repository!Paths, Repository!Detect(c, p)
      PROVE SpacesInv'
  BY <1>2, DetectStep
<1>3. ASSUME NEW c \in Calls, Repository!Lookup(c) \/ Repository!Write(c) \/ Repository!Abort(c)
      PROVE SpacesInv'
  BY <1>3, LookupStep, WriteStep, AbortStep
<1>4. CASE \/ Repository!ResolveCurrentSpace \/ Repository!BackfillList
           \/ Repository!BackfillSession \/ Repository!BackfillNext \/ Repository!FileSystem
  BY <1>4, ResolveCurrentSpaceStep, BackfillListStep, BackfillSessionStep, BackfillNextStep, FileSystemStep
<1> QED BY <1>1, <1>2, <1>3, <1>4 DEF Repository!Next

\* Whatever the number of calls, of stored sessions and of changes of the file system, a
\* repository has one space, and the rows of a detection of what git lists now, written
\* last, are what git lists.
THEOREM SpacesTheorem == Repository!Spec => []RepoRowsMatch
<1>1. SpacesInv /\ [Repository!Next]_(Repository!vars) => SpacesInv'
  BY SpacesInductive
<1>2. SpacesInv => RepoRowsMatch
  <2> SUFFICES ASSUME SpacesInv
               PROVE RepoRowsMatch
    OBVIOUS
  <2>1. \A s, t \in db.identity : s = t
    BY StartupFacts DEF OneSpace
  <2>2. fresh /\ listed # {} => \A p \in Repository!Paths : RowMatches(db, p)
    BY DEF SpacesInv, RowsMatch
  <2>3. ASSUME NEW p, RowMatches(db, p)
        PROVE IF p \in listed
              THEN db.tree[p].space \in db.identity /\ db.tree[p].missing = (p \notin exists) /\ db.tree[p].primary = (p = "main")
              ELSE db.tree[p].space \in db.identity => db.tree[p].missing /\ ~db.tree[p].primary
    BY <2>3 DEF RowMatches
  <2>4. fresh /\ listed # {} => \A p \in Repository!Paths :
          IF p \in listed
          THEN db.tree[p].space \in db.identity /\ db.tree[p].missing = (p \notin exists) /\ db.tree[p].primary = (p = "main")
          ELSE db.tree[p].space \in db.identity => db.tree[p].missing /\ ~db.tree[p].primary
    BY <2>2, <2>3
  <2> QED BY <2>1, <2>4 DEF RepoRowsMatch, Repository!RepoRowsMatch
<1> QED BY <1>1, <1>2, SpacesInitHolds, PTL DEF Repository!Spec


-----------------------------------------------------------------------------
(* TerminalFanout: the scrollback and what each viewer is sent             *)

\* A set of natural numbers that is not empty has a least one.
LEMMA LeastNat ==
  ASSUME NEW S \in SUBSET Nat, S # {}
  PROVE  \E m \in S : \A n \in S : m <= n
<1>2. PICK m \in S : \A n \in S : ~(<<n, m>> \in OpToRel(<, Nat))
  BY WFMin, NatLessThanWellFounded
<1>3. \A n \in S : ~(n < m)
  BY <1>2 DEF OpToRel
<1> QED BY <1>3

SumsBe(s, g) == \A j \in 0..Len(s) : Fanout!Sums(s)[j] = g[j]

\* What the sums of chunks add up to is told by any function with their equations.
LEMMA SumsAre ==
  ASSUME NEW s, Len(s) \in Nat, NEW g,
         g = [i \in 0..Len(s) |-> IF i = 0 THEN 0 ELSE g[i - 1] + Fanout!Size(s[i])]
  PROVE  SumsBe(s, g)
<1> DEFINE n == Len(s)
           f == Fanout!Sums(s)
           Sum(h) == [i \in 0..n |-> IF i = 0 THEN 0 ELSE h[i - 1] + Fanout!Size(s[i])]
<1>1. f = CHOOSE h : h = Sum(h)
  BY Zenon DEF Fanout!Sums
<1> HIDE DEF f
<1>0. g = Sum(g)
  OBVIOUS
<1> HIDE DEF Sum
<1>2. f = Sum(f)
  BY <1>0, <1>1
<1> USE DEF Sum
<1> DEFINE Bad == {j \in 0..n : f[j] # g[j]}
<1>3. ASSUME Bad # {} PROVE FALSE
  <2>1. PICK m \in Bad : \A j \in Bad : m <= j
    <3>1. Bad \in SUBSET Nat
      OBVIOUS
    <3> HIDE DEF Bad
    <3> QED BY <1>3, <3>1, LeastNat
  <2>2. m \in 0..n /\ f[m] # g[m]
    OBVIOUS
  <2>3. m # 0
    <3>1. f[0] = 0 /\ g[0] = 0
      BY <1>2
    <3> QED BY <2>2, <3>1
  <2>4. m - 1 \in 0..n /\ ~(m <= m - 1)
    BY <2>2, <2>3
  <2>5. f[m - 1] = g[m - 1]
    BY <2>1, <2>4
  <2>6. f[m] = f[m - 1] + Fanout!Size(s[m])
    BY <1>2, <2>2, <2>3
  <2>7. g[m] = g[m - 1] + Fanout!Size(s[m])
    BY <2>2, <2>3
  <2> QED BY <2>2, <2>5, <2>6, <2>7
<1>4. Bad = {}
  BY <1>3
<1> QED BY <1>4 DEF f, SumsBe

\* The scrollback is the end of the output, in one piece, and its bytes are counted.
RingFits(r, e, t) ==
  /\ e \in Nat /\ r \in Seq(Fanout!Chunks)
  /\ \A i \in 1..Len(r) : r[i].to <= e /\ (i < Len(r) => r[i].to = r[i + 1].from)
  /\ r # <<>> => r[Len(r)].to = e
  /\ t = IF r = <<>> THEN 0 ELSE e - r[1].from

\* How a scrollback that is not empty is shown to fit.
LEMMA RingIs ==
  ASSUME NEW r \in Seq(Fanout!Chunks), NEW e \in Nat, NEW t, r # <<>>,
         \A i \in 1..Len(r) : r[i].to <= e /\ (i < Len(r) => r[i].to = r[i + 1].from),
         r[Len(r)].to = e, t = e - r[1].from
  PROVE  RingFits(r, e, t)
BY DEF RingFits

LEMMA ChunkFacts ==
  ASSUME NEW c \in Fanout!Chunks
  PROVE  /\ c.from \in Nat /\ c.to \in Nat /\ c.from < c.to /\ c.to <= Output
         /\ Fanout!Size(c) = c.to - c.from
BY OutputAssumption DEF Fanout!Chunks, Fanout!Size

\* What is kept of a read, and how much of it.
LEMMA StoredFacts ==
  ASSUME NEW e \in Nat, NEW n \in Nat \ {0}, e + n <= Output, MaxBytes # 0,
         NEW c, c = [from |-> e, to |-> e + n]
  PROVE  /\ c \in Fanout!Chunks /\ Fanout!Stored(c) \in Fanout!Chunks
         /\ Fanout!Stored(c).to = e + n
         /\ Fanout!Stored(c).from = IF n > MaxBytes THEN e + n - MaxBytes ELSE e
         /\ Fanout!Counted(c) = Fanout!Size(Fanout!Stored(c))
<1>1. c \in Fanout!Chunks /\ Fanout!Size(c) = n
  BY OutputAssumption DEF Fanout!Chunks, Fanout!Size
<1>2. CASE n > MaxBytes
  <2>1. Fanout!Stored(c) = [from |-> e + n - MaxBytes, to |-> e + n]
    <3>1. [c EXCEPT !.from = c.to - MaxBytes] = [from |-> e + n - MaxBytes, to |-> e + n]
      BY OutputAssumption
    <3> QED BY <1>1, <1>2, <3>1 DEF Fanout!Stored
  <2> QED BY <1>1, <1>2, <2>1, OutputAssumption DEF Fanout!Chunks, Fanout!Counted
<1>3. CASE ~(n > MaxBytes)
  BY <1>1, <1>3 DEF Fanout!Stored, Fanout!Counted
<1> QED BY <1>2, <1>3

\* _trim stops at the first place where the rest fits.
Stops(s, bytes, k) ==
  /\ k \in 0..Len(s)
  /\ Fanout!Fits(s, bytes, k)
  /\ \A j \in 0..k - 1 : ~Fanout!Fits(s, bytes, j)

LEMMA OverflowFacts ==
  ASSUME NEW s, Len(s) \in Nat, NEW bytes
  PROVE  Stops(s, bytes, Fanout!Overflow(s, bytes))
<1> DEFINE n == Len(s)
           S == {k \in 0..n : Fanout!Fits(s, bytes, k)}
<1>1. n \in S /\ S \in SUBSET Nat
  BY DEF Fanout!Fits
<1>2. PICK m \in S : \A j \in S : m <= j
  <2> HIDE DEF S
  <2> QED BY <1>1, LeastNat
<1>3. m \in 0..n /\ Fanout!Fits(s, bytes, m)
  OBVIOUS
<1>4. ASSUME NEW j \in 0..m - 1 PROVE ~Fanout!Fits(s, bytes, j)
  <2>1. j \in 0..n /\ ~(m <= j)
    BY <1>3
  <2> QED BY <1>2, <2>1
<1> HIDE DEF n, S
<1>5. \E k \in 0..n : Fanout!Fits(s, bytes, k) /\ \A j \in 0..k - 1 : ~Fanout!Fits(s, bytes, j)
  BY <1>3, <1>4
<1>6. Fanout!Overflow(s, bytes) =
        CHOOSE k \in 0..n : Fanout!Fits(s, bytes, k) /\ \A j \in 0..k - 1 : ~Fanout!Fits(s, bytes, j)
  BY Zenon DEF Fanout!Overflow, n
<1> QED BY <1>5, <1>6, Zenon DEF n, Stops

\* What _trim leaves is a scrollback again.
Trimmed(grown, bytes, e) ==
  LET k == Fanout!Overflow(grown, bytes)
  IN RingFits(SubSeq(grown, k + 1, Len(grown)), e, bytes - Fanout!Sums(grown)[k])

\* s is t without its first k elements.
IsRest(s, t, k, S) ==
  /\ s \in Seq(S) /\ Len(s) = Len(t) - k
  /\ \A i \in 1..Len(t) - k : s[i] = t[k + i]

LEMMA RestFacts ==
  ASSUME NEW S, NEW t \in Seq(S), NEW k \in 0..Len(t)
  PROVE  IsRest(SubSeq(t, k + 1, Len(t)), t, k, S)
<1>1. /\ SubSeq(t, k + 1, Len(t)) \in Seq(S)
      /\ Len(SubSeq(t, k + 1, Len(t))) = Len(t) - k
      /\ \A i \in 1..Len(t) - k : SubSeq(t, k + 1, Len(t))[i] = t[k + i]
  OBVIOUS
<1> QED BY <1>1 DEF IsRest

\* A scrollback to which a read is added and which is trimmed.
LEMMA TrimFacts ==
  ASSUME NEW r, NEW e, NEW t, RingFits(r, e, t), NEW n \in Nat \ {0}, e + n <= Output,
         MaxBytes # 0, NEW d \in Fanout!Chunks, d.to = e + n,
         d.from = IF n > MaxBytes THEN e + n - MaxBytes ELSE e
  PROVE  Trimmed(Append(r, d), t + Fanout!Size(d), e + n)
<1> DEFINE L == Len(r)
           grown == Append(r, d)
           bytes == t + Fanout!Size(d)
           k == Fanout!Overflow(grown, bytes)
           kept == SubSeq(grown, k + 1, Len(grown))
<1>1. /\ e \in Nat /\ r \in Seq(Fanout!Chunks) /\ L \in Nat
      /\ \A i \in 1..L : r[i] \in Fanout!Chunks /\ r[i].from \in Nat /\ r[i].to \in Nat
                       /\ r[i].from < r[i].to /\ Fanout!Size(r[i]) = r[i].to - r[i].from
  BY ChunkFacts DEF RingFits
<1>2. /\ \A i \in 1..L : r[i].to <= e
      /\ \A i \in 1..L : i < L => r[i].to = r[i + 1].from
      /\ L # 0 => r[L].to = e /\ t = e - r[1].from
      /\ L = 0 => t = 0
  BY <1>1 DEF RingFits
<1>3. /\ d.from \in Nat /\ d.to \in Nat /\ d.from < d.to /\ Fanout!Size(d) = d.to - d.from
      /\ MaxBytes \in Nat /\ Fanout!Size(d) = IF n > MaxBytes THEN MaxBytes ELSE n
  BY <1>1, ChunkFacts, OutputAssumption
<1>4. /\ grown \in Seq(Fanout!Chunks) /\ Len(grown) = L + 1
      /\ \A i \in 1..L : grown[i] = r[i]
      /\ grown[L + 1] = d
  BY <1>1, AppendProperties
<1> HIDE DEF L, grown, k
<1>4a. /\ bytes \in Int /\ (L = 0 => bytes = Fanout!Size(d))
       /\ L # 0 => r[1].from \in Nat /\ r[1].from < e /\ bytes = e - r[1].from + Fanout!Size(d)
  <2>1. CASE L = 0
    BY <1>2, <1>3, <2>1
  <2>2. CASE L # 0
    <3>1. 1 \in 1..L
      BY <1>1, <2>2
    <3>2. r[1].from \in Nat /\ r[1].from < r[1].to /\ r[1].to \in Nat /\ r[1].to <= e /\ t = e - r[1].from
      BY <1>1, <1>2, <2>2, <3>1
    <3> QED BY <1>1, <1>3, <2>2, <3>2
  <2> QED BY <2>1, <2>2
<1> HIDE DEF bytes
<1> DEFINE g == [i \in 0..L + 1 |-> IF i = 0 THEN 0
                                   ELSE IF i <= L THEN r[i].to - r[1].from ELSE bytes]
<1>4b. /\ g[0] = 0 /\ g[L + 1] = bytes
       /\ \A i \in 1..L : g[i] = r[i].to - r[1].from
       /\ g = [i \in 0..L + 1 |-> g[i]]
  BY <1>1
<1> HIDE DEF g
<1>5. ASSUME NEW i \in 1..L + 1 PROVE g[i] = g[i - 1] + Fanout!Size(grown[i])
  <2>1. CASE i = 1 /\ i <= L
    <3>1. i \in 1..L /\ i - 1 = 0
      BY <1>1, <2>1
    <3>2. g[i] = r[i].to - r[1].from /\ g[i - 1] = 0
      BY <1>4b, <3>1
    <3>3. Fanout!Size(grown[i]) = r[i].to - r[i].from /\ r[i].to \in Nat /\ r[i].from \in Nat
      BY <1>1, <1>4, <3>1
    <3> QED BY <2>1, <3>2, <3>3
  <2>2. CASE i # 1 /\ i <= L
    <3>1. i - 1 \in 1..L /\ i - 1 < L /\ i \in 1..L /\ 1 \in 1..L
      BY <1>1, <2>2
    <3>2. r[i - 1].to = r[i].from /\ r[1].from \in Nat
      BY <1>1, <1>2, <3>1
    <3>3. g[i] = r[i].to - r[1].from /\ g[i - 1] = r[i - 1].to - r[1].from
      BY <1>4b, <3>1
    <3>4. Fanout!Size(grown[i]) = r[i].to - r[i].from /\ r[i].to \in Nat /\ r[i].from \in Nat
      BY <1>1, <1>4, <3>1
    <3> QED BY <3>2, <3>3, <3>4
  <2>3. CASE i = L + 1 /\ L = 0
    <3>1. g[i] = bytes /\ g[i - 1] = 0 /\ grown[i] = d
      BY <1>4, <1>4b, <2>3
    <3> QED BY <1>3, <1>4a, <2>3, <3>1
  <2>4. CASE i = L + 1 /\ L # 0
    <3>1. g[i] = bytes /\ i - 1 = L /\ L \in 1..L /\ grown[i] = d
      BY <1>1, <1>4, <1>4b, <2>4
    <3>2. g[i - 1] = e - r[1].from
      BY <1>2, <1>4b, <2>4, <3>1
    <3> QED BY <1>1, <1>3, <1>4a, <2>4, <3>1, <3>2
  <2>5. i \in Nat /\ i <= L + 1 /\ i # 0
    BY <1>1
  <2> QED BY <1>1, <2>1, <2>2, <2>3, <2>4, <2>5
<1>6. g = [i \in 0..Len(grown) |-> IF i = 0 THEN 0 ELSE g[i - 1] + Fanout!Size(grown[i])]
  <2> DEFINE h == [i \in 0..L + 1 |-> IF i = 0 THEN 0 ELSE g[i - 1] + Fanout!Size(grown[i])]
  <2>1. ASSUME NEW i \in 0..L + 1 PROVE g[i] = h[i]
    <3>1. CASE i = 0
      BY <1>4b, <3>1
    <3>2. CASE i # 0
      <4>1. i \in 1..L + 1
        BY <1>1, <3>2
      <4> QED BY <1>5, <4>1, <3>2
    <3> QED BY <3>1, <3>2
  <2>2. g = h
    BY <1>4b, <2>1
  <2> QED BY <1>4, <2>2
<1>7. \A j \in 0..L + 1 : Fanout!Sums(grown)[j] = g[j]
  <2>1. SumsBe(grown, g)
    <3>1. Len(grown) \in Nat
      BY <1>1, <1>4
    <3> QED BY <1>6, <3>1, SumsAre, Zenon
  <2> QED BY <1>4, <2>1 DEF SumsBe
<1>7a. g[L] <= bytes /\ bytes - g[L] = Fanout!Size(d)
  <2>1. CASE L = 0
    BY <1>3, <1>4a, <1>4b, <2>1
  <2>2. CASE L # 0
    <3>1. L \in 1..L
      BY <1>1, <2>2
    <3>2. r[L].to = e /\ g[L] = e - r[1].from
      BY <1>2, <1>4b, <2>2, <3>1
    <3> QED BY <1>1, <1>3, <1>4a, <2>2, <3>2
  <2> QED BY <2>1, <2>2
<1>8. /\ k \in 0..L + 1
      /\ Fanout!Fits(grown, bytes, k)
      /\ \A j \in 0..k - 1 : ~Fanout!Fits(grown, bytes, j)
  <2>1. Stops(grown, bytes, k)
    BY <1>1, <1>4, OverflowFacts DEF k
  <2> QED BY <1>4, <2>1 DEF Stops
<1>9. k <= L
  <2>1. L \in 0..L + 1
    BY <1>1
  <2>2. bytes - g[L] <= MaxBytes
    BY <1>3, <1>7a
  <2>3. Fanout!Fits(grown, bytes, L)
    BY <1>7, <2>1, <2>2 DEF Fanout!Fits
  <2> QED BY <1>1, <1>8, <2>3
<1>10. n > MaxBytes => k = L
  <2>1. ASSUME n > MaxBytes, k # L PROVE FALSE
    <3>1. k \in 0..L + 1 /\ k < L /\ k # L + 1
      BY <1>1, <1>8, <1>9, <2>1
    <3>2. bytes - g[k] <= MaxBytes
      BY <1>4, <1>7, <1>8, <3>1 DEF Fanout!Fits
    <3>3. CASE k = 0
      <4>1. 1 \in 1..L
        BY <1>1, <3>1
      <4>2. r[1].from < e /\ L # 0
        BY <1>1, <1>4a, <3>1
      <4>3. Fanout!Size(d) = MaxBytes /\ g[k] = 0 /\ e \in Nat /\ MaxBytes \in Nat
        BY <1>1, <1>3, <1>4b, <2>1, <3>3
      <4>4. bytes = e - r[1].from + MaxBytes /\ r[1].from \in Nat
        BY <1>4a, <4>2, <4>3
      <4>5. bytes <= MaxBytes
        BY <1>4a, <3>2, <4>3
      <4> QED BY <4>2, <4>3, <4>4, <4>5
    <3>4. CASE k # 0
      <4>1. k \in 1..L /\ k + 1 \in 1..L /\ L # 0 /\ 1 \in 1..L
        BY <1>1, <3>1, <3>4
      <4>2. r[k].to < e
        <5>1. r[k].to = r[k + 1].from /\ r[k + 1].from < r[k + 1].to /\ r[k + 1].to <= e
          BY <1>1, <1>2, <3>1, <4>1
        <5> QED BY <1>1, <4>1, <5>1
      <4>3. g[k] = r[k].to - r[1].from /\ r[k].to \in Nat
        BY <1>1, <1>4b, <4>1
      <4> QED BY <1>1, <1>3, <1>4a, <2>1, <3>2, <4>1, <4>2, <4>3
    <3> QED BY <3>3, <3>4
  <2> QED BY <2>1
<1>11. /\ kept \in Seq(Fanout!Chunks) /\ Len(kept) = L + 1 - k /\ Len(kept) >= 1
       /\ \A i \in 1..L + 1 - k : kept[i] = grown[k + i]
  <2>1. k \in 0..Len(grown)
    BY <1>1, <1>4, <1>8
  <2>2. IsRest(kept, grown, k, Fanout!Chunks)
    BY <1>4, <2>1, RestFacts
  <2> HIDE DEF kept
  <2>3. Len(grown) - k = L + 1 - k /\ L + 1 - k >= 1
    BY <1>1, <1>4, <1>8, <1>9
  <2> QED BY <2>2, <2>3 DEF IsRest
<1> HIDE DEF kept
<1>12. ASSUME NEW i \in 1..Len(kept)
       PROVE  kept[i].to <= e + n /\ (i < Len(kept) => kept[i].to = kept[i + 1].from)
  <2>1. i \in 1..L + 1 - k /\ kept[i] = grown[k + i]
    BY <1>11
  <2>2. CASE k + i < L
    <3>1. k + i \in 1..L /\ k + i + 1 \in 1..L /\ i + 1 \in 1..L + 1 - k
      BY <1>1, <1>8, <1>9, <2>1, <2>2
    <3>2. kept[i] = r[k + i] /\ kept[i + 1] = r[k + i + 1]
      BY <1>1, <1>4, <1>8, <1>11, <2>1, <3>1
    <3>3. r[k + i].to \in Nat /\ r[k + i].to <= e /\ r[k + i].to = r[k + i + 1].from
      BY <1>1, <1>2, <2>2, <3>1
    <3> QED BY <1>1, <3>2, <3>3
  <2>3. CASE k + i = L
    <3>1. L \in 1..L /\ i + 1 \in 1..L + 1 - k /\ k + (i + 1) = L + 1 /\ k # L
      BY <1>1, <1>8, <1>9, <2>1, <2>3
    <3>2. kept[i] = r[L] /\ kept[i + 1] = d
      BY <1>4, <1>11, <2>1, <2>3, <3>1
    <3> QED BY <1>1, <1>2, <1>3, <1>10, <3>1, <3>2
  <2>4. CASE k + i = L + 1
    BY <1>1, <1>3, <1>4, <1>8, <1>11, <2>1, <2>4
  <2> QED BY <1>1, <1>8, <1>9, <2>1, <2>2, <2>3, <2>4
<1>13. kept[Len(kept)].to = e + n
  <2>1. Len(kept) \in 1..L + 1 - k /\ k + Len(kept) = L + 1
    BY <1>1, <1>8, <1>9, <1>11
  <2> QED BY <1>4, <1>11, <2>1
<1>14. bytes - g[k] = (e + n) - kept[1].from
  <2>1. 1 \in 1..L + 1 - k /\ kept[1] = grown[k + 1] /\ k \in 0..L + 1
    BY <1>1, <1>8, <1>9, <1>11
  <2>2. CASE k = L
    <3>1. kept[1] = d
      BY <1>4, <2>1, <2>2
    <3> QED BY <1>1, <1>3, <1>7a, <2>2, <3>1
  <2>3. CASE k # L
    <3>1. k < L /\ ~(n > MaxBytes) /\ k + 1 \in 1..L /\ L # 0
      BY <1>1, <1>8, <1>9, <1>10, <2>3
    <3>2. kept[1] = r[k + 1] /\ bytes = e - r[1].from + n
      BY <1>3, <1>4, <1>4a, <2>1, <3>1
    <3>3. CASE k = 0
      <4>1. kept[1] = r[1] /\ g[k] = 0 /\ r[1].from \in Nat /\ e \in Nat
        BY <1>1, <1>4a, <1>4b, <3>1, <3>2, <3>3
      <4> QED BY <3>2, <4>1
    <3>4. CASE k # 0
      <4>1. k \in 1..L /\ r[k].to = r[k + 1].from
        <5>1. k \in 1..L
          BY <1>1, <1>8, <3>1, <3>4
        <5> QED BY <1>2, <3>1, <5>1
      <4>2. g[k] = r[k].to - r[1].from /\ r[k].to \in Nat
        BY <1>1, <1>4b, <4>1
      <4> QED BY <1>1, <1>4a, <3>1, <3>2, <4>1, <4>2
    <3> QED BY <3>3, <3>4
  <2> QED BY <2>2, <2>3
<1>15. kept # <<>>
  BY <1>11
<1>16. RingFits(kept, e + n, bytes - Fanout!Sums(grown)[k])
  <2>1. Fanout!Sums(grown)[k] = g[k] /\ e + n \in Nat
    BY <1>1, <1>7, <1>8
  <2>2. \A i \in 1..Len(kept) :
          kept[i].to <= e + n /\ (i < Len(kept) => kept[i].to = kept[i + 1].from)
    BY <1>12
  <2>3. bytes - Fanout!Sums(grown)[k] = (e + n) - kept[1].from
    BY <1>14, <2>1
  <2>4. kept \in Seq(Fanout!Chunks)
    BY <1>11
  <2> QED BY <1>13, <1>15, <2>1, <2>2, <2>3, <2>4, RingIs
<1> QED BY <1>16 DEF kept, grown, bytes, k, Trimmed

\* Sending the first of what is left leaves the whole as it is.
LEMMA ShiftFacts ==
  ASSUME NEW S, NEW g \in Seq(S), NEW r \in Seq(S), r # <<>>
  PROVE  Append(g, Head(r)) \o Tail(r) = g \o r /\ Head(r) \in S /\ Tail(r) \in Seq(S)
<1>1. /\ Head(r) \in S /\ Tail(r) \in Seq(S) /\ Len(Tail(r)) = Len(r) - 1
      /\ \A i \in 1..Len(Tail(r)) : Tail(r)[i] = r[i + 1]
      /\ Head(r) = r[1] /\ Len(r) \in Nat /\ Len(r) # 0
  BY HeadTailProperties
<1> DEFINE h == Append(g, Head(r))
           t == Tail(r)
<1>2. /\ h \in Seq(S) /\ Len(h) = Len(g) + 1 /\ h[Len(g) + 1] = r[1]
      /\ \A i \in 1..Len(g) : h[i] = g[i]
  BY <1>1, AppendProperties
<1>3. /\ t \in Seq(S) /\ Len(t) = Len(r) - 1 /\ Len(r) \in Nat /\ Len(r) # 0
      /\ \A i \in 1..Len(t) : t[i] = r[i + 1]
  BY <1>1
<1> HIDE DEF h, t
<1>4. h \o t = g \o r
  <2>1. h \o t \in Seq(S) /\ g \o r \in Seq(S) /\ Len(h \o t) = Len(g \o r)
    <3>1. h \o t \in Seq(S) /\ Len(h \o t) = Len(h) + Len(t)
      BY <1>2, <1>3, ConcatProperties
    <3>2. g \o r \in Seq(S) /\ Len(g \o r) = Len(g) + Len(r) /\ Len(g) \in Nat
      BY ConcatProperties
    <3> QED BY <1>2, <1>3, <3>1, <3>2
  <2>2. ASSUME NEW i \in 1..Len(h \o t) PROVE (h \o t)[i] = (g \o r)[i]
    <3>1. Len(g) \in Nat /\ i \in 1..Len(g) + Len(r) /\ i \in 1..Len(h) + Len(t)
      BY <1>2, <1>3, <2>1
    <3>2. (g \o r)[i] = IF i <= Len(g) THEN g[i] ELSE r[i - Len(g)]
      BY <3>1, ConcatProperties
    <3>3. (h \o t)[i] = IF i <= Len(h) THEN h[i] ELSE t[i - Len(h)]
      BY <1>2, <1>3, <3>1, ConcatProperties
    <3>4. i > Len(h) => t[i - Len(h)] = r[i - Len(g)]
      <4>1. SUFFICES ASSUME i > Len(h) PROVE t[i - Len(h)] = r[i - Len(g)]
        OBVIOUS
      <4>2. i - Len(h) \in 1..Len(t) /\ (i - Len(h)) + 1 = i - Len(g)
        BY <1>2, <1>3, <3>1, <4>1
      <4> QED BY <1>3, <4>2
    <3> QED BY <1>2, <3>1, <3>2, <3>3, <3>4
  <2> QED BY <2>1, <2>2, SeqEqual
<1> QED BY <1>1, <1>4 DEF h, t

\* Adjoining chunks and one that follows them adjoin.
LEMMA AdjoiningFacts ==
  ASSUME NEW s \in Seq(Fanout!Chunks), NEW c \in Fanout!Chunks, Fanout!Adjoining(s),
         s # <<>> => s[Len(s)].to = c.from
  PROVE  /\ Fanout!Adjoining(Append(s, c)) /\ Append(s, c) \in Seq(Fanout!Chunks)
         /\ Append(s, c)[Len(Append(s, c))] = c
<1> DEFINE a == Append(s, c)
<1>1. /\ a \in Seq(Fanout!Chunks) /\ Len(a) = Len(s) + 1 /\ a[Len(s) + 1] = c
      /\ Len(s) \in Nat /\ \A i \in 1..Len(s) : a[i] = s[i]
  BY AppendProperties
<1> HIDE DEF a
<1>2. ASSUME NEW i \in 1..Len(a) - 1 PROVE a[i].to = a[i + 1].from
  <2>1. CASE i = Len(s)
    <3>1. s # <<>>
      BY <1>1, <2>1
    <3> QED BY <1>1, <2>1, <3>1
  <2>2. CASE i # Len(s)
    <3>1. i \in 1..Len(s) - 1 /\ i \in 1..Len(s) /\ i + 1 \in 1..Len(s)
      BY <1>1, <2>2
    <3> QED BY <1>1, <3>1 DEF Fanout!Adjoining
  <2> QED BY <2>1, <2>2
<1>3. Fanout!Adjoining(a)
  BY <1>2 DEF Fanout!Adjoining
<1> QED BY <1>1, <1>3 DEF a


\* The queue of an attachment: chunks, and at its end the close item, if it has one.
QueueFits(q, open) ==
  \E s \in Seq(Fanout!Chunks) : q = s \/ (~open /\ q = Append(s, Fanout!ClosedItem))

LEMMA QueueIs ==
  ASSUME NEW s \in Seq(Fanout!Chunks), NEW open
  PROVE  /\ QueueFits(s, open)
         /\ ~open => QueueFits(Append(s, Fanout!ClosedItem), open)
BY DEF QueueFits

LEMMA ItemFacts ==
  /\ \A c \in Fanout!Chunks : ~Fanout!IsClosed(c)
  /\ Fanout!IsClosed(Fanout!ClosedItem)
<1>1. ASSUME NEW c \in Fanout!Chunks PROVE ~Fanout!IsClosed(c)
  <2>1. c \in [from : 0..Output, to : 0..Output]
    BY DEF Fanout!Chunks
  <2>2. DOMAIN c = {"from", "to"}
    BY <2>1
  <2> QED BY <2>2 DEF Fanout!IsClosed
<1>2. DOMAIN Fanout!ClosedItem = {"closed"}
  BY DEF Fanout!ClosedItem
<1> QED BY <1>1, <1>2 DEF Fanout!IsClosed

LEMMA LiveFacts ==
  ASSUME NEW s \in Seq(Fanout!Chunks)
  PROVE  Fanout!Live(s) = s /\ Fanout!Live(Append(s, Fanout!ClosedItem)) = s
<1>1. Fanout!Live(s) = s
  <2>1. s # <<>> => s[Len(s)] \in Fanout!Chunks
    OBVIOUS
  <2> QED BY <2>1, ItemFacts DEF Fanout!Live, Fanout!Last
<1>2. Fanout!Live(Append(s, Fanout!ClosedItem)) = s
  <2> DEFINE S == Fanout!Chunks \cup {Fanout!ClosedItem}
             q == Append(s, Fanout!ClosedItem)
             f == SubSeq(q, 1, Len(q) - 1)
  <2>0. s \in Seq(S) /\ Fanout!ClosedItem \in S
    OBVIOUS
  <2> HIDE DEF S
  <2>1. /\ q \in Seq(S) /\ q # <<>> /\ Len(q) = Len(s) + 1 /\ Len(s) \in Nat
        /\ q[Len(s) + 1] = Fanout!ClosedItem
        /\ \A i \in 1..Len(s) : q[i] = s[i]
    BY <2>0, AppendProperties
  <2> HIDE DEF q
  <2>2. f \in Seq(S) /\ Len(f) = Len(s) /\ \A i \in 1..Len(s) : f[i] = q[i]
    BY <2>1
  <2> HIDE DEF f
  <2>3. f = s
    BY <2>0, <2>1, <2>2, SeqEqual
  <2>4. Fanout!IsClosed(Fanout!Last(q))
    BY <2>1, ItemFacts DEF Fanout!Last
  <2>5. Fanout!Live(q) = f
    BY <2>1, <2>4 DEF Fanout!Live, Fanout!Front, f
  <2> QED BY <2>3, <2>5 DEF q
<1> QED BY <1>1, <1>2

\* What a viewer is sent: in one piece, and to the end of the output while it is
\* attached.
SentTo(g, r, q) == g \o r \o Fanout!Live(q)

Whole(s, open, e) ==
  /\ s \in Seq(Fanout!Chunks) /\ Fanout!Adjoining(s)
  /\ open /\ s # <<>> => s[Len(s)].to = e

ViewerFits(g, r, q, s, open, e) ==
  /\ g \in Seq(Fanout!Chunks) /\ r \in Seq(Fanout!Chunks) /\ QueueFits(q, open)
  /\ s = "away" => ~open /\ g = <<>> /\ r = <<>> /\ q = <<>>
  /\ s = "live" => r = <<>>
  /\ Whole(SentTo(g, r, q), open, e)

\* The four ways in which what an attachment is sent comes to change.
LEMMA EmittedFits ==
  ASSUME NEW g, NEW r, NEW q, NEW s, NEW open, NEW e, ViewerFits(g, r, q, s, open, e), open,
         NEW c \in Fanout!Chunks, c.from = e
  PROVE  ViewerFits(g, r, Append(q, c), s, open, c.to)
<1>1. /\ g \in Seq(Fanout!Chunks) /\ r \in Seq(Fanout!Chunks) /\ s # "away"
      /\ q \in Seq(Fanout!Chunks) /\ (s = "live" => r = <<>>)
      /\ Whole(SentTo(g, r, q), open, e)
  BY DEF ViewerFits, QueueFits
<1>2. Append(q, c) \in Seq(Fanout!Chunks) /\ QueueFits(Append(q, c), open)
  <2>1. Append(q, c) \in Seq(Fanout!Chunks)
    BY <1>1, AppendProperties
  <2> QED BY <2>1, QueueIs
<1> DEFINE a == g \o r
<1>3. a \in Seq(Fanout!Chunks)
  BY <1>1, ConcatProperties
<1>4. SentTo(g, r, q) = a \o q /\ SentTo(g, r, Append(q, c)) = a \o Append(q, c)
  BY <1>1, <1>2, LiveFacts DEF SentTo
<1> HIDE DEF a
<1>5. a \o Append(q, c) = Append(a \o q, c)
  <2>1. /\ <<c>> \in Seq(Fanout!Chunks) /\ Append(q, c) = q \o <<c>>
        /\ a \o q \in Seq(Fanout!Chunks)
    BY <1>1, <1>3, AppendIsConcat, ConcatProperties
  <2>2. a \o (q \o <<c>>) = (a \o q) \o <<c>>
    BY <1>1, <1>3, <2>1, ConcatAssociative
  <2>3. Append(a \o q, c) = (a \o q) \o <<c>>
    BY <2>1, AppendIsConcat
  <2> QED BY <2>1, <2>2, <2>3
<1> DEFINE x == a \o q
<1>6. Whole(x, open, e)
  BY <1>1, <1>4
<1> HIDE DEF x
<1>7. Whole(Append(x, c), open, c.to)
  BY <1>6, AdjoiningFacts DEF Whole
<1>8. SentTo(g, r, Append(q, c)) = Append(x, c)
  BY <1>4, <1>5 DEF x
<1> QED BY <1>1, <1>2, <1>7, <1>8 DEF ViewerFits

LEMMA ClosedFits ==
  ASSUME NEW g, NEW r, NEW q, NEW s, NEW open, NEW e, ViewerFits(g, r, q, s, open, e), open,
         NEW last, NEW t \in {q, Append(q, Fanout!ClosedItem)}, NEW now, ~now
  PROVE  ViewerFits(g, r, t, s, now, last)
<1>1. /\ q \in Seq(Fanout!Chunks) /\ s # "away"
  BY DEF ViewerFits, QueueFits
<1>2. QueueFits(t, now) /\ Fanout!Live(t) = Fanout!Live(q)
  <2>1. CASE t = q
    BY <1>1, <2>1, QueueIs
  <2>2. CASE t = Append(q, Fanout!ClosedItem)
    BY <1>1, <2>2, LiveFacts, QueueIs
  <2> QED BY <2>1, <2>2
<1>3. SentTo(g, r, t) = SentTo(g, r, q)
  BY <1>2 DEF SentTo
<1> QED BY <1>1, <1>2, <1>3 DEF ViewerFits, Whole

\* A viewer that is not attached any more, or is refused, keeps what it has.
LEMMA LeftFits ==
  ASSUME NEW g, NEW r, NEW q, NEW s, NEW open, NEW e, ViewerFits(g, r, q, s, open, e),
         NEW last, NEW t, NEW now, now => open, now => last = e, s = "away" => t = "away",
         t = "away" => s = "away", t = "live" => s = "live" \/ r = <<>>
  PROVE  ViewerFits(g, r, q, t, now, last)
BY DEF ViewerFits, Whole, QueueFits

LEMMA AttachedFits ==
  ASSUME NEW g, NEW r, NEW q, NEW s, NEW open, NEW e, ViewerFits(g, r, q, s, open, e),
         s = "away", NEW t, NEW now, Whole(t, TRUE, e)
  PROVE  ViewerFits(g, t, q, "replaying", now, e)
<1>1. g = <<>> /\ q = <<>> /\ t \in Seq(Fanout!Chunks) /\ <<>> \in Seq(Fanout!Chunks)
  BY DEF ViewerFits, Whole
<1>2. Fanout!Live(q) = <<>>
  BY <1>1, LiveFacts
<1>3. SentTo(g, t, q) = t
  BY <1>1, <1>2, ConcatEmptySeq DEF SentTo
<1>4. QueueFits(q, now)
  BY <1>1, QueueIs
<1>5. Whole(t, now, e)
  BY DEF Whole
<1> QED BY <1>1, <1>3, <1>4, <1>5 DEF ViewerFits

LEMMA ReplayedFits ==
  ASSUME NEW g, NEW r, NEW q, NEW s, NEW open, NEW e, ViewerFits(g, r, q, s, open, e),
         r # <<>>
  PROVE  ViewerFits(Append(g, Head(r)), Tail(r), q, s, open, e)
<1>1. /\ g \in Seq(Fanout!Chunks) /\ r \in Seq(Fanout!Chunks) /\ s # "away" /\ s # "live"
      /\ QueueFits(q, open) /\ Whole(SentTo(g, r, q), open, e)
  BY DEF ViewerFits
<1>2. /\ Append(g, Head(r)) \o Tail(r) = g \o r
      /\ Head(r) \in Fanout!Chunks /\ Tail(r) \in Seq(Fanout!Chunks)
  BY <1>1, ShiftFacts
<1>3. SentTo(Append(g, Head(r)), Tail(r), q) = SentTo(g, r, q)
  BY <1>2 DEF SentTo
<1>4. Append(g, Head(r)) \in Seq(Fanout!Chunks)
  BY <1>1, <1>2, AppendProperties
<1> QED BY <1>1, <1>2, <1>3, <1>4 DEF ViewerFits

LEMMA DeliveredFits ==
  ASSUME NEW g, NEW r, NEW q, NEW open, NEW e, ViewerFits(g, r, q, "live", open, e),
         q # <<>>
  PROVE  /\ Fanout!IsClosed(Head(q)) => ViewerFits(g, r, Tail(q), "told", open, e)
         /\ ~Fanout!IsClosed(Head(q)) =>
              ViewerFits(Append(g, Head(q)), r, Tail(q), "live", open, e)
<1>1. /\ g \in Seq(Fanout!Chunks) /\ r = <<>> /\ r \in Seq(Fanout!Chunks)
      /\ QueueFits(q, open) /\ Whole(SentTo(g, r, q), open, e)
  BY DEF ViewerFits
<1>2. PICK s \in Seq(Fanout!Chunks) : q = s \/ (~open /\ q = Append(s, Fanout!ClosedItem))
  BY <1>1 DEF QueueFits
<1>3. Fanout!Live(q) = s
  BY <1>2, LiveFacts
<1>4. \A x \in Seq(Fanout!Chunks) : SentTo(x, r, q) = x \o s
  BY <1>1, <1>3, ConcatEmptySeq DEF SentTo
<1>5. CASE s # <<>>
  <2>1. /\ Head(s) \in Fanout!Chunks /\ Tail(s) \in Seq(Fanout!Chunks)
        /\ Append(g, Head(s)) \o Tail(s) = g \o s
    BY <1>1, <1>2, <1>5, ShiftFacts
  <2>2. /\ Head(q) = Head(s)
        /\ Tail(q) = Tail(s) \/ (~open /\ Tail(q) = Append(Tail(s), Fanout!ClosedItem))
    BY <1>2, <1>5, HeadTailAppend
  <2>3. ~Fanout!IsClosed(Head(q))
    BY <2>1, <2>2, ItemFacts
  <2>4. QueueFits(Tail(q), open) /\ Fanout!Live(Tail(q)) = Tail(s)
    BY <2>1, <2>2, LiveFacts DEF QueueFits
  <2>5. Append(g, Head(q)) \in Seq(Fanout!Chunks)
    BY <1>1, <2>1, <2>2, AppendProperties
  <2>6. SentTo(Append(g, Head(q)), r, Tail(q)) = SentTo(g, r, q)
    <3>1. SentTo(Append(g, Head(q)), r, Tail(q)) = Append(g, Head(q)) \o Tail(s)
      BY <1>1, <2>4, <2>5, ConcatEmptySeq DEF SentTo
    <3> QED BY <1>1, <1>4, <2>1, <2>2, <3>1
  <2>7. ViewerFits(Append(g, Head(q)), r, Tail(q), "live", open, e)
    BY <1>1, <2>4, <2>5, <2>6 DEF ViewerFits
  <2> QED BY <2>3, <2>7
<1>6. CASE s = <<>>
  <2>1. ~open /\ Head(q) = Fanout!ClosedItem /\ Tail(q) = <<>>
    BY <1>2, <1>6, HeadTailAppend
  <2>2. <<>> \in Seq(Fanout!Chunks)
    OBVIOUS
  <2>3. QueueFits(Tail(q), open) /\ Fanout!Live(Tail(q)) = s
    BY <1>6, <2>1, <2>2, LiveFacts, QueueIs
  <2>4. SentTo(g, r, Tail(q)) = SentTo(g, r, q)
    BY <1>3, <2>3 DEF SentTo
  <2> QED BY <1>1, <2>1, <2>3, <2>4, ItemFacts DEF ViewerFits
<1> QED BY <1>5, <1>6

\* One value for each viewer.
IsOn(f) == f = [v \in Viewers |-> f[v]]

\* What is said of one attachment, open or not.
ViewerOK(v) ==
  /\ v \in attached => ViewerFits(got[v], replay[v], outbox[v], socket[v], TRUE, emitted)
  /\ v \notin attached => ViewerFits(got[v], replay[v], outbox[v], socket[v], FALSE, emitted)

ScrollbackOK ==
  /\ emitted \in 0..Output
  /\ RingFits(ring, emitted, total)
  /\ MaxBytes = 0 => ring = <<>>

\* The inductive invariant: the scrollback fits, and so does what each viewer is sent.
FanoutInv ==
  /\ ScrollbackOK
  /\ attached \subseteq Viewers
  /\ IsOn(got) /\ IsOn(replay) /\ IsOn(outbox) /\ IsOn(socket)
  /\ \A v \in Viewers : ViewerOK(v)

ChangedAt(g, f, v, x) ==
  /\ IsOn(g) /\ g[v] = x
  /\ \A w \in Viewers : w # v => g[w] = f[w]

LEMMA ExceptFacts ==
  ASSUME NEW f, IsOn(f), NEW v \in Viewers, NEW x
  PROVE  ChangedAt([f EXCEPT ![v] = x], f, v, x)
<1> DEFINE h == [w \in Viewers |-> f[w]]
<1>1. f = h
  BY DEF IsOn
<1>2. [h EXCEPT ![v] = x] = [w \in Viewers |-> IF w = v THEN x ELSE f[w]]
  OBVIOUS
<1> DEFINE g == [w \in Viewers |-> IF w = v THEN x ELSE f[w]]
<1>3. IsOn(g) /\ g[v] = x /\ \A w \in Viewers : w # v => g[w] = f[w]
  BY DEF IsOn
<1>4. [f EXCEPT ![v] = x] = g
  BY <1>1, <1>2
<1> HIDE DEF g, h
<1> QED BY <1>3, <1>4 DEF ChangedAt

LEMMA ScrollbackStep ==
  ASSUME ScrollbackOK, NEW n \in ReadSizes, emitted + n <= Output, emitted' = emitted + n,
         Fanout!AppendToRing([from |-> emitted, to |-> emitted + n])
  PROVE  ScrollbackOK'
<1> DEFINE c == [from |-> emitted, to |-> emitted + n]
           d == Fanout!Stored(c)
           grown == Append(ring, d)
           bytes == total + Fanout!Counted(c)
           k == Fanout!Overflow(grown, bytes)
<1>0. /\ emitted \in Nat /\ n \in Nat \ {0} /\ emitted' \in 0..Output
      /\ RingFits(ring, emitted, total)
  BY OutputAssumption DEF ScrollbackOK
<1>1. CASE MaxBytes = 0
  <2>1. ring = <<>> /\ ring' = ring /\ total' = total
    BY <1>1 DEF Fanout!AppendToRing, ScrollbackOK
  <2>2. ring' = <<>> /\ total' = 0
    BY <1>0, <2>1 DEF RingFits
  <2>3. RingFits(<<>>, emitted', 0)
    BY <1>0 DEF RingFits
  <2> QED BY <1>0, <2>2, <2>3 DEF ScrollbackOK
<1>2. CASE MaxBytes # 0
  <2>1. /\ d \in Fanout!Chunks /\ d.to = emitted + n
        /\ d.from = IF n > MaxBytes THEN emitted + n - MaxBytes ELSE emitted
        /\ Fanout!Counted(c) = Fanout!Size(d)
    <3>1. c = [from |-> emitted, to |-> emitted + n]
      OBVIOUS
    <3> HIDE DEF c
    <3> QED BY <1>0, <1>2, <3>1, StoredFacts
  <2>2. /\ ring' = SubSeq(grown, k + 1, Len(grown))
        /\ total' = bytes - Fanout!Sums(grown)[k]
    BY <1>2 DEF Fanout!AppendToRing
  <2> HIDE DEF d
  <2>3. Trimmed(Append(ring, d), total + Fanout!Size(d), emitted + n)
    BY <1>0, <1>2, <2>1, TrimFacts
  <2>4. Trimmed(grown, bytes, emitted')
    BY <2>1, <2>3
  <2> HIDE DEF c, grown, bytes
  <2>5. RingFits(ring', emitted', total')
    BY <2>2, <2>4 DEF Trimmed
  <2> QED BY <1>0, <1>2, <2>5 DEF ScrollbackOK
<1> QED BY <1>1, <1>2

LEMMA EmitStep ==
  ASSUME FanoutInv, NEW n \in ReadSizes, Fanout!Emit(n)
  PROVE  FanoutInv'
<1> DEFINE c == [from |-> emitted, to |-> emitted + n]
           slow == {v \in attached : Fanout!Full(v)}
<1>1. /\ emitted + n <= Output /\ emitted' = emitted + n
      /\ Fanout!AppendToRing(c)
      /\ outbox' = [v \in Viewers |->
                      IF v \in slow THEN Fanout!WithItem(outbox[v], Fanout!ClosedItem)
                      ELSE IF v \in attached THEN Append(outbox[v], c) ELSE outbox[v]]
      /\ attached' = attached \ slow
      /\ replay' = replay /\ got' = got /\ socket' = socket
  BY DEF Fanout!Emit
<1>2. ScrollbackOK'
  BY <1>1, ScrollbackStep DEF FanoutInv
<1>3. c \in Fanout!Chunks /\ c.from = emitted /\ c.to = emitted'
  BY <1>1, OutputAssumption DEF FanoutInv, ScrollbackOK, Fanout!Chunks
<1>4. slow \subseteq attached
  OBVIOUS
<1> HIDE DEF c, slow
<1>5. ASSUME NEW v \in Viewers PROVE ViewerOK(v)'
  <2>0. ViewerOK(v)
    BY DEF FanoutInv
  <2>1. CASE v \in slow
    <3>1. v \in attached /\ v \notin attached'
      BY <1>1, <1>4, <2>1
    <3>2. outbox'[v] \in {outbox[v], Append(outbox[v], Fanout!ClosedItem)}
      BY <1>1, <2>1 DEF Fanout!WithItem
    <3>3. ViewerFits(got[v], replay[v], outbox[v], socket[v], TRUE, emitted)
      BY <2>0, <3>1 DEF ViewerOK
    <3>4. ViewerFits(got[v], replay[v], outbox'[v], socket[v], FALSE, emitted')
      BY <3>2, <3>3, ClosedFits
    <3> QED BY <1>1, <3>1, <3>4 DEF ViewerOK
  <2>2. CASE v \notin slow /\ v \in attached
    <3>1. v \in attached' /\ outbox'[v] = Append(outbox[v], c)
      BY <1>1, <2>2
    <3>2. ViewerFits(got[v], replay[v], outbox[v], socket[v], TRUE, emitted)
      BY <2>0, <2>2 DEF ViewerOK
    <3>3. ViewerFits(got[v], replay[v], Append(outbox[v], c), socket[v], TRUE, c.to)
      BY <1>3, <3>2, EmittedFits
    <3> QED BY <1>1, <1>3, <3>1, <3>3 DEF ViewerOK
  <2>3. CASE v \notin attached
    <3>1. v \notin attached' /\ outbox'[v] = outbox[v]
      BY <1>1, <1>4, <2>3
    <3>2. ViewerFits(got[v], replay[v], outbox[v], socket[v], FALSE, emitted)
      BY <2>0, <2>3 DEF ViewerOK
    <3>3. ViewerFits(got[v], replay[v], outbox[v], socket[v], FALSE, emitted')
      BY <3>2, LeftFits
    <3> QED BY <1>1, <3>1, <3>3 DEF ViewerOK
  <2> QED BY <2>1, <2>2, <2>3
<1>6. IsOn(outbox')
  BY <1>1 DEF IsOn
<1> QED BY <1>1, <1>2, <1>5, <1>6 DEF FanoutInv, IsOn

\* A step that touches one attachment only.
LEMMA OthersStay ==
  ASSUME FanoutInv, NEW v \in Viewers, ViewerOK(v)', UNCHANGED <<emitted, ring, total>>,
         IsOn(got') /\ IsOn(replay') /\ IsOn(outbox') /\ IsOn(socket'),
         attached' \subseteq Viewers,
         \A w \in Viewers : w # v => /\ w \in attached' <=> w \in attached
                                     /\ got'[w] = got[w] /\ replay'[w] = replay[w]
                                     /\ outbox'[w] = outbox[w] /\ socket'[w] = socket[w]
  PROVE  FanoutInv'
<1>1. ASSUME NEW w \in Viewers PROVE ViewerOK(w)'
  <2>1. CASE w = v
    BY <2>1
  <2>2. CASE w # v
    <3>1. ViewerOK(w)
      BY DEF FanoutInv
    <3>2. /\ w \in attached' <=> w \in attached
          /\ got'[w] = got[w] /\ replay'[w] = replay[w]
          /\ outbox'[w] = outbox[w] /\ socket'[w] = socket[w] /\ emitted' = emitted
      BY <2>2
    <3> QED BY <3>1, <3>2 DEF ViewerOK
  <2> QED BY <2>1, <2>2
<1>2. ScrollbackOK'
  BY DEF FanoutInv, ScrollbackOK
<1> QED BY <1>1, <1>2 DEF FanoutInv, IsOn

LEMMA ViewerStep ==
  ASSUME FanoutInv, NEW v \in Viewers,
         \/ Fanout!Attach(v) \/ Fanout!Replay(v) \/ Fanout!Deliver(v)
         \/ Fanout!Refuse(v) \/ Fanout!Leave(v)
  PROVE  FanoutInv'
<1>0. /\ ViewerOK(v) /\ attached \subseteq Viewers
      /\ IsOn(got) /\ IsOn(replay) /\ IsOn(outbox) /\ IsOn(socket)
      /\ RingFits(ring, emitted, total)
  BY DEF FanoutInv, ScrollbackOK
<1>1. CASE Fanout!Attach(v)
  <2>1. /\ socket[v] = "away" /\ attached' = attached \cup {v}
        /\ replay' = [replay EXCEPT ![v] = ring]
        /\ socket' = [socket EXCEPT ![v] = "replaying"]
        /\ UNCHANGED <<emitted, ring, total, outbox, got>>
    BY <1>1 DEF Fanout!Attach
  <2>2. ChangedAt(replay', replay, v, ring) /\ ChangedAt(socket', socket, v, "replaying")
    BY <1>0, <2>1, ExceptFacts
  <2>3. Whole(ring, TRUE, emitted)
    BY <1>0 DEF RingFits, Whole, Fanout!Adjoining
  <2>4. ASSUME NEW open, ViewerFits(got[v], replay[v], outbox[v], socket[v], open, emitted)
        PROVE  ViewerFits(got[v], ring, outbox[v], "replaying", TRUE, emitted)
    BY <2>1, <2>3, <2>4, AttachedFits
  <2>5. ViewerFits(got[v], ring, outbox[v], "replaying", TRUE, emitted)
    BY <1>0, <2>4 DEF ViewerOK
  <2>6. ViewerOK(v)'
    BY <2>1, <2>2, <2>5 DEF ViewerOK, ChangedAt
  <2> QED BY <1>0, <2>1, <2>2, <2>6, OthersStay DEF ChangedAt
<1>2. CASE Fanout!Replay(v) /\ replay[v] = <<>>
  <2>1. /\ socket[v] = "replaying" /\ socket' = [socket EXCEPT ![v] = "live"]
        /\ UNCHANGED <<emitted, ring, total, attached, outbox, got, replay>>
    BY <1>2 DEF Fanout!Replay
  <2>2. ChangedAt(socket', socket, v, "live")
    BY <1>0, <2>1, ExceptFacts
  <2>3. \A open \in BOOLEAN :
          ViewerFits(got[v], replay[v], outbox[v], socket[v], open, emitted) =>
            ViewerFits(got[v], replay[v], outbox[v], "live", open, emitted)
    BY <1>2, <2>1, LeftFits
  <2>4. ViewerOK(v)'
    BY <1>0, <2>1, <2>2, <2>3 DEF ViewerOK, ChangedAt
  <2> QED BY <1>0, <2>1, <2>2, <2>4, OthersStay DEF ChangedAt
<1>3. CASE Fanout!Replay(v) /\ replay[v] # <<>>
  <2>1. /\ replay' = [replay EXCEPT ![v] = Tail(@)]
        /\ got' = [got EXCEPT ![v] = Append(@, Head(replay[v]))]
        /\ UNCHANGED <<emitted, ring, total, attached, outbox, socket>>
    BY <1>3 DEF Fanout!Replay
  <2>2. /\ ChangedAt(replay', replay, v, Tail(replay[v]))
        /\ ChangedAt(got', got, v, Append(got[v], Head(replay[v])))
    BY <1>0, <2>1, ExceptFacts
  <2>3. \A open \in BOOLEAN :
          ViewerFits(got[v], replay[v], outbox[v], socket[v], open, emitted) =>
            ViewerFits(got'[v], replay'[v], outbox[v], socket[v], open, emitted)
    BY <1>3, <2>2, ReplayedFits DEF ChangedAt
  <2>4. ViewerOK(v)'
    BY <1>0, <2>1, <2>3 DEF ViewerOK
  <2> QED BY <1>0, <2>1, <2>2, <2>4, OthersStay DEF ChangedAt
<1>4. CASE Fanout!Deliver(v) /\ Fanout!IsClosed(Head(outbox[v]))
  <2>1. /\ socket[v] = "live" /\ outbox[v] # <<>>
        /\ outbox' = [outbox EXCEPT ![v] = Tail(@)]
        /\ socket' = [socket EXCEPT ![v] = "told"]
        /\ UNCHANGED <<emitted, ring, total, attached, replay, got>>
    BY <1>4 DEF Fanout!Deliver
  <2>2. /\ ChangedAt(outbox', outbox, v, Tail(outbox[v]))
        /\ ChangedAt(socket', socket, v, "told")
    BY <1>0, <2>1, ExceptFacts
  <2>3. \A open \in BOOLEAN :
          ViewerFits(got[v], replay[v], outbox[v], socket[v], open, emitted) =>
            ViewerFits(got[v], replay[v], outbox'[v], socket'[v], open, emitted)
    BY <1>4, <2>1, <2>2, DeliveredFits DEF ChangedAt
  <2>4. ViewerOK(v)'
    BY <1>0, <2>1, <2>3 DEF ViewerOK
  <2> QED BY <1>0, <2>1, <2>2, <2>4, OthersStay DEF ChangedAt
<1>5. CASE Fanout!Deliver(v) /\ ~Fanout!IsClosed(Head(outbox[v]))
  <2>1. /\ socket[v] = "live" /\ outbox[v] # <<>>
        /\ outbox' = [outbox EXCEPT ![v] = Tail(@)]
        /\ got' = [got EXCEPT ![v] = Append(@, Head(outbox[v]))]
        /\ UNCHANGED <<emitted, ring, total, attached, replay, socket>>
    BY <1>5 DEF Fanout!Deliver
  <2>2. /\ ChangedAt(outbox', outbox, v, Tail(outbox[v]))
        /\ ChangedAt(got', got, v, Append(got[v], Head(outbox[v])))
    BY <1>0, <2>1, ExceptFacts
  <2>3. \A open \in BOOLEAN :
          ViewerFits(got[v], replay[v], outbox[v], socket[v], open, emitted) =>
            ViewerFits(got'[v], replay[v], outbox'[v], socket[v], open, emitted)
    BY <1>5, <2>1, <2>2, DeliveredFits DEF ChangedAt
  <2>4. ViewerOK(v)'
    BY <1>0, <2>1, <2>3 DEF ViewerOK
  <2> QED BY <1>0, <2>1, <2>2, <2>4, OthersStay DEF ChangedAt
<1>6. CASE Fanout!Refuse(v)
  <2>1. /\ socket[v] = "live" /\ socket' = [socket EXCEPT ![v] = "refused"]
        /\ UNCHANGED <<emitted, ring, total, attached, outbox, got, replay>>
    BY <1>6 DEF Fanout!Refuse
  <2>2. ChangedAt(socket', socket, v, "refused")
    BY <1>0, <2>1, ExceptFacts
  <2>3. \A open \in BOOLEAN :
          ViewerFits(got[v], replay[v], outbox[v], socket[v], open, emitted) =>
            ViewerFits(got[v], replay[v], outbox[v], "refused", open, emitted)
    BY <2>1, LeftFits
  <2>4. ViewerOK(v)'
    BY <1>0, <2>1, <2>2, <2>3 DEF ViewerOK, ChangedAt
  <2> QED BY <1>0, <2>1, <2>2, <2>4, OthersStay DEF ChangedAt
<1>7. CASE Fanout!Leave(v)
  <2>1. /\ socket[v] # "away" /\ socket' = [socket EXCEPT ![v] = "gone"]
        /\ attached' = attached \ {v}
        /\ UNCHANGED <<emitted, ring, total, outbox, got, replay>>
    BY <1>7 DEF Fanout!Leave
  <2>2. ChangedAt(socket', socket, v, "gone")
    BY <1>0, <2>1, ExceptFacts
  <2>3. \A open \in BOOLEAN :
          ViewerFits(got[v], replay[v], outbox[v], socket[v], open, emitted) =>
            ViewerFits(got[v], replay[v], outbox[v], "gone", FALSE, emitted)
    BY <2>1, LeftFits
  <2>4. ViewerOK(v)'
    BY <1>0, <2>1, <2>2, <2>3 DEF ViewerOK, ChangedAt
  <2> QED BY <1>0, <2>1, <2>2, <2>4, OthersStay DEF ChangedAt
<1> QED BY <1>1, <1>2, <1>3, <1>4, <1>5, <1>6, <1>7 DEF Fanout!Replay, Fanout!Deliver

LEMMA CloseAllStep ==
  ASSUME FanoutInv, Fanout!CloseAll
  PROVE  FanoutInv'
<1>1. /\ outbox' = [v \in Viewers |->
                      IF v \in attached THEN Fanout!WithItem(outbox[v], Fanout!ClosedItem)
                      ELSE outbox[v]]
      /\ attached' = {}
      /\ UNCHANGED <<emitted, ring, total, replay, got, socket>>
  BY DEF Fanout!CloseAll
<1>2. ASSUME NEW v \in Viewers PROVE ViewerOK(v)'
  <2>0. ViewerOK(v)
    BY DEF FanoutInv
  <2>1. CASE v \in attached
    <3>1. outbox'[v] \in {outbox[v], Append(outbox[v], Fanout!ClosedItem)}
      BY <1>1, <2>1 DEF Fanout!WithItem
    <3>2. ViewerFits(got[v], replay[v], outbox[v], socket[v], TRUE, emitted)
      BY <2>0, <2>1 DEF ViewerOK
    <3>3. ViewerFits(got[v], replay[v], outbox'[v], socket[v], FALSE, emitted)
      BY <3>1, <3>2, ClosedFits
    <3> QED BY <1>1, <3>3 DEF ViewerOK
  <2>2. CASE v \notin attached
    BY <1>1, <2>0, <2>2 DEF ViewerOK
  <2> QED BY <2>1, <2>2
<1>3. IsOn(outbox')
  BY <1>1 DEF IsOn
<1> QED BY <1>1, <1>2, <1>3 DEF FanoutInv, ScrollbackOK, IsOn

LEMMA FanoutInitHolds == Fanout!Init => FanoutInv
<1> SUFFICES ASSUME Fanout!Init PROVE FanoutInv
  OBVIOUS
<1>1. <<>> \in Seq(Fanout!Chunks) /\ Len(<<>>) = 0
  OBVIOUS
<1>2. ScrollbackOK
  BY <1>1, OutputAssumption DEF Fanout!Init, ScrollbackOK, RingFits
<1>3. SentTo(<<>>, <<>>, <<>>) = <<>>
  BY <1>1, LiveFacts, ConcatEmptySeq DEF SentTo
<1>4. ViewerFits(<<>>, <<>>, <<>>, "away", FALSE, 0)
  <2>1. Whole(<<>>, FALSE, 0)
    BY <1>1 DEF Whole, Fanout!Adjoining
  <2>2. QueueFits(<<>>, FALSE)
    BY <1>1, QueueIs
  <2> QED BY <1>1, <1>3, <2>1, <2>2 DEF ViewerFits
<1> QED BY <1>2, <1>4 DEF Fanout!Init, FanoutInv, IsOn, ViewerOK

LEMMA FanoutInductive == FanoutInv /\ [Fanout!Next]_(Fanout!vars) => FanoutInv'
<1> SUFFICES ASSUME FanoutInv, [Fanout!Next]_(Fanout!vars) PROVE FanoutInv'
  OBVIOUS
<1>1. CASE UNCHANGED Fanout!vars
  BY <1>1 DEF Fanout!vars, FanoutInv, ScrollbackOK, IsOn, ViewerOK
<1> QED BY <1>1, EmitStep, ViewerStep, CloseAllStep DEF Fanout!Next

LEMMA FanoutMeansGapless == FanoutInv => StreamIsGapless
<1> SUFFICES ASSUME FanoutInv, NEW v \in Viewers
             PROVE  /\ Fanout!Adjoining(Fanout!Stream(v))
                    /\ v \in attached /\ Fanout!Stream(v) # <<>> =>
                         Fanout!Last(Fanout!Stream(v)).to = emitted
  BY DEF StreamIsGapless, Fanout!StreamIsGapless
<1>1. Fanout!Stream(v) = SentTo(got[v], replay[v], outbox[v])
  BY DEF Fanout!Stream, SentTo
<1>2. Whole(Fanout!Stream(v), v \in attached, emitted)
  BY <1>1 DEF FanoutInv, ViewerOK, ViewerFits, Whole
<1> QED BY <1>2 DEF Whole, Fanout!Last

\* However fast the PTY writes, however much one read returns, whenever viewers
\* attach, fall behind, leave or are closed: nobody sees a gap or a repetition.
THEOREM FanoutTheorem == Fanout!Spec => []StreamIsGapless
<1>1. Fanout!Init => FanoutInv
  BY FanoutInitHolds
<1>2. FanoutInv /\ [Fanout!Next]_(Fanout!vars) => FanoutInv'
  BY FanoutInductive
<1> QED BY <1>1, <1>2, FanoutMeansGapless, PTL DEF Fanout!Spec

-----------------------------------------------------------------------------
(* Timeline: sessions, pages and children of any number.  What a page      *)
(* makes of its rows is what the timeline of the whole session makes of    *)
(* them, since it begins with the message its first durations lean on.     *)

Messages == Lines!OfKind(Lines!Rows, "turn")
Durations == Lines!OfKind(Lines!Rows, "duration")
Metas == Lines!OfKind(Lines!Rows, "meta")

\* The message of M an entry at s belongs to, and its number.
Nearest(M, s) == Lines!Highest({m \in M : m <= s})
NumberAt(M, s) == Cardinality({m \in M : m <= s})
BadgesOf(M, D, u, m) == {d \in D : d <= u /\ Nearest(M, d) = m}

MessageItem(M, D, u, m, refs) ==
  [id |-> <<"message", m>>, seq |-> m, turn |-> NumberAt(M, m), badges |-> BadgesOf(M, D, u, m), refs |-> refs]
PlainItem(M, id, s) == [id |-> id, seq |-> s, turn |-> NumberAt(M, s), badges |-> {}, refs |-> {}]
Spawned(m) == {c \in Children : fork[c] = m}
SpawnedIn(A) == {c \in Children : fork[c] \in A \cap Messages}

LinesTypes ==
  /\ row \in Seq(Lines!Kinds)
  /\ sent \in Int /\ -1 <= sent /\ sent < Len(row)
  /\ fork \in [Children -> Int]
  /\ \A c \in Children : fork[c] = -2 \/ fork[c] \in Messages
  /\ early \subseteq {c \in Children : fork[c] # -2}

\* A message is followed by one duration.
OneBadge == \A d, x \in Durations : d < x => d < Nearest(Messages, x)

HeldMessage(i, m) == \E refs \in SUBSET Spawned(m) : i = MessageItem(Messages, Durations, sent, m, refs)
HeldItem(i) ==
  \/ \E m \in Messages : m <= sent /\ HeldMessage(i, m)
  \/ \E s \in Metas : s <= sent /\ i = PlainItem(Messages, <<"meta", s>>, s)
  \/ \E c \in Children : fork[c] \in Messages /\ fork[c] <= sent /\ i = PlainItem(Messages, <<c, fork[c]>>, fork[c])
HeldRules == \A e \in view : e.revision \in Int /\ e.revision <= sent /\ HeldItem(e.item)

Holds(id, refs) == \E e \in view : e.item.id = id /\ refs \subseteq e.item.refs
Complete ==
  /\ \A m \in Messages : m <= sent => Holds(<<"message", m>>, Spawned(m) \cap early)
  /\ \A s \in Metas : s <= sent => Holds(<<"meta", s>>, {})
  /\ \A c \in early : fork[c] <= sent => Holds(<<c, fork[c]>>, {})

LinesInv == LinesTypes /\ OneBadge /\ HeldRules /\ Complete

-----------------------------------------------------------------------------
LEMMA LinesMax == ASSUME NEW S PROVE Lines!Max(S) = Max(S)
BY Zenon DEF Lines!Max, Max

LEMMA LinesCardinality == ASSUME NEW S PROVE Lines!Cardinality(S) = Cardinality(S)
BY DEF Lines!Cardinality, Cardinality

LEMMA MinFact ==
  ASSUME NEW S \in SUBSET Nat, S # {}
  PROVE  Lines!Min(S) \in S /\ \A s \in S : Lines!Min(S) <= s
<1>1. PICK k \in S : \A j \in S : ~(<<j, k>> \in OpToRel(<, Nat))
  BY WFMin, NatLessThanWellFounded
<1>2. \A j \in S : ~(j < k)
  BY <1>1 DEF OpToRel
<1>3. \A j \in S : k <= j
  <2>1. ASSUME NEW j \in S PROVE k <= j
    <3>1. j \in Nat /\ k \in Nat
      OBVIOUS
    <3> QED
      BY <1>2, <3>1
  <2> QED
    BY <2>1
<1> QED
  BY <1>3 DEF Lines!Min

NearestIs(M, s, n) ==
  \/ n = -1 /\ \A m \in M : s < m
  \/ n \in M /\ n <= s /\ \A m \in M : m <= s => m <= n

LEMMA NearestFact ==
  ASSUME NEW M \in SUBSET Nat, NEW s \in Int
  PROVE  NearestIs(M, s, Nearest(M, s))
<1> DEFINE S == {m \in M : m <= s}
<1>1. CASE S = {}
  <2>1. Nearest(M, s) = -1
    BY <1>1 DEF Nearest, Lines!Highest
  <2>2. \A m \in M : s < m
    BY <1>1
  <2> QED
    BY <2>1, <2>2 DEF NearestIs
<1>2. CASE S # {}
  <2>1. s + 1 \in Nat /\ \A m \in S : m < s + 1
    <3>1. PICK m \in S : TRUE
      BY <1>2
    <3>2. m \in Nat /\ m <= s
      OBVIOUS
    <3>3. ASSUME NEW x \in S PROVE x < s + 1
      <4>1. x \in Nat /\ x <= s
        OBVIOUS
      <4> QED
        BY <4>1
    <3> QED
      BY <3>2, <3>3
  <2>2. Max(S) \in S /\ \A m \in S : m <= Max(S)
    BY <1>2, <2>1, MaxFact
  <2>3. Nearest(M, s) = Max(S)
    BY <1>2, LinesMax, Zenon DEF Nearest, Lines!Highest
  <2> QED
    BY <2>2, <2>3 DEF NearestIs
<1> QED
  BY <1>1, <1>2

LEMMA NearestInt ==
  ASSUME NEW M \in SUBSET Nat, NEW s \in Int
  PROVE  Nearest(M, s) \in Int
<1> DEFINE k == Nearest(M, s)
<1>1. NearestIs(M, s, k)
  BY NearestFact
<1> HIDE DEF k
<1>2. k \in M => k \in Nat
  OBVIOUS
<1>3. k \in Int
  BY <1>1, <1>2 DEF NearestIs
<1> QED
  BY <1>3 DEF k

LEMMA NearestOnly ==
  ASSUME NEW M \in SUBSET Nat, NEW s \in Int, NEW n, NearestIs(M, s, n)
  PROVE  Nearest(M, s) = n
<1> DEFINE k == Nearest(M, s)
<1>1. NearestIs(M, s, k)
  BY NearestFact
<1> HIDE DEF k
<1>2. k = n
  <2>1. k \in M => k \in Nat
    OBVIOUS
  <2>2. CASE n = -1 /\ \A m \in M : s < m
    <3>1. k \in M /\ k <= s => FALSE
      BY <2>1, <2>2
    <3> QED
      BY <1>1, <2>2, <3>1 DEF NearestIs
  <2>3. CASE n \in M /\ n <= s /\ \A m \in M : m <= s => m <= n
    <3>1. n \in Nat
      BY <2>3
    <3>2. ~(\A m \in M : s < m)
      BY <2>3, <3>1
    <3>3. k \in M /\ k <= s /\ \A m \in M : m <= s => m <= k
      BY <1>1, <3>2 DEF NearestIs
    <3>4. k <= n /\ n <= k
      BY <2>3, <3>3
    <3> QED
      BY <2>1, <3>1, <3>3, <3>4
  <2> QED
    BY <2>2, <2>3 DEF NearestIs
<1> QED
  BY <1>2 DEF k

\* The messages before lo and those of a window from lo on are all.
LEMMA CountedApart ==
  ASSUME NEW M \in SUBSET Nat, NEW W \in SUBSET M, NEW lo \in Nat, NEW s \in Nat, lo <= s,
         \A m \in W : lo <= m, \A m \in M : lo <= m /\ m <= s => m \in W
  PROVE  Cardinality({m \in M : m < lo}) + NumberAt(W, s) = NumberAt(M, s)
<1> DEFINE A == {m \in M : m < lo}
           B == {m \in W : m <= s}
           C == {m \in M : m <= s}
<1>1. A \in SUBSET Nat /\ B \in SUBSET Nat /\ \A m \in A : m < lo
  OBVIOUS
<1>2. s + 1 \in Nat /\ \A m \in B : m < s + 1
  OBVIOUS
<1>3. IsFiniteSet(A) /\ IsFiniteSet(B)
  <2> HIDE DEF A, B
  <2> QED
    BY <1>1, <1>2, SeqsAreFinite
<1>4. A \cup B = C /\ A \cap B = {}
  <2>1. ASSUME NEW m \in C PROVE m \in A \/ m \in B
    <3>1. m \in Nat /\ m \in M /\ m <= s
      OBVIOUS
    <3> QED
      BY <3>1
  <2>2. ASSUME NEW m \in A PROVE m \in C /\ m \notin B
    <3>1. m \in Nat /\ m \in M /\ m < lo
      OBVIOUS
    <3> QED
      BY <3>1
  <2>3. B \subseteq C
    OBVIOUS
  <2> QED
    BY <2>1, <2>2, <2>3
<1>5. Cardinality(A \cup B) = Cardinality(A) + Cardinality(B) - Cardinality(A \cap B)
  BY <1>3, FS_Union
<1>6. Cardinality({}) = 0 /\ Cardinality(A) \in Nat /\ Cardinality(B) \in Nat
  BY <1>3, FS_EmptySet, FS_CardinalityType
<1>7. Cardinality(C) = Cardinality(A) + Cardinality(B)
  <2> HIDE DEF A, B, C
  <2>1. Cardinality(A \cap B) = 0
    BY <1>4, <1>6, Zenon
  <2>2. Cardinality(C) = Cardinality(A \cup B)
    BY <1>4, Zenon
  <2> QED
    BY <1>5, <1>6, <2>1, <2>2
<1> QED
  BY <1>6, <1>7 DEF NumberAt

-----------------------------------------------------------------------------
\* What the rows A are projected to, when each of its entries sees all it belongs to.
ItemsOf(A, u) ==
  {MessageItem(Messages, Durations, u, m, Spawned(m)) : m \in A \cap Messages}
    \cup {PlainItem(Messages, <<"meta", s>>, s) : s \in A \cap Metas}
    \cup {PlainItem(Messages, <<c, fork[c]>>, fork[c]) : c \in SpawnedIn(A)}

LEMMA OfKindIn ==
  ASSUME NEW A \in SUBSET Lines!Rows
  PROVE  /\ Lines!OfKind(A, "turn") = A \cap Messages
         /\ Lines!OfKind(A, "duration") = A \cap Durations
         /\ Lines!OfKind(A, "meta") = A \cap Metas
BY DEF Lines!OfKind, Messages, Durations, Metas

LEMMA MessageAtIn ==
  ASSUME NEW A \in SUBSET Lines!Rows, NEW s
  PROVE  Lines!MessageAt(A, s) = Nearest(A \cap Messages, s)
<1>1. Lines!OfKind(A, "turn") = A \cap Messages
  BY OfKindIn
<1> QED
  BY <1>1, Zenon DEF Lines!MessageAt, Nearest

LEMMA TurnIndexIn ==
  ASSUME NEW A \in SUBSET Lines!Rows, NEW s, NEW n
  PROVE  Lines!TurnIndex(A, s, n) = n + NumberAt(A \cap Messages, s)
<1>1. Lines!OfKind(A, "turn") = A \cap Messages
  BY OfKindIn
<1>2. Lines!Cardinality({m \in A \cap Messages : m <= s}) = Cardinality({m \in A \cap Messages : m <= s})
  BY LinesCardinality
<1> QED
  BY <1>1, <1>2, Zenon DEF Lines!TurnIndex, NumberAt

LEMMA ProjectIs ==
  ASSUME NEW A \in SUBSET Lines!Rows, NEW from, NEW n, NEW u,
         \A s \in A : Lines!TurnIndex(A, s, n) = NumberAt(Messages, s),
         \A m \in A \cap Messages : Lines!Badges(A, m) = BadgesOf(Messages, Durations, u, m),
         Lines!Visible(A, from) = SpawnedIn(A),
         \A m \in A \cap Messages : Lines!MessageAt(A, m) = m
  PROVE  Lines!Project(A, from, n) = ItemsOf(A, u)
<1>1. \A m \in A \cap Messages :
        Lines!Message(A, from, n, m) = MessageItem(Messages, Durations, u, m, Spawned(m))
  <2>1. ASSUME NEW m \in A \cap Messages
        PROVE  Lines!Message(A, from, n, m) = MessageItem(Messages, Durations, u, m, Spawned(m))
    <3>1. {c \in Lines!Visible(A, from) : Lines!MessageAt(A, fork[c]) = m} = Spawned(m)
      <4>1. ASSUME NEW c \in Lines!Visible(A, from), Lines!MessageAt(A, fork[c]) = m PROVE c \in Spawned(m)
        BY <4>1 DEF SpawnedIn, Spawned
      <4>2. ASSUME NEW c \in Spawned(m) PROVE c \in Lines!Visible(A, from) /\ Lines!MessageAt(A, fork[c]) = m
        BY <4>2 DEF SpawnedIn, Spawned
      <4> QED
        BY <4>1, <4>2
    <3>2. Lines!TurnIndex(A, m, n) = NumberAt(Messages, m) /\ Lines!Badges(A, m) = BadgesOf(Messages, Durations, u, m)
      OBVIOUS
    <3> QED
      BY <3>1, <3>2, Zenon DEF Lines!Message, MessageItem
  <2> QED
    BY <2>1
<1>2. ASSUME NEW id, NEW s \in A PROVE Lines!Plain(A, n, id, s) = PlainItem(Messages, id, s)
  <2>1. Lines!TurnIndex(A, s, n) = NumberAt(Messages, s)
    OBVIOUS
  <2> QED
    BY <2>1 DEF Lines!Plain, PlainItem
<1>3. \A c \in SpawnedIn(A) : fork[c] \in A
  BY DEF SpawnedIn
<1>4. Lines!OfKind(A, "turn") = A \cap Messages /\ Lines!OfKind(A, "meta") = A \cap Metas
  BY OfKindIn
<1>5. {Lines!Message(A, from, n, m) : m \in A \cap Messages} =
      {MessageItem(Messages, Durations, u, m, Spawned(m)) : m \in A \cap Messages}
  BY <1>1, Zenon
<1>6. {Lines!Plain(A, n, <<"meta", s>>, s) : s \in A \cap Metas} =
      {PlainItem(Messages, <<"meta", s>>, s) : s \in A \cap Metas}
  <2>1. \A s \in A \cap Metas : Lines!Plain(A, n, <<"meta", s>>, s) = PlainItem(Messages, <<"meta", s>>, s)
    BY <1>2
  <2> QED
    BY <2>1, Zenon
<1>7. {Lines!Plain(A, n, <<c, fork[c]>>, fork[c]) : c \in SpawnedIn(A)} =
      {PlainItem(Messages, <<c, fork[c]>>, fork[c]) : c \in SpawnedIn(A)}
  <2>1. \A c \in SpawnedIn(A) : Lines!Plain(A, n, <<c, fork[c]>>, fork[c]) = PlainItem(Messages, <<c, fork[c]>>, fork[c])
    BY <1>2, <1>3
  <2> QED
    BY <2>1, Zenon
<1> QED
  BY <1>4, <1>5, <1>6, <1>7, Zenon DEF Lines!Project, ItemsOf

LEMMA RowFacts ==
  ASSUME row \in Seq(Lines!Kinds)
  PROVE  /\ Lines!Rows \in SUBSET Nat /\ \A s \in Lines!Rows : s < Len(row)
         /\ Messages \in SUBSET Lines!Rows /\ Durations \in SUBSET Lines!Rows /\ Metas \in SUBSET Lines!Rows
         /\ Messages \cap Durations = {} /\ Messages \cap Metas = {}
         /\ Len(row) \in Nat
<1>1. Len(row) \in Nat
  BY LenProperties
<1>2. \A s \in Lines!Rows : s \in Nat /\ s < Len(row)
  BY <1>1 DEF Lines!Rows, Lines!Seqs
<1>3. Messages \in SUBSET Lines!Rows /\ Durations \in SUBSET Lines!Rows /\ Metas \in SUBSET Lines!Rows
  BY DEF Messages, Durations, Metas, Lines!OfKind
<1>4. Messages \cap Durations = {} /\ Messages \cap Metas = {}
  BY DEF Messages, Durations, Metas, Lines!OfKind
<1> QED
  BY <1>1, <1>2, <1>3, <1>4

\* A window of rows that begins at lo and ends at hi: it holds the messages between, its
\* entries have their messages in it, and its messages have theirs.
WindowAt(A, lo, hi) ==
  /\ \A s \in A : lo <= s /\ s <= hi
  /\ \A m \in Messages : lo <= m /\ m <= hi => m \in A
  /\ \A d \in A \cap Durations : Nearest(Messages, d) \in A \/ Nearest(Messages, d) = -1
  /\ \A d \in Durations : d <= hi /\ Nearest(Messages, d) \in A => d \in A

LEMMA NearestIn ==
  ASSUME NEW M \in SUBSET Nat, NEW W \in SUBSET M, NEW s \in Int,
         Nearest(M, s) \in W \/ Nearest(M, s) = -1
  PROVE  Nearest(W, s) = Nearest(M, s)
<1> DEFINE n == Nearest(M, s)
<1>1. NearestIs(M, s, n)
  BY NearestFact
<1>2. n \in W \/ n = -1
  OBVIOUS
<1> HIDE DEF n
<1>3. NearestIs(W, s, n)
  <2>1. CASE n = -1
    <3>1. n \notin M
      BY <2>1
    <3> QED
      BY <1>1, <2>1, <3>1 DEF NearestIs
  <2>2. CASE n \in W
    <3>1. n \in Nat
      BY <2>2
    <3>2. n # -1
      BY <3>1
    <3> QED
      BY <1>1, <2>2, <3>2 DEF NearestIs
  <2> QED
    BY <1>2, <2>1, <2>2
<1>4. Nearest(W, s) = n
  BY <1>3, NearestOnly
<1> QED
  BY <1>4 DEF n

LEMMA NearestOfMessage ==
  ASSUME NEW M \in SUBSET Nat, NEW m \in M
  PROVE  Nearest(M, m) = m
<1>1. NearestIs(M, m, m)
  BY DEF NearestIs
<1> QED
  BY <1>1, NearestOnly

LEMMA WindowIs ==
  ASSUME row \in Seq(Lines!Kinds), NEW A \in SUBSET Lines!Rows, NEW from, NEW lo \in Nat, NEW hi \in Int,
         WindowAt(A, lo, hi), Lines!Visible(A, from) = SpawnedIn(A)
  PROVE  Lines!Project(A, from, Cardinality({m \in Messages : m < lo})) = ItemsOf(A, hi)
<1> DEFINE n == Cardinality({m \in Messages : m < lo})
           W == A \cap Messages
<1>0. Messages \in SUBSET Nat /\ Durations \in SUBSET Nat /\ A \in SUBSET Nat /\ W \in SUBSET Messages
  BY RowFacts
<1>1. \A s \in A : Lines!TurnIndex(A, s, n) = NumberAt(Messages, s)
  <2>1. ASSUME NEW s \in A PROVE Lines!TurnIndex(A, s, n) = NumberAt(Messages, s)
    <3>1. s \in Nat /\ lo <= s /\ s <= hi
      BY <1>0 DEF WindowAt
    <3>2. \A m \in W : lo <= m
      BY DEF WindowAt
    <3>3. \A m \in Messages : lo <= m /\ m <= s => m \in W
      <4>1. ASSUME NEW m \in Messages, lo <= m, m <= s PROVE m \in W
        <5>1. m <= hi
          BY <1>0, <3>1, <4>1
        <5> QED
          BY <4>1, <5>1 DEF WindowAt
      <4> QED
        BY <4>1
    <3>4. n + NumberAt(W, s) = NumberAt(Messages, s)
      <4> HIDE DEF W
      <4> QED
        BY <1>0, <3>1, <3>2, <3>3, CountedApart
    <3>5. Lines!TurnIndex(A, s, n) = n + NumberAt(W, s)
      BY TurnIndexIn
    <3> QED
      BY <3>4, <3>5
  <2> QED
    BY <2>1
<1>2. \A m \in W : Lines!Badges(A, m) = BadgesOf(Messages, Durations, hi, m)
  <2>1. \A d \in A \cap Durations : Nearest(W, d) = Nearest(Messages, d)
    <3>1. ASSUME NEW d \in A \cap Durations PROVE Nearest(W, d) = Nearest(Messages, d)
      <4>1. d \in Int
        BY <1>0
      <4>2. Nearest(Messages, d) \in W \/ Nearest(Messages, d) = -1
        <5>1. NearestIs(Messages, d, Nearest(Messages, d))
          BY <1>0, <4>1, NearestFact
        <5> QED
          BY <5>1 DEF WindowAt, NearestIs
      <4> HIDE DEF W
      <4> QED
        BY <1>0, <4>1, <4>2, NearestIn
    <3> QED
      BY <3>1
  <2>2. \A d \in A \cap Durations : Lines!MessageAt(A, d) = Nearest(Messages, d)
    BY <2>1, MessageAtIn
  <2>3. ASSUME NEW m \in W PROVE Lines!Badges(A, m) = BadgesOf(Messages, Durations, hi, m)
    <3>1. Lines!Badges(A, m) = {d \in A \cap Durations : Lines!MessageAt(A, d) = m}
      BY OfKindIn, Zenon DEF Lines!Badges
    <3>2. {d \in A \cap Durations : Lines!MessageAt(A, d) = m} \subseteq BadgesOf(Messages, Durations, hi, m)
      BY <2>2 DEF BadgesOf, WindowAt
    <3>3. BadgesOf(Messages, Durations, hi, m) \subseteq {d \in A \cap Durations : Lines!MessageAt(A, d) = m}
      BY <2>2 DEF BadgesOf, WindowAt
    <3> QED
      BY <3>1, <3>2, <3>3
  <2> QED
    BY <2>3
<1>3. \A m \in W : Lines!MessageAt(A, m) = m
  <2>1. ASSUME NEW m \in W PROVE Lines!MessageAt(A, m) = m
    <3>1. Nearest(W, m) = m
      <4> HIDE DEF W
      <4> QED
        BY <1>0, NearestOfMessage
    <3> QED
      BY <3>1, MessageAtIn
  <2> QED
    BY <2>1
<1> HIDE DEF n
<1>4. Lines!Project(A, from, n) = ItemsOf(A, hi)
  BY <1>1, <1>2, <1>3, ProjectIs
<1> QED
  BY <1>4 DEF n

-----------------------------------------------------------------------------
\* What was sent, as the timeline shows it.
SentRows == {s \in Lines!Rows : s <= sent}

LEMMA SentIsWindow ==
  ASSUME LinesTypes
  PROVE  WindowAt(SentRows, 0, sent)
<1>0. Messages \in SUBSET Lines!Rows /\ Durations \in SUBSET Lines!Rows /\ Lines!Rows \in SUBSET Nat /\ sent \in Int
  BY RowFacts DEF LinesTypes
<1>1. \A s \in SentRows : 0 <= s /\ s <= sent
  BY <1>0 DEF SentRows
<1>2. \A m \in Messages : 0 <= m /\ m <= sent => m \in SentRows
  BY <1>0 DEF SentRows
<1>3. \A d \in SentRows \cap Durations : Nearest(Messages, d) \in SentRows \/ Nearest(Messages, d) = -1
  <2>1. ASSUME NEW d \in SentRows \cap Durations PROVE Nearest(Messages, d) \in SentRows \/ Nearest(Messages, d) = -1
    <3>1. d \in Nat /\ d <= sent
      BY <1>0 DEF SentRows
    <3>2. NearestIs(Messages, d, Nearest(Messages, d))
      BY <1>0, <3>1, NearestFact
    <3> DEFINE k == Nearest(Messages, d)
    <3> HIDE DEF k
    <3>3. k \in Messages /\ k <= d => k \in SentRows
      BY <1>0, <3>1 DEF SentRows
    <3> QED
      BY <3>2, <3>3 DEF NearestIs, k
  <2> QED
    BY <2>1
<1>4. \A d \in Durations : d <= sent /\ Nearest(Messages, d) \in SentRows => d \in SentRows
  BY <1>0 DEF SentRows
<1> QED
  BY <1>1, <1>2, <1>3, <1>4 DEF WindowAt

LEMMA BacklogIs ==
  ASSUME LinesTypes
  PROVE  Lines!Backlog = ItemsOf(SentRows, sent)
<1>0. /\ Messages \in SUBSET Lines!Rows /\ Lines!Rows \in SUBSET Nat /\ row \in Seq(Lines!Kinds)
      /\ sent \in Int /\ -1 <= sent
  BY RowFacts DEF LinesTypes
<1>1. Lines!Visible(SentRows, 0) = SpawnedIn(SentRows)
  <2>1. ASSUME NEW c \in Lines!Visible(SentRows, 0) PROVE c \in SpawnedIn(SentRows)
    <3>1. c \in Children /\ fork[c] \in Messages
      BY DEF LinesTypes, Lines!Visible, Lines!NotYet
    <3>2. CASE fork[c] \in SentRows
      BY <3>1, <3>2 DEF SpawnedIn
    <3>3. CASE SentRows # {} /\ 0 <= fork[c] /\ fork[c] <= Lines!Max(SentRows)
      <4>1. Lines!Max(SentRows) \in SentRows
        <5>1. SentRows \in SUBSET Nat /\ sent + 1 \in Nat /\ \A s \in SentRows : s < sent + 1
          <6>1. \A s \in SentRows : s \in Nat /\ s <= sent
            BY <1>0 DEF SentRows
          <6>2. sent + 1 \in Nat
            BY <1>0
          <6>3. \A s \in SentRows : s < sent + 1
            BY <1>0, <6>1
          <6> QED
            BY <6>1, <6>2, <6>3
        <5>2. Max(SentRows) \in SentRows
          BY <3>3, <5>1, MaxFact
        <5> QED
          BY <5>2, LinesMax
      <4>2. \A k \in SentRows : fork[c] <= k => fork[c] <= sent
        <5>1. fork[c] \in Nat /\ \A k \in SentRows : k \in Nat /\ k <= sent
          BY <1>0, <3>1 DEF SentRows
        <5> QED
          BY <1>0, <5>1
      <4>3. fork[c] <= sent
        BY <3>3, <4>1, <4>2
      <4>4. fork[c] \in SentRows
        BY <1>0, <3>1, <4>3 DEF SentRows
      <4> QED
        BY <3>1, <4>4 DEF SpawnedIn
    <3> QED
      BY <3>2, <3>3 DEF Lines!Visible
  <2>2. ASSUME NEW c \in SpawnedIn(SentRows) PROVE c \in Lines!Visible(SentRows, 0)
    BY <1>0 DEF SpawnedIn, Lines!Visible, Lines!NotYet
  <2> QED
    BY <2>1, <2>2
<1>2. Cardinality({m \in Messages : m < 0}) = 0
  <2>1. \A m \in Messages : m \in Nat
    BY <1>0
  <2>2. {m \in Messages : m < 0} = {}
    BY <2>1
  <2> QED
    BY <2>2, FS_EmptySet
<1>3. Lines!Project(SentRows, 0, Cardinality({m \in Messages : m < 0})) = ItemsOf(SentRows, sent)
  <2>1. SentRows \in SUBSET Lines!Rows
    BY DEF SentRows
  <2> QED
    BY <1>0, <1>1, <2>1, SentIsWindow, WindowIs
<1> QED
  BY <1>2, <1>3 DEF Lines!Backlog, SentRows

LEMMA LinesMeansBacklog == LinesInv => StreamedIsBacklog
<1> SUFFICES ASSUME LinesInv PROVE Lines!StreamedIsBacklog
  BY DEF StreamedIsBacklog
<1>0. LinesTypes /\ HeldRules /\ Complete /\ Messages \in SUBSET Nat /\ Messages \in SUBSET Lines!Rows /\ Metas \in SUBSET Lines!Rows
  BY RowFacts DEF LinesInv, LinesTypes
<1>1. Lines!Backlog = ItemsOf(SentRows, sent)
  BY <1>0, BacklogIs
<1>2. ASSUME NEW i \in Lines!Held
      PROVE  \E b \in ItemsOf(SentRows, sent) : [i EXCEPT !.refs = {}] = [b EXCEPT !.refs = {}] /\ i.refs \subseteq b.refs
  <2>1. HeldItem(i)
    BY <1>0 DEF Lines!Held, HeldRules
  <2>2. CASE \E m \in Messages : m <= sent /\ HeldMessage(i, m)
    <3>1. PICK m \in Messages : m <= sent /\ HeldMessage(i, m)
      BY <2>2
    <3>2. PICK refs \in SUBSET Spawned(m) : i = MessageItem(Messages, Durations, sent, m, refs)
      BY <3>1 DEF HeldMessage
    <3> DEFINE b == MessageItem(Messages, Durations, sent, m, Spawned(m))
    <3>3. m \in SentRows
      BY <1>0, <3>1 DEF SentRows
    <3>4. b \in ItemsOf(SentRows, sent)
      BY <3>3 DEF ItemsOf
    <3>5. [i EXCEPT !.refs = {}] = [b EXCEPT !.refs = {}] /\ i.refs \subseteq b.refs
      BY <3>2 DEF MessageItem
    <3> QED
      BY <3>4, <3>5
  <2>3. CASE \E s \in Metas : s <= sent /\ i = PlainItem(Messages, <<"meta", s>>, s)
    <3>1. i \in ItemsOf(SentRows, sent)
      BY <1>0, <2>3 DEF ItemsOf, SentRows
    <3> QED
      BY <3>1
  <2>4. CASE \E c \in Children : fork[c] \in Messages /\ fork[c] <= sent /\ i = PlainItem(Messages, <<c, fork[c]>>, fork[c])
    <3>1. i \in ItemsOf(SentRows, sent)
      BY <1>0, <2>4 DEF ItemsOf, SentRows, SpawnedIn
    <3> QED
      BY <3>1
  <2> QED
    BY <2>1, <2>2, <2>3, <2>4 DEF HeldItem
<1>3. ASSUME NEW b \in ItemsOf(SentRows, sent), b.id[1] \in early \cup {"message", "meta"}
      PROVE  \E i \in Lines!Held : i.id = b.id /\ b.refs \cap early \subseteq i.refs
  <2>0. SUFFICES Holds(b.id, b.refs \cap early)
    BY DEF Holds, Lines!Held
  <2>1. CASE b \in {MessageItem(Messages, Durations, sent, m, Spawned(m)) : m \in SentRows \cap Messages}
    <3>1. PICK m \in SentRows \cap Messages : b = MessageItem(Messages, Durations, sent, m, Spawned(m))
      BY <2>1
    <3>2. b.id = <<"message", m>> /\ b.refs = Spawned(m) /\ m <= sent
      BY <3>1 DEF MessageItem, SentRows
    <3> QED
      BY <1>0, <3>2 DEF Complete
  <2>2. CASE b \in {PlainItem(Messages, <<"meta", s>>, s) : s \in SentRows \cap Metas}
    <3>1. PICK s \in SentRows \cap Metas : b = PlainItem(Messages, <<"meta", s>>, s)
      BY <2>2
    <3>2. b.id = <<"meta", s>> /\ b.refs \cap early = {} /\ s <= sent
      BY <3>1 DEF PlainItem, SentRows
    <3> QED
      BY <1>0, <3>2 DEF Complete
  <2>3. CASE b \in {PlainItem(Messages, <<c, fork[c]>>, fork[c]) : c \in SpawnedIn(SentRows)}
    <3>1. PICK c \in SpawnedIn(SentRows) : b = PlainItem(Messages, <<c, fork[c]>>, fork[c])
      BY <2>3
    <3>2. b.id = <<c, fork[c]>> /\ b.id[1] = c /\ b.refs \cap early = {} /\ fork[c] <= sent /\ c \in Children
      BY <3>1 DEF PlainItem, SentRows, SpawnedIn
    <3>3. c \in early
      BY <1>3, <3>2, ChildrenAssumption
    <3> QED
      BY <1>0, <3>2, <3>3 DEF Complete
  <2> QED
    BY <2>1, <2>2, <2>3 DEF ItemsOf
<1> QED
  BY <1>1, <1>2, <1>3 DEF Lines!StreamedIsBacklog

LEMMA LinesInitHolds == Lines!Init => LinesInv
<1> SUFFICES ASSUME Lines!Init PROVE LinesInv
  OBVIOUS
<1>1. row = <<>> /\ fork = [c \in Children |-> -2] /\ sent = -1 /\ view = {} /\ early = {}
  BY DEF Lines!Init, Lines!NotYet
<1>2. row \in Seq(Lines!Kinds) /\ Len(row) = 0
  BY <1>1
<1>3. Lines!Rows = {}
  BY <1>2 DEF Lines!Rows, Lines!Seqs
<1>4. Messages = {} /\ Durations = {} /\ Metas = {}
  BY <1>3 DEF Messages, Durations, Metas, Lines!OfKind
<1>5. LinesTypes
  BY <1>1, <1>2 DEF LinesTypes
<1>6. OneBadge /\ HeldRules /\ Complete
  BY <1>1, <1>4 DEF OneBadge, HeldRules, Complete
<1> QED
  BY <1>5, <1>6 DEF LinesInv

-----------------------------------------------------------------------------
\* What is below s does not change with what is stored above it.
LEMMA PrefixIsKept ==
  ASSUME NEW M \in SUBSET Nat, NEW P \in SUBSET Nat, NEW n \in Nat, M \subseteq P, P \subseteq M \cup {n},
         NEW s \in Int, s < n
  PROVE  NumberAt(P, s) = NumberAt(M, s) /\ Nearest(P, s) = Nearest(M, s)
<1>1. {m \in P : m <= s} = {m \in M : m <= s}
  <2>1. ASSUME NEW m \in P, m <= s PROVE m \in M
    BY <2>1
  <2> QED
    BY <2>1
<1> QED
  BY <1>1, Zenon DEF NumberAt, Nearest

LEMMA StoreGrows ==
  ASSUME LinesTypes, NEW kind \in Lines!Kinds, Lines!Store(kind)
  PROVE  /\ row' \in Seq(Lines!Kinds) /\ Len(row') = Len(row) + 1
         /\ Messages \subseteq Messages' /\ Messages' \subseteq Messages \cup {Len(row)}
         /\ Durations \subseteq Durations' /\ Durations' \subseteq Durations \cup {Len(row)}
         /\ Metas \subseteq Metas' /\ Metas' \subseteq Metas \cup {Len(row)}
         /\ Len(row) \in Durations' => kind = "duration" /\ Messages' = Messages
<1> DEFINE n == Len(row)
<1>0. row \in Seq(Lines!Kinds) /\ n \in Nat
  BY LenProperties DEF LinesTypes
<1>1. row' = Append(row, kind)
  BY DEF Lines!Store
<1>2. row' \in Seq(Lines!Kinds) /\ Len(row') = n + 1
  BY <1>0, <1>1
<1>3. \A s \in 0..(n - 1) : row'[s + 1] = row[s + 1]
  BY <1>0, <1>1
<1>4. row'[n + 1] = kind
  BY <1>0, <1>1
<1>5. (Lines!Seqs)' = 0..n /\ Lines!Seqs = 0..(n - 1)
  BY <1>0, <1>2 DEF Lines!Seqs
<1> DEFINE Old(k) == Lines!OfKind(Lines!Rows, k)
           New(k) == (Lines!OfKind(Lines!Rows, k))'
<1>6. \A k : k # "none" => Old(k) = {s \in 0..(n - 1) : row[s + 1] = k}
  BY <1>5 DEF Lines!OfKind, Lines!Rows
<1>7. \A k : k # "none" => New(k) = {s \in 0..n : row'[s + 1] = k}
  BY <1>5 DEF Lines!OfKind, Lines!Rows
<1>8. ASSUME NEW k, k # "none"
      PROVE  /\ Old(k) \subseteq New(k) /\ New(k) \subseteq Old(k) \cup {n}
             /\ n \in New(k) <=> kind = k
  <2>1. 0..(n - 1) \subseteq 0..n /\ n \in 0..n /\ \A s \in 0..n : s = n \/ s \in 0..(n - 1)
    BY <1>0
  <2> HIDE DEF Old, New, n
  <2>2. Old(k) \subseteq New(k)
    BY <1>3, <1>6, <1>7, <1>8, <2>1
  <2>3. New(k) \subseteq Old(k) \cup {n}
    BY <1>3, <1>6, <1>7, <1>8, <2>1
  <2>4. n \in New(k) <=> kind = k
    BY <1>4, <1>7, <1>8, <2>1
  <2> QED
    BY <2>2, <2>3, <2>4
<1>9. Messages = Old("turn") /\ Messages' = New("turn") /\ Durations = Old("duration") /\ Durations' = New("duration")
      /\ Metas = Old("meta") /\ Metas' = New("meta")
  BY DEF Messages, Durations, Metas
<1> HIDE DEF Old, New
<1>10. Messages \subseteq Messages' /\ Messages' \subseteq Messages \cup {n} /\ (n \in Messages' <=> kind = "turn")
  BY <1>8, <1>9
<1>11. Durations \subseteq Durations' /\ Durations' \subseteq Durations \cup {n} /\ (n \in Durations' <=> kind = "duration")
  BY <1>8, <1>9
<1>12. Metas \subseteq Metas' /\ Metas' \subseteq Metas \cup {n}
  BY <1>8, <1>9
<1>13. n \in Durations' => kind = "duration" /\ Messages' = Messages
  BY <1>10, <1>11
<1> QED
  BY <1>2, <1>10, <1>11, <1>12, <1>13

LEMMA LinesStore ==
  ASSUME LinesInv, NEW kind \in Lines!Kinds, Lines!Store(kind)
  PROVE  LinesInv'
<1> DEFINE n == Len(row)
<1>0. LinesTypes /\ OneBadge /\ HeldRules /\ Complete
  BY DEF LinesInv
<1>1. /\ row' \in Seq(Lines!Kinds) /\ Len(row') = n + 1
      /\ Messages \subseteq Messages' /\ Messages' \subseteq Messages \cup {n}
      /\ Durations \subseteq Durations' /\ Durations' \subseteq Durations \cup {n}
      /\ Metas \subseteq Metas' /\ Metas' \subseteq Metas \cup {n}
      /\ n \in Durations' => kind = "duration" /\ Messages' = Messages
  BY <1>0, StoreGrows
<1>2. n \in Nat /\ sent \in Int /\ sent < n /\ -1 <= sent
  BY <1>0, LenProperties DEF LinesTypes
<1>3. /\ Messages \in SUBSET Nat /\ Durations \in SUBSET Nat /\ Metas \in SUBSET Nat
      /\ \A s \in Messages \cup Durations \cup Metas : s < n
  BY <1>0, RowFacts DEF LinesTypes
<1>4. /\ Messages' \in SUBSET Nat /\ Durations' \in SUBSET Nat /\ Metas' \in SUBSET Nat
      /\ \A s \in Messages' \cup Durations' \cup Metas' : s <= n
  <2>1. \A s \in Messages' \cup Durations' \cup Metas' : s = n \/ s \in Messages \cup Durations \cup Metas
    BY <1>1
  <2> HIDE DEF n
  <2>2. \A s \in Messages' \cup Durations' \cup Metas' : s \in Nat /\ s <= n
    <3>1. ASSUME NEW s \in Messages' \cup Durations' \cup Metas' PROVE s \in Nat /\ s <= n
      <4>1. CASE s = n
        BY <1>2, <4>1
      <4>2. CASE s \in Messages \cup Durations \cup Metas
        <5>1. s \in Nat /\ s < n
          BY <1>3, <4>2
        <5> QED
          BY <1>2, <5>1
      <4> QED
        BY <2>1, <4>1, <4>2
    <3> QED
      BY <3>1
  <2> QED
    BY <2>2
<1>5. fork' = fork /\ sent' = sent /\ view' = view /\ early' = early
  BY DEF Lines!Store
<1>6. \A s \in Int : s < n => NumberAt(Messages', s) = NumberAt(Messages, s) /\ Nearest(Messages', s) = Nearest(Messages, s)
  <2> HIDE DEF n
  <2> QED
    BY <1>1, <1>2, <1>3, <1>4, PrefixIsKept
<1> HIDE DEF n
<1>7. LinesTypes'
  <2>1. sent' < Len(row')
    BY <1>1, <1>2, <1>5
  <2>2. fork' \in [Children -> Int] /\ \A c \in Children : fork'[c] = -2 \/ fork'[c] \in Messages'
    BY <1>0, <1>1, <1>5 DEF LinesTypes
  <2>3. early' \subseteq {c \in Children : fork'[c] # -2}
    BY <1>0, <1>5 DEF LinesTypes
  <2> QED
    BY <1>1, <1>2, <1>5, <2>1, <2>2, <2>3 DEF LinesTypes
<1>8. OneBadge'
  <2>1. ASSUME NEW d \in Durations', NEW x \in Durations', d < x
        PROVE  d < Nearest(Messages', x)
    <3>1. d \in Nat /\ x \in Nat /\ x <= n /\ d # n
      BY <1>2, <1>4, <2>1
    <3>2. d \in Durations
      BY <1>1, <3>1
    <3>3. CASE x = n
      <4>1. kind = "duration" /\ Messages' = Messages
        BY <1>1, <3>3
      <4>2. Lines!Highest(Lines!OfKind(Lines!Rows, "duration")) < Lines!MessageAt(Lines!Rows, n)
        BY <4>1 DEF Lines!Store, Lines!MayFollow, n
      <4>3. d <= Lines!Highest(Durations)
        <5>1. Durations # {} /\ \A s \in Durations : s < n
          BY <1>3, <3>2
        <5>2. d <= Max(Durations)
          BY <1>2, <1>3, <3>2, <5>1, MaxFact
        <5> QED
          BY <5>1, <5>2, LinesMax DEF Lines!Highest
      <4>4. Lines!Highest(Durations) \in Int
        <5>1. Durations # {} /\ \A s \in Durations : s < n
          BY <1>3, <3>2
        <5>2. Max(Durations) \in Durations
          BY <1>2, <1>3, <3>2, <5>1, MaxFact
        <5> QED
          <6>1. Lines!Highest(Durations) = Max(Durations)
            BY <5>1, LinesMax, Zenon DEF Lines!Highest
          <6>2. Max(Durations) \in Nat
            BY <1>3, <5>2, Zenon
          <6> QED
            BY <6>1, <6>2
      <4>5. Lines!MessageAt(Lines!Rows, n) = Nearest(Messages, n)
        <5>1. Lines!Rows \cap Messages = Messages
          BY <1>0, RowFacts DEF LinesTypes
        <5> QED
          BY <5>1, MessageAtIn
      <4>6. Nearest(Messages, n) \in Int
        BY <1>2, <1>3, NearestInt
      <4>7. Lines!Highest(Durations) < Nearest(Messages, n)
        BY <4>2, <4>5 DEF Durations
      <4>8. d < Nearest(Messages, n)
        BY <3>1, <4>3, <4>4, <4>6, <4>7
      <4> QED
        BY <3>3, <4>1, <4>8
    <3>4. CASE x # n
      <4>1. x \in Durations /\ x < n
        BY <1>1, <1>3, <3>4
      <4> QED
        BY <1>0, <1>6, <2>1, <3>1, <3>2, <4>1 DEF OneBadge
    <3> QED
      BY <3>3, <3>4
  <2> QED
    BY <2>1 DEF OneBadge
<1>9. HeldRules'
  <2>1. ASSUME NEW m \in Messages, m <= sent, NEW refs
        PROVE  MessageItem(Messages', Durations', sent, m, refs) = MessageItem(Messages, Durations, sent, m, refs)
    <3>1. m \in Int /\ m < n
      BY <1>3
    <3>2. BadgesOf(Messages', Durations', sent, m) = BadgesOf(Messages, Durations, sent, m)
      <4>1. \A d \in Durations' : d <= sent => d \in Durations /\ d \in Int /\ d < n
        <5>1. ASSUME NEW d \in Durations', d <= sent PROVE d \in Durations /\ d \in Int /\ d < n
          <6>1. d \in Nat /\ d # n
            BY <1>2, <1>4, <5>1
          <6> QED
            BY <1>1, <1>3, <6>1
        <5> QED
          BY <5>1
      <4> QED
        BY <1>1, <1>6, <4>1 DEF BadgesOf
    <3>3. NumberAt(Messages', m) = NumberAt(Messages, m)
      BY <1>6, <3>1
    <3> QED
      BY <3>2, <3>3, Zenon DEF MessageItem
  <2>2. ASSUME NEW s \in Int, s < n, NEW id PROVE PlainItem(Messages', id, s) = PlainItem(Messages, id, s)
    BY <1>6, <2>2 DEF PlainItem
  <2>3. ASSUME NEW i, HeldItem(i) PROVE HeldItem(i)'
    <3>1. CASE \E m \in Messages : m <= sent /\ HeldMessage(i, m)
      <4>1. PICK m \in Messages : m <= sent /\ HeldMessage(i, m)
        BY <3>1
      <4>2. PICK refs \in SUBSET Spawned(m) : i = MessageItem(Messages, Durations, sent, m, refs)
        BY <4>1 DEF HeldMessage
      <4>3. i = MessageItem(Messages', Durations', sent', m, refs) /\ refs \in SUBSET (Spawned(m))'
        BY <1>5, <2>1, <4>1, <4>2 DEF Spawned
      <4>4. HeldMessage(i, m)'
        BY <4>3 DEF HeldMessage
      <4> QED
        BY <1>1, <1>5, <4>1, <4>4 DEF HeldItem
    <3>2. CASE \E s \in Metas : s <= sent /\ i = PlainItem(Messages, <<"meta", s>>, s)
      <4>1. PICK s \in Metas : s <= sent /\ i = PlainItem(Messages, <<"meta", s>>, s)
        BY <3>2
      <4>2. i = PlainItem(Messages', <<"meta", s>>, s)
        BY <1>3, <2>2, <4>1
      <4> QED
        BY <1>1, <1>5, <4>1, <4>2 DEF HeldItem
    <3>3. CASE \E c \in Children : fork[c] \in Messages /\ fork[c] <= sent /\ i = PlainItem(Messages, <<c, fork[c]>>, fork[c])
      <4>1. PICK c \in Children : fork[c] \in Messages /\ fork[c] <= sent /\ i = PlainItem(Messages, <<c, fork[c]>>, fork[c])
        BY <3>3
      <4>2. i = PlainItem(Messages', <<c, fork[c]>>, fork[c])
        <5>1. \A m \in Messages : m \in Int /\ m < n
          BY <1>3
        <5> QED
          BY <2>2, <4>1, <5>1
      <4> QED
        BY <1>1, <1>5, <4>1, <4>2 DEF HeldItem
    <3> QED
      BY <2>3, <3>1, <3>2, <3>3 DEF HeldItem
  <2> QED
    BY <1>0, <1>5, <2>3 DEF HeldRules
<1>10. Complete'
  <2>1. \A m \in Messages' : m <= sent => m \in Messages
    <3>1. \A m \in Messages' : m <= sent => m # n
      BY <1>2, <1>4
    <3> QED
      BY <1>1, <3>1
  <2>2. \A m \in Metas' : m <= sent => m \in Metas
    <3>1. \A m \in Metas' : m <= sent => m # n
      BY <1>2, <1>4
    <3> QED
      BY <1>1, <3>1
  <2>3. \A id, refs : Holds(id, refs)' <=> Holds(id, refs)
    BY <1>5 DEF Holds
  <2>5. \A m \in Messages' : m <= sent' => Holds(<<"message", m>>, Spawned(m) \cap early)'
    BY <1>0, <1>5, <2>1 DEF Complete, Holds, Spawned
  <2>6. \A s \in Metas' : s <= sent' => Holds(<<"meta", s>>, {})'
    BY <1>0, <1>5, <2>2, <2>3 DEF Complete
  <2>7. \A c \in early' : fork'[c] <= sent' => Holds(<<c, fork[c]>>, {})'
    BY <1>0, <1>5 DEF Complete, Holds
  <2> QED
    BY <2>5, <2>6, <2>7 DEF Complete
<1> QED
  BY <1>7, <1>8, <1>9, <1>10 DEF LinesInv

LEMMA LinesSpawn ==
  ASSUME LinesInv, NEW c \in Children, Lines!Spawn(c)
  PROVE  LinesInv'
<1>0. LinesTypes /\ OneBadge /\ HeldRules /\ Complete
  BY DEF LinesInv
<1>1. fork[c] = -2 /\ UNCHANGED <<row, sent, view>>
  BY DEF Lines!Spawn, Lines!NotYet
<1>2. PICK s \in Messages : fork' = [fork EXCEPT ![c] = s] /\ early' = IF sent < s THEN early \cup {c} ELSE early
  BY DEF Lines!Spawn, Messages
<1>3. Messages' = Messages /\ Durations' = Durations /\ Metas' = Metas
  BY <1>1 DEF Messages, Durations, Metas, Lines!OfKind, Lines!Rows, Lines!Seqs
<1>4. Messages \in SUBSET Nat /\ sent \in Int /\ fork \in [Children -> Int]
  BY <1>0, RowFacts DEF LinesTypes
<1>5. s \in Nat /\ fork' \in [Children -> Int] /\ fork'[c] = s /\ \A x \in Children : x # c => fork'[x] = fork[x]
  BY <1>2, <1>4
<1>6. c \notin early
  BY <1>0, <1>1 DEF LinesTypes
<1>7. LinesTypes'
  <2>1. \A x \in Children : fork'[x] = -2 \/ fork'[x] \in Messages'
    BY <1>0, <1>2, <1>3, <1>5 DEF LinesTypes
  <2>2. early' \subseteq {x \in Children : fork'[x] # -2}
    BY <1>0, <1>2, <1>5 DEF LinesTypes
  <2>3. row' \in Seq(Lines!Kinds) /\ sent' \in Int /\ -1 <= sent' /\ sent' < Len(row')
    BY <1>0, <1>1 DEF LinesTypes
  <2> QED
    BY <1>5, <2>1, <2>2, <2>3 DEF LinesTypes
<1>8. OneBadge'
  BY <1>0, <1>3 DEF OneBadge
<1>9. HeldRules'
  <2>1. \A m \in Messages : Spawned(m) \subseteq (Spawned(m))'
    BY <1>1, <1>4, <1>5 DEF Spawned
  <2>2. ASSUME NEW i, HeldItem(i) PROVE HeldItem(i)'
    <3>1. CASE \E m \in Messages : m <= sent /\ HeldMessage(i, m)
      <4>1. PICK m \in Messages : m <= sent /\ HeldMessage(i, m)
        BY <3>1
      <4>2. PICK refs \in SUBSET Spawned(m) : i = MessageItem(Messages, Durations, sent, m, refs)
        BY <4>1 DEF HeldMessage
      <4>3. i = MessageItem(Messages', Durations', sent', m, refs) /\ refs \in SUBSET (Spawned(m))'
        BY <1>1, <1>3, <2>1, <4>2
      <4>4. HeldMessage(i, m)'
        BY <4>3 DEF HeldMessage
      <4> QED
        BY <1>1, <1>3, <4>1, <4>4 DEF HeldItem
    <3>2. CASE \E x \in Metas : x <= sent /\ i = PlainItem(Messages, <<"meta", x>>, x)
      BY <1>1, <1>3, <3>2 DEF HeldItem
    <3>3. CASE \E x \in Children : fork[x] \in Messages /\ fork[x] <= sent /\ i = PlainItem(Messages, <<x, fork[x]>>, fork[x])
      <4>1. PICK x \in Children : fork[x] \in Messages /\ fork[x] <= sent /\ i = PlainItem(Messages, <<x, fork[x]>>, fork[x])
        BY <3>3
      <4>2. x # c
        BY <1>1, <1>4, <4>1
      <4>3. fork'[x] = fork[x]
        BY <1>5, <4>2
      <4> QED
        BY <1>1, <1>3, <4>1, <4>3 DEF HeldItem
    <3> QED
      BY <2>2, <3>1, <3>2, <3>3 DEF HeldItem
  <2> QED
    BY <1>0, <1>1, <2>2 DEF HeldRules
<1>10. Complete'
  <2>1. ASSUME NEW m \in Messages, m <= sent
        PROVE  (Spawned(m))' \cap early' = Spawned(m) \cap early
    <3>1. \A x \in Children : x # c => (x \in (Spawned(m))' <=> x \in Spawned(m))
      BY <1>5 DEF Spawned
    <3>2. \A x : x # c => (x \in early' <=> x \in early)
      BY <1>2
    <3>3. ~(c \in (Spawned(m))' /\ c \in early')
      <4>1. c \in (Spawned(m))' => m = s
        BY <1>5 DEF Spawned
      <4>2. c \in early' => sent < s
        BY <1>2, <1>6
      <4> QED
        BY <1>4, <1>5, <2>1, <4>1, <4>2
    <3>4. (Spawned(m))' \subseteq Children /\ Spawned(m) \subseteq Children
      BY DEF Spawned
    <3> QED
      BY <1>6, <3>1, <3>2, <3>3, <3>4
  <2>2. \A id, refs : Holds(id, refs)' <=> Holds(id, refs)
    BY <1>1 DEF Holds
  <2>3. \A m \in Messages' : m <= sent' => Holds(<<"message", m>>, Spawned(m) \cap early)'
    <3>1. ASSUME NEW m \in Messages, m <= sent
          PROVE  \E e \in view' : e.item.id = <<"message", m>> /\ (Spawned(m))' \cap early' \subseteq e.item.refs
      <4>1. Holds(<<"message", m>>, Spawned(m) \cap early)
        BY <1>0, <3>1 DEF Complete
      <4> QED
        BY <1>1, <2>1, <3>1, <4>1 DEF Holds
    <3> QED
      BY <1>1, <1>3, <3>1 DEF Holds
  <2>4. \A x \in Metas' : x <= sent' => Holds(<<"meta", x>>, {})'
    BY <1>0, <1>1, <1>3, <2>2 DEF Complete
  <2>5. \A x \in early' : fork'[x] <= sent' => \E e \in view' : e.item.id = <<x, fork'[x]>> /\ {} \subseteq e.item.refs
    <3>1. ASSUME NEW x \in early', fork'[x] <= sent'
          PROVE  \E e \in view' : e.item.id = <<x, fork'[x]>> /\ {} \subseteq e.item.refs
      <4>1. x # c
        BY <1>1, <1>2, <1>4, <1>5, <1>6, <3>1
      <4>2. x \in early /\ x \in Children
        BY <1>0, <1>2, <4>1 DEF LinesTypes
      <4>3. fork'[x] = fork[x]
        BY <1>5, <4>1, <4>2
      <4>4. Holds(<<x, fork[x]>>, {})
        BY <1>0, <1>1, <3>1, <4>2, <4>3 DEF Complete
      <4> QED
        BY <1>1, <4>3, <4>4 DEF Holds
    <3> QED
      BY <3>1
  <2> QED
    BY <2>3, <2>4, <2>5 DEF Complete, Holds
<1> QED
  BY <1>7, <1>8, <1>9, <1>10 DEF LinesInv

-----------------------------------------------------------------------------
\* The anchor of a page: the message before it that a duration in it belongs to.
IsAnchor(R, a) ==
  /\ a \in Messages /\ a <= sent
  /\ \E d \in R \cap Durations : Nearest(Messages, d) = a

LEMMA AnchorFact ==
  ASSUME LinesTypes, NEW to \in Int, NEW R, R = {s \in Lines!Rows : sent < s /\ s <= to}
  PROVE  /\ \A a \in Lines!Anchor(R) : IsAnchor(R, a)
         /\ \A a, b \in Lines!Anchor(R) : a = b
         /\ \A d \in R \cap Durations :
              Nearest(Messages, d) \in R \cup Lines!Anchor(R) \/ Nearest(Messages, d) = -1
<1>0. /\ Messages \in SUBSET Lines!Rows /\ Lines!Rows \in SUBSET Nat /\ Messages \in SUBSET Nat /\ sent \in Int
      /\ R \in SUBSET Lines!Rows /\ R \in SUBSET Nat
  BY RowFacts DEF LinesTypes
<1> DEFINE U == Lines!Unanchored(R)
<1>1. U = {d \in R \cap Durations : Nearest(R \cap Messages, d) = -1}
  <2>1. U = {d \in R \cap Durations : Lines!MessageAt(R, d) = -1}
    BY <1>0, OfKindIn, Zenon DEF Lines!Unanchored
  <2>2. \A d : Lines!MessageAt(R, d) = Nearest(R \cap Messages, d)
    BY <1>0, MessageAtIn
  <2> QED
    BY <2>1, <2>2, Zenon
<1>2. \A d : Lines!MessageAt(Lines!Rows, d) = Nearest(Messages, d)
  <2>1. Lines!Rows \cap Messages = Messages
    BY <1>0
  <2> QED
    BY <2>1, MessageAtIn
<1> DEFINE d0 == Lines!Min(U)
<1>3. Lines!Anchor(R) = IF U = {} THEN {} ELSE {m \in {Nearest(Messages, d0)} : m # -1}
  BY <1>2, Zenon DEF Lines!Anchor
<1>4. U \in SUBSET Nat
  BY <1>0, <1>1
<1> HIDE DEF U
<1>5. U # {} => d0 \in U /\ \A d \in U : d0 <= d
  BY <1>4, MinFact
<1> HIDE DEF d0
<1>6. ASSUME NEW a \in Lines!Anchor(R) PROVE IsAnchor(R, a)
  <2>1. d0 \in U /\ a = Nearest(Messages, d0) /\ a # -1
    BY <1>3, <1>5
  <2>2. d0 \in R \cap Durations /\ Nearest(R \cap Messages, d0) = -1 /\ d0 \in Nat
    BY <1>1, <1>4, <2>1
  <2>3. NearestIs(Messages, d0, a)
    BY <1>0, <2>1, <2>2, NearestFact
  <2>4. a \in Messages /\ a <= d0 /\ a \in Nat
    BY <1>0, <2>1, <2>3 DEF NearestIs
  <2>5. NearestIs(R \cap Messages, d0, -1)
    <3>1. R \cap Messages \in SUBSET Nat
      BY <1>0
    <3> QED
      BY <2>2, <3>1, NearestFact
  <2>6. a \notin R
    <3>1. \A m \in R \cap Messages : m \in Nat /\ m # -1
      BY <1>0
    <3> QED
      BY <2>2, <2>4, <2>5, <3>1 DEF NearestIs
  <2>7. a <= to
    <3>1. d0 <= to /\ d0 \in Nat
      BY <2>2
    <3> QED
      BY <2>4, <3>1
  <2>8. a <= sent
    BY <1>0, <2>4, <2>6, <2>7
  <2> QED
    BY <2>1, <2>2, <2>4, <2>8 DEF IsAnchor
<1>7. \A a, b \in Lines!Anchor(R) : a = b
  BY <1>3
<1>8. ASSUME NEW d \in R \cap Durations, Nearest(Messages, d) # -1, Nearest(Messages, d) \notin R
      PROVE  Nearest(Messages, d) \in Lines!Anchor(R)
  <2> DEFINE k == Nearest(Messages, d)
  <2>1. d \in Nat /\ sent < d /\ d <= to
    BY <1>0
  <2>2. NearestIs(Messages, d, k)
    BY <1>0, <2>1, NearestFact
  <2>3. k # -1 /\ k \notin R
    BY <1>8
  <2> HIDE DEF k
  <2>4. k \in Messages /\ k \in Nat /\ k <= d /\ \A m \in Messages : m <= d => m <= k
    BY <1>0, <2>2, <2>3 DEF NearestIs
  <2>5. k <= sent
    BY <1>0, <2>1, <2>3, <2>4
  <2>6. \A m \in R \cap Messages : d < m
    <3>1. ASSUME NEW m \in R \cap Messages, m <= d PROVE FALSE
      <4>1. m \in Nat /\ sent < m /\ m <= k
        BY <1>0, <2>4, <3>1
      <4> QED
        BY <1>0, <2>4, <2>5, <4>1
    <3>2. \A m \in R \cap Messages : m \in Nat
      BY <1>0
    <3> QED
      BY <2>1, <3>1, <3>2
  <2>7. d \in U
    <3>1. NearestIs(R \cap Messages, d, -1) /\ R \cap Messages \in SUBSET Nat
      BY <1>0, <2>6 DEF NearestIs
    <3>2. Nearest(R \cap Messages, d) = -1
      BY <2>1, <3>1, NearestOnly
    <3> QED
      BY <1>1, <3>2
  <2>8. d0 \in U /\ d0 <= d /\ d0 \in Nat /\ sent < d0
    BY <1>0, <1>1, <1>4, <1>5, <2>7
  <2>9. NearestIs(Messages, d0, k)
    <3>1. k <= d0
      BY <1>0, <2>4, <2>5, <2>8
    <3>2. \A m \in Messages : m <= d0 => m <= k
      <4>1. \A m \in Messages : m \in Nat
        BY <1>0
      <4> QED
        BY <2>1, <2>4, <2>8, <4>1
    <3> QED
      BY <2>4, <3>1, <3>2 DEF NearestIs
  <2>10. Nearest(Messages, d0) = k
    BY <1>0, <2>8, <2>9, NearestOnly
  <2>11. k \in Lines!Anchor(R)
    BY <1>3, <2>3, <2>7, <2>10
  <2> QED
    BY <2>11 DEF k
<1> QED
  BY <1>6, <1>7, <1>8

\* A page with its anchor.
Window(R) == R \cup Lines!Anchor(R)

LEMMA LinesPageFacts ==
  ASSUME LinesTypes, NEW to \in Int, NEW R, R = {s \in Lines!Rows : sent < s /\ s <= to}, R # {}
  PROVE  /\ Lines!Max(R) \in R /\ Lines!Max(R) \in Nat /\ sent < Lines!Max(R)
         /\ \A s \in Window(R) : s \in Nat /\ s <= Lines!Max(R)
         /\ \A s \in Lines!Rows : sent < s /\ s <= Lines!Max(R) => s \in R
         /\ Window(R) \in SUBSET Lines!Rows /\ R \in SUBSET Nat
         /\ Lines!Min(Window(R)) \in Window(R) /\ \A s \in Window(R) : Lines!Min(Window(R)) <= s
<1>0. /\ Messages \in SUBSET Lines!Rows /\ Lines!Rows \in SUBSET Nat /\ sent \in Int
      /\ R \in SUBSET Lines!Rows /\ R \in SUBSET Nat
      /\ Len(row) \in Nat /\ \A s \in Lines!Rows : s < Len(row)
  BY RowFacts DEF LinesTypes
<1> DEFINE hi == Lines!Max(R)
<1>1. hi \in R /\ \A s \in R : s <= hi
  <2>1. Max(R) \in R /\ \A s \in R : s <= Max(R)
    BY <1>0, MaxFact
  <2> QED
    BY <2>1, LinesMax
<1> HIDE DEF hi
<1>2. hi \in Nat /\ sent < hi /\ hi <= to
  BY <1>0, <1>1
<1>3. \A a \in Lines!Anchor(R) : a \in Messages /\ a <= sent
  BY AnchorFact DEF IsAnchor
<1>4. \A s \in Window(R) : s \in Nat /\ s <= hi
  <2>1. \A s \in R : s \in Nat /\ s <= hi
    BY <1>0, <1>1
  <2>2. \A s \in Lines!Anchor(R) : s \in Nat /\ s <= hi
    <3>1. ASSUME NEW s \in Lines!Anchor(R) PROVE s \in Nat /\ s <= hi
      <4>1. s \in Messages /\ s <= sent
        BY <1>3
      <4>2. s \in Nat
        BY <1>0, <4>1
      <4> QED
        BY <1>0, <1>2, <4>1, <4>2
    <3> QED
      BY <3>1
  <2> QED
    BY <2>1, <2>2 DEF Window
<1>5. \A s \in Lines!Rows : sent < s /\ s <= hi => s \in R
  <2>1. \A s \in Lines!Rows : s \in Nat
    BY <1>0
  <2> QED
    BY <1>2, <2>1
<1>6. Window(R) \in SUBSET Lines!Rows /\ Window(R) # {} /\ Window(R) \in SUBSET Nat
  BY <1>0, <1>3, <1>4 DEF Window
<1>7. Lines!Min(Window(R)) \in Window(R) /\ \A s \in Window(R) : Lines!Min(Window(R)) <= s
  BY <1>6, MinFact
<1> QED
  BY <1>0, <1>1, <1>2, <1>4, <1>5, <1>6, <1>7 DEF hi

LEMMA PageIsWindow ==
  ASSUME LinesTypes, OneBadge, NEW to \in Int, NEW R, R = {s \in Lines!Rows : sent < s /\ s <= to}, R # {}
  PROVE  /\ WindowAt(Window(R), Lines!Min(Window(R)), Lines!Max(R))
         /\ Lines!Visible(Window(R), sent + 1) = SpawnedIn(Window(R))
<1> DEFINE hi == Lines!Max(R)
           lo == Lines!Min(Window(R))
           A == Window(R)
<1>0. /\ Messages \in SUBSET Lines!Rows /\ Lines!Rows \in SUBSET Nat /\ sent \in Int
      /\ Messages \in SUBSET Nat /\ Durations \in SUBSET Nat /\ Durations \in SUBSET Lines!Rows
  BY RowFacts DEF LinesTypes
<1>1. /\ hi \in R /\ hi \in Nat /\ sent < hi
      /\ \A s \in A : s \in Nat /\ s <= hi
      /\ \A s \in Lines!Rows : sent < s /\ s <= hi => s \in R
      /\ A \in SUBSET Lines!Rows /\ R \in SUBSET Nat
      /\ lo \in A /\ \A s \in A : lo <= s
  BY LinesPageFacts
<1>2. /\ \A a \in Lines!Anchor(R) : IsAnchor(R, a)
      /\ \A a, b \in Lines!Anchor(R) : a = b
      /\ \A d \in R \cap Durations : Nearest(Messages, d) \in R \cup Lines!Anchor(R) \/ Nearest(Messages, d) = -1
  BY AnchorFact
<1>3. \A s \in R : s \in Nat /\ sent < s
  BY <1>0
<1>4. A = R \cup Lines!Anchor(R)
  BY DEF Window
<1> HIDE DEF hi, lo, A
<1>5. \A m \in Messages : lo <= m /\ m <= hi => m \in A
  <2>1. SUFFICES ASSUME NEW m \in Messages, lo <= m, m <= hi, m \notin R PROVE m \in A
    BY <1>4
  <2>2. m \in Nat /\ m <= sent
    BY <1>0, <1>1, <2>1
  <2>3. lo \in Nat /\ lo <= sent
    BY <1>0, <1>1, <2>1, <2>2
  <2>4. lo \in Lines!Anchor(R)
    <3>1. lo \notin R
      BY <1>0, <1>3, <2>3
    <3> QED
      BY <1>1, <1>4, <3>1
  <2>5. PICK d \in R \cap Durations : Nearest(Messages, d) = lo
    BY <1>2, <2>4 DEF IsAnchor
  <2>6. d \in Nat /\ sent < d
    BY <1>3
  <2>7. NearestIs(Messages, d, lo)
    BY <1>0, <2>5, <2>6, NearestFact
  <2>8. m <= lo
    <3>1. m <= d
      BY <1>0, <2>2, <2>6
    <3> QED
      BY <2>3, <2>7, <3>1 DEF NearestIs
  <2>9. m = lo
    BY <2>1, <2>2, <2>3, <2>8
  <2> QED
    BY <1>1, <2>9
<1>6. \A d \in A \cap Durations : Nearest(Messages, d) \in A \/ Nearest(Messages, d) = -1
  <2>1. \A d \in A \cap Durations : d \in R
    <3>1. Messages \cap Durations = {}
      BY RowFacts DEF LinesTypes
    <3> QED
      BY <1>2, <1>4, <3>1 DEF IsAnchor
  <2> QED
    BY <1>2, <1>4, <2>1
<1>7. \A d \in Durations : d <= hi /\ Nearest(Messages, d) \in A => d \in A
  <2>1. SUFFICES ASSUME NEW d \in Durations, d <= hi, Nearest(Messages, d) \in A, d \notin R PROVE FALSE
    BY <1>4
  <2> DEFINE k == Nearest(Messages, d)
  <2>2. d \in Nat /\ d <= sent
    <3>1. d \in Nat /\ d \in Lines!Rows
      BY <1>0
    <3> QED
      BY <1>0, <1>1, <2>1, <3>1
  <2>3. NearestIs(Messages, d, k)
    BY <1>0, <2>2, NearestFact
  <2>4. k \in A
    BY <2>1
  <2> HIDE DEF k
  <2>5. k \in Nat /\ k <= d
    <3>1. k \in Nat
      BY <1>1, <2>4
    <3> QED
      BY <2>3, <3>1 DEF NearestIs
  <2>6. k \in Lines!Anchor(R)
    <3>1. k \notin R
      BY <1>0, <1>3, <2>2, <2>5
    <3> QED
      BY <1>4, <2>4, <3>1
  <2>7. PICK x \in R \cap Durations : Nearest(Messages, x) = k
    BY <1>2, <2>6 DEF IsAnchor
  <2>8. x \in Nat /\ sent < x
    BY <1>3
  <2>9. d < x
    BY <1>0, <2>2, <2>8
  <2>10. d < k
    BY <2>7, <2>9 DEF OneBadge
  <2> QED
    BY <2>2, <2>5, <2>10
<1>8. Lines!Visible(A, sent + 1) = SpawnedIn(A)
  <2>1. ASSUME NEW c \in Lines!Visible(A, sent + 1) PROVE c \in SpawnedIn(A)
    <3>1. c \in Children /\ fork[c] \in Messages /\ fork[c] \in Nat /\ fork[c] \in Lines!Rows
      <4>1. c \in Children /\ fork[c] \in Messages
        BY DEF LinesTypes, Lines!Visible, Lines!NotYet
      <4> QED
        BY <1>0, <4>1
    <3>2. CASE fork[c] \in A
      BY <3>1, <3>2 DEF SpawnedIn
    <3>3. CASE A # {} /\ sent + 1 <= fork[c] /\ fork[c] <= Lines!Max(A)
      <4> DEFINE k == Lines!Max(A)
      <4>1. k \in A
        <5>1. A \in SUBSET Nat /\ hi + 1 \in Nat /\ \A s \in A : s < hi + 1
          BY <1>1
        <5>2. Max(A) \in A
          BY <3>3, <5>1, MaxFact
        <5> QED
          BY <5>2, LinesMax
      <4>2. fork[c] <= k /\ sent + 1 <= fork[c]
        BY <3>3
      <4> HIDE DEF k
      <4>3. k \in Nat /\ k <= hi
        BY <1>1, <4>1
      <4>4. sent < fork[c] /\ fork[c] <= hi
        BY <1>0, <1>1, <3>1, <4>2, <4>3
      <4>5. fork[c] \in A
        BY <1>1, <1>4, <3>1, <4>4
      <4> QED
        BY <3>1, <4>5 DEF SpawnedIn
    <3> QED
      BY <3>2, <3>3 DEF Lines!Visible
  <2>2. ASSUME NEW c \in SpawnedIn(A) PROVE c \in Lines!Visible(A, sent + 1)
    <3>1. c \in Children /\ fork[c] \in A /\ fork[c] \in Nat
      BY <1>1 DEF SpawnedIn
    <3>2. fork[c] # -2
      BY <3>1
    <3> QED
      BY <3>1, <3>2 DEF Lines!Visible, Lines!NotYet
  <2> QED
    BY <2>1, <2>2
<1>9. WindowAt(A, lo, hi)
  BY <1>1, <1>5, <1>6, <1>7 DEF WindowAt
<1> QED
  BY <1>8, <1>9 DEF A, lo, hi

\* What a page sends: the items of its window, at the revision of their rows or, when
\* they are older than the page, of its last.
EnvelopeOf(i, u) == [item |-> i, revision |-> IF i.seq < sent + 1 THEN u ELSE i.seq]

LEMMA EnvelopesAre ==
  ASSUME LinesTypes, OneBadge, NEW to \in Int, NEW R, R = {s \in Lines!Rows : sent < s /\ s <= to}, R # {}
  PROVE  Lines!Envelopes(R, sent + 1) = {EnvelopeOf(i, Lines!Max(R)) : i \in ItemsOf(Window(R), Lines!Max(R))}
<1> DEFINE lo == Lines!Min(Window(R))
<1>1. lo \in Nat /\ Lines!Max(R) \in Int /\ Window(R) \in SUBSET Lines!Rows
  BY LinesPageFacts
<1>2. Lines!Cardinality({m \in Lines!OfKind(Lines!Rows, "turn") : m < lo}) = Cardinality({m \in Messages : m < lo})
  BY LinesCardinality DEF Messages
<1>3. row \in Seq(Lines!Kinds)
  BY DEF LinesTypes
<1>4. Lines!Project(Window(R), sent + 1, Cardinality({m \in Messages : m < lo})) = ItemsOf(Window(R), Lines!Max(R))
  <2>1. WindowAt(Window(R), lo, Lines!Max(R)) /\ Lines!Visible(Window(R), sent + 1) = SpawnedIn(Window(R))
    BY PageIsWindow
  <2> HIDE DEF lo
  <2> QED
    BY <1>1, <1>3, <2>1, WindowIs
<1> QED
  BY <1>2, <1>4, Zenon DEF Lines!Envelopes, EnvelopeOf, Window

\* An item names a row of the window it was projected from.
LEMMA LinesItemFacts ==
  ASSUME NEW A \in SUBSET Nat, NEW u, NEW i \in ItemsOf(A, u)
  PROVE  /\ i.seq \in A
         /\ \A s : i.id = <<"message", s>> => s \in A
         /\ \A s : i.id = <<"meta", s>> => s \in A
         /\ \A s, c : c \in Children /\ i.id = <<c, s>> => s \in A
<1>1. CASE \E m \in A \cap Messages : i = MessageItem(Messages, Durations, u, m, Spawned(m))
  <2>1. PICK m \in A \cap Messages : i = MessageItem(Messages, Durations, u, m, Spawned(m))
    BY <1>1
  <2>2. i.id = <<"message", m>> /\ i.seq = m
    BY <2>1 DEF MessageItem
  <2> QED
    BY <2>2
<1>2. CASE \E s \in A \cap Metas : i = PlainItem(Messages, <<"meta", s>>, s)
  <2>1. PICK m \in A \cap Metas : i = PlainItem(Messages, <<"meta", m>>, m)
    BY <1>2
  <2>2. i.id = <<"meta", m>> /\ i.seq = m
    BY <2>1 DEF PlainItem
  <2> QED
    BY <2>2
<1>3. CASE \E c \in SpawnedIn(A) : i = PlainItem(Messages, <<c, fork[c]>>, fork[c])
  <2>1. PICK x \in SpawnedIn(A) : i = PlainItem(Messages, <<x, fork[x]>>, fork[x])
    BY <1>3
  <2>2. i.id = <<x, fork[x]>> /\ i.seq = fork[x] /\ fork[x] \in A
    BY <2>1 DEF PlainItem, SpawnedIn
  <2> QED
    BY <2>2
<1> QED
  BY <1>1, <1>2, <1>3 DEF ItemsOf

LEMMA LinesPageOf ==
  ASSUME LinesInv, NEW to \in Int, NEW R, R = {s \in Lines!Rows : sent < s /\ s <= to}, R # {},
         view' = Lines!Upsert(view, Lines!Envelopes(R, sent + 1)), sent' = Lines!Max(R),
         UNCHANGED <<row, fork, early>>
  PROVE  LinesInv'
<1>0. LinesTypes /\ OneBadge /\ HeldRules /\ Complete
  BY DEF LinesInv
<1> DEFINE hi == Lines!Max(R)
           A == Window(R)
           new == Lines!Envelopes(R, sent + 1)
<1>3. /\ hi \in R /\ hi \in Nat /\ sent < hi
      /\ \A s \in A : s \in Nat /\ s <= hi
      /\ \A s \in Lines!Rows : sent < s /\ s <= hi => s \in R
      /\ A \in SUBSET Lines!Rows
  BY <1>0, LinesPageFacts
<1>4. new = {EnvelopeOf(i, hi) : i \in ItemsOf(A, hi)}
  BY <1>0, EnvelopesAre
<1>5. sent' = hi /\ view' = Lines!Upsert(view, new) /\ row' = row /\ fork' = fork /\ early' = early
  OBVIOUS
<1>6. /\ Messages \in SUBSET Lines!Rows /\ Lines!Rows \in SUBSET Nat /\ sent \in Int /\ -1 <= sent
      /\ Messages \in SUBSET Nat /\ Durations \in SUBSET Nat /\ Durations \in SUBSET Lines!Rows
      /\ Metas \in SUBSET Nat /\ Metas \in SUBSET Lines!Rows
      /\ Len(row) \in Nat /\ \A s \in Lines!Rows : s < Len(row)
      /\ A \in SUBSET Nat
  BY <1>0, <1>3, RowFacts DEF LinesTypes
<1>7. \A s \in R : s \in A
  BY DEF Window
<1>8. \A d \in Durations : sent < d /\ d <= hi => Nearest(Messages, d) \in A \/ Nearest(Messages, d) = -1
  <2>1. \A d \in R \cap Durations : Nearest(Messages, d) \in R \cup Lines!Anchor(R) \/ Nearest(Messages, d) = -1
    BY <1>0, AnchorFact
  <2> QED
    BY <1>3, <1>6, <2>1 DEF Window
<1>9. Messages' = Messages /\ Durations' = Durations /\ Metas' = Metas
  BY <1>5 DEF Messages, Durations, Metas, Lines!OfKind, Lines!Rows, Lines!Seqs
<1> HIDE DEF hi, A, new
\* A row sent before that is not in the window keeps its item, one in the window has a new one.
<1>10. \A m \in Messages : m <= sent /\ m \notin A =>
         BadgesOf(Messages, Durations, hi, m) = BadgesOf(Messages, Durations, sent, m)
  <2>1. ASSUME NEW m \in Messages, m <= sent, m \notin A
        PROVE  BadgesOf(Messages, Durations, hi, m) = BadgesOf(Messages, Durations, sent, m)
    <3>1. ASSUME NEW d \in Durations, d <= hi, Nearest(Messages, d) = m PROVE d <= sent
      <4>1. m # -1 /\ d \in Nat
        BY <1>6
      <4> QED
        BY <1>6, <1>8, <2>1, <3>1, <4>1
    <3>2. ASSUME NEW d \in Durations, d <= sent PROVE d <= hi
      <4>1. d \in Nat
        BY <1>6
      <4> QED
        BY <1>3, <1>6, <3>2, <4>1
    <3> QED
      BY <3>1, <3>2 DEF BadgesOf
  <2> QED
    BY <2>1
<1>11. \A s \in Lines!Rows : s <= hi => s \in A \/ s <= sent
  <2>1. ASSUME NEW s \in Lines!Rows, s <= hi, s \notin A PROVE s <= sent
    <3>1. s \in Nat
      BY <1>6
    <3> QED
      BY <1>3, <1>6, <1>7, <2>1, <3>1
  <2> QED
    BY <2>1
<1>12. \A e \in view' : e \in new \/ (e \in view /\ \A n \in new : n.item.id = e.item.id => n.revision < e.revision)
  BY <1>5 DEF Lines!Upsert
<1>13. \A n \in new : n \in view'
  BY <1>5 DEF Lines!Upsert
<1>14. \A e \in view : (\A n \in new : n.item.id # e.item.id) => e \in view'
  BY <1>5 DEF Lines!Upsert
<1>15. LinesTypes'
  <2>1. sent' \in Int /\ -1 <= sent' /\ sent' < Len(row')
    <3>1. hi \in Lines!Rows
      BY <1>3
    <3> QED
      BY <1>3, <1>5, <1>6, <3>1
  <2> QED
    BY <1>0, <1>5, <1>9, <2>1 DEF LinesTypes
<1>16. OneBadge'
  BY <1>0, <1>9 DEF OneBadge
<1>17. ASSUME NEW i \in ItemsOf(A, hi) PROVE HeldItem(i)'
  <2>1. CASE \E m \in A \cap Messages : i = MessageItem(Messages, Durations, hi, m, Spawned(m))
    <3>1. PICK m \in A \cap Messages : i = MessageItem(Messages, Durations, hi, m, Spawned(m))
      BY <2>1
    <3>2. (Spawned(m))' = Spawned(m)
      BY <1>5 DEF Spawned
    <3>3. HeldMessage(i, m)'
      BY <1>5, <1>9, <3>1, <3>2 DEF HeldMessage
    <3>4. m <= hi
      BY <1>3
    <3> QED
      BY <1>5, <1>9, <3>3, <3>4 DEF HeldItem
  <2>2. CASE \E s \in A \cap Metas : i = PlainItem(Messages, <<"meta", s>>, s)
    BY <1>3, <1>5, <1>9, <2>2 DEF HeldItem
  <2>3. CASE \E c \in SpawnedIn(A) : i = PlainItem(Messages, <<c, fork[c]>>, fork[c])
    BY <1>3, <1>5, <1>9, <2>3 DEF HeldItem, SpawnedIn
  <2> QED
    BY <2>1, <2>2, <2>3 DEF ItemsOf
<1>18. ASSUME NEW e \in view, \A n \in new : n.item.id = e.item.id => n.revision < e.revision
       PROVE  HeldItem(e.item)'
  <2>0. HeldItem(e.item) /\ e.revision \in Int /\ e.revision <= sent
    BY <1>0 DEF HeldRules
  <2>1. CASE \E m \in Messages : m <= sent /\ HeldMessage(e.item, m)
    <3>1. PICK m \in Messages : m <= sent /\ HeldMessage(e.item, m)
      BY <2>1
    <3>2. PICK refs \in SUBSET Spawned(m) : e.item = MessageItem(Messages, Durations, sent, m, refs)
      BY <3>1 DEF HeldMessage
    <3>3. m \notin A
      <4>1. SUFFICES ASSUME m \in A PROVE FALSE
        OBVIOUS
      <4> DEFINE i == MessageItem(Messages, Durations, hi, m, Spawned(m))
      <4>2. i \in ItemsOf(A, hi)
        BY <4>1 DEF ItemsOf
      <4>3. EnvelopeOf(i, hi) \in new
        BY <1>4, <4>2
      <4>4. i.id = e.item.id /\ i.seq = m
        BY <3>2 DEF MessageItem
      <4> HIDE DEF i
      <4>5. m < sent + 1
        BY <1>6, <3>1
      <4>6. EnvelopeOf(i, hi).item = i /\ EnvelopeOf(i, hi).revision = hi
        BY <4>4, <4>5 DEF EnvelopeOf
      <4>7. hi < e.revision
        BY <1>18, <4>3, <4>4, <4>6
      <4> QED
        BY <1>3, <1>6, <2>0, <4>7
    <3>4. e.item = MessageItem(Messages, Durations, hi, m, refs)
      BY <1>10, <3>1, <3>2, <3>3 DEF MessageItem
    <3>5. (Spawned(m))' = Spawned(m)
      BY <1>5 DEF Spawned
    <3>6. HeldMessage(e.item, m)'
      BY <1>5, <1>9, <3>4, <3>5 DEF HeldMessage
    <3>7. m <= hi
      <4>1. m \in Nat
        BY <1>6
      <4> QED
        BY <1>3, <1>6, <3>1, <4>1
    <3> QED
      BY <1>5, <1>9, <3>6, <3>7 DEF HeldItem
  <2>2. CASE \E s \in Metas : s <= sent /\ e.item = PlainItem(Messages, <<"meta", s>>, s)
    <3>1. PICK s \in Metas : s <= sent /\ e.item = PlainItem(Messages, <<"meta", s>>, s)
      BY <2>2
    <3>2. s <= hi
      <4>1. s \in Nat
        BY <1>6
      <4> QED
        BY <1>3, <1>6, <3>1, <4>1
    <3> QED
      BY <1>5, <1>9, <3>1, <3>2 DEF HeldItem
  <2>3. CASE \E c \in Children : fork[c] \in Messages /\ fork[c] <= sent /\ e.item = PlainItem(Messages, <<c, fork[c]>>, fork[c])
    <3>1. PICK c \in Children : fork[c] \in Messages /\ fork[c] <= sent /\ e.item = PlainItem(Messages, <<c, fork[c]>>, fork[c])
      BY <2>3
    <3>2. fork[c] <= hi
      <4>1. fork[c] \in Nat
        BY <1>6, <3>1
      <4> QED
        BY <1>3, <1>6, <3>1, <4>1
    <3> QED
      BY <1>5, <1>9, <3>1, <3>2 DEF HeldItem
  <2> QED
    BY <2>0, <2>1, <2>2, <2>3 DEF HeldItem
<1>19. ASSUME NEW i \in ItemsOf(A, hi)
       PROVE  /\ EnvelopeOf(i, hi) \in new /\ EnvelopeOf(i, hi).item = i
              /\ EnvelopeOf(i, hi).revision \in Int /\ EnvelopeOf(i, hi).revision <= hi
  <2>1. i.seq \in Nat /\ i.seq <= hi
    BY <1>3, <1>6, LinesItemFacts
  <2> QED
    BY <1>3, <1>4, <2>1 DEF EnvelopeOf
<1>20. HeldRules'
  <2>1. ASSUME NEW e \in view' PROVE e.revision \in Int /\ e.revision <= hi /\ HeldItem(e.item)'
    <3>1. CASE e \in new
      <4>1. PICK i \in ItemsOf(A, hi) : e = EnvelopeOf(i, hi)
        BY <1>4, <3>1
      <4> QED
        BY <1>17, <1>19, <4>1
    <3>2. CASE e \in view /\ \A n \in new : n.item.id = e.item.id => n.revision < e.revision
      <4>1. e.revision \in Int /\ e.revision <= sent
        BY <1>0, <3>2 DEF HeldRules
      <4>2. e.revision <= hi
        BY <1>3, <1>6, <4>1
      <4> QED
        BY <1>18, <3>2, <4>1, <4>2
    <3> QED
      BY <1>12, <3>1, <3>2
  <2> QED
    BY <1>5, <2>1 DEF HeldRules
<1>22. ASSUME NEW id, NEW refs, Holds(id, refs), \A i \in ItemsOf(A, hi) : i.id # id
       PROVE  \E e \in view' : e.item.id = id /\ refs \subseteq e.item.refs
  <2>1. PICK e \in view : e.item.id = id /\ refs \subseteq e.item.refs
    BY <1>22 DEF Holds
  <2>2. \A n \in new : n.item.id # id
    <3>1. ASSUME NEW n \in new PROVE n.item.id # id
      <4>1. PICK i \in ItemsOf(A, hi) : n = EnvelopeOf(i, hi)
        BY <1>4
      <4> QED
        BY <1>19, <1>22, <4>1
    <3> QED
      BY <3>1
  <2> QED
    BY <1>14, <2>1, <2>2
<1>23. \A i \in ItemsOf(A, hi) :
         /\ \A s : i.id = <<"message", s>> => s \in A
         /\ \A s : i.id = <<"meta", s>> => s \in A
         /\ \A s, c : c \in Children /\ i.id = <<c, s>> => s \in A
  BY <1>6, LinesItemFacts
<1>24. Complete'
  <2>1. ASSUME NEW m \in Messages, m <= hi
        PROVE  \E e \in view' : e.item.id = <<"message", m>> /\ Spawned(m) \cap early \subseteq e.item.refs
    <3>1. CASE m \in A
      <4> DEFINE i == MessageItem(Messages, Durations, hi, m, Spawned(m))
      <4>1. i \in ItemsOf(A, hi)
        BY <3>1 DEF ItemsOf
      <4>2. i.id = <<"message", m>> /\ Spawned(m) \cap early \subseteq i.refs
        BY DEF MessageItem
      <4> HIDE DEF i
      <4>3. EnvelopeOf(i, hi) \in view' /\ EnvelopeOf(i, hi).item = i
        BY <1>13, <1>19, <4>1
      <4> QED
        BY <4>2, <4>3
    <3>2. CASE m \notin A
      <4>1. m <= sent
        BY <1>6, <1>11, <2>1, <3>2
      <4>2. Holds(<<"message", m>>, Spawned(m) \cap early)
        BY <1>0, <4>1 DEF Complete
      <4>3. \A i \in ItemsOf(A, hi) : i.id # <<"message", m>>
        BY <1>23, <3>2
      <4> QED
        BY <1>22, <4>2, <4>3
    <3> QED
      BY <3>1, <3>2
  <2>2. ASSUME NEW s \in Metas, s <= hi
        PROVE  \E e \in view' : e.item.id = <<"meta", s>> /\ {} \subseteq e.item.refs
    <3>1. CASE s \in A
      <4> DEFINE i == PlainItem(Messages, <<"meta", s>>, s)
      <4>1. i \in ItemsOf(A, hi)
        BY <3>1 DEF ItemsOf
      <4>2. i.id = <<"meta", s>>
        BY DEF PlainItem
      <4> HIDE DEF i
      <4>3. EnvelopeOf(i, hi) \in view' /\ EnvelopeOf(i, hi).item = i
        BY <1>13, <1>19, <4>1
      <4> QED
        BY <4>2, <4>3
    <3>2. CASE s \notin A
      <4>1. s <= sent
        BY <1>6, <1>11, <2>2, <3>2
      <4>2. Holds(<<"meta", s>>, {})
        BY <1>0, <4>1 DEF Complete
      <4>3. \A i \in ItemsOf(A, hi) : i.id # <<"meta", s>>
        BY <1>23, <3>2
      <4> QED
        BY <1>22, <4>2, <4>3
    <3> QED
      BY <3>1, <3>2
  <2>3. ASSUME NEW c \in early, fork[c] <= hi
        PROVE  \E e \in view' : e.item.id = <<c, fork[c]>> /\ {} \subseteq e.item.refs
    <3>0. c \in Children /\ fork[c] \in Messages
      BY <1>0 DEF LinesTypes
    <3>1. CASE fork[c] \in A
      <4> DEFINE i == PlainItem(Messages, <<c, fork[c]>>, fork[c])
      <4>1. i \in ItemsOf(A, hi)
        BY <3>0, <3>1 DEF ItemsOf, SpawnedIn
      <4>2. i.id = <<c, fork[c]>>
        BY DEF PlainItem
      <4> HIDE DEF i
      <4>3. EnvelopeOf(i, hi) \in view' /\ EnvelopeOf(i, hi).item = i
        BY <1>13, <1>19, <4>1
      <4> QED
        BY <4>2, <4>3
    <3>2. CASE fork[c] \notin A
      <4>1. fork[c] <= sent
        BY <1>6, <1>11, <2>3, <3>0, <3>2
      <4>2. Holds(<<c, fork[c]>>, {})
        BY <1>0, <4>1 DEF Complete
      <4>3. \A i \in ItemsOf(A, hi) : i.id # <<c, fork[c]>>
        BY <1>23, <3>0, <3>2
      <4> QED
        BY <1>22, <4>2, <4>3
    <3> QED
      BY <3>1, <3>2
  <2>4. \A m : (Spawned(m))' = Spawned(m)
    BY <1>5 DEF Spawned
  <2>5. \A m \in Messages' : m <= sent' => Holds(<<"message", m>>, Spawned(m) \cap early)'
    <3>1. \A m \in Messages : m <= hi =>
            \E e \in view' : e.item.id = <<"message", m>> /\ (Spawned(m))' \cap early' \subseteq e.item.refs
      BY <1>5, <2>1, <2>4
    <3> QED
      BY <1>5, <1>9, <3>1 DEF Holds
  <2>6. \A s \in Metas' : s <= sent' => Holds(<<"meta", s>>, {})'
    BY <1>5, <1>9, <2>2 DEF Holds
  <2>7. \A c \in early' : fork'[c] <= sent' => Holds(<<c, fork[c]>>, {})'
    BY <1>5, <2>3 DEF Holds
  <2> QED
    BY <2>5, <2>6, <2>7 DEF Complete
<1> QED
  BY <1>15, <1>16, <1>20, <1>24 DEF LinesInv

LEMMA LinesPage ==
  ASSUME LinesInv, Lines!Page
  PROVE  LinesInv'
<1>1. PICK to \in (sent + 1)..(Len(row) - 1) :
        \E R \in {{s \in Lines!Rows : sent < s /\ s <= to}} :
          /\ R # {}
          /\ view' = Lines!Upsert(view, Lines!Envelopes(R, sent + 1))
          /\ sent' = Lines!Max(R)
          /\ UNCHANGED <<row, fork, early>>
  BY DEF Lines!Page
<1>2. to \in Int
  BY <1>1
<1>3. PICK R : /\ R = {s \in Lines!Rows : sent < s /\ s <= to} /\ R # {}
               /\ view' = Lines!Upsert(view, Lines!Envelopes(R, sent + 1))
               /\ sent' = Lines!Max(R)
               /\ UNCHANGED <<row, fork, early>>
  BY <1>1
<1> QED
  BY <1>2, <1>3, LinesPageOf

LEMMA LinesInductive == LinesInv /\ [Lines!Next]_(Lines!vars) => LinesInv'
<1> SUFFICES ASSUME LinesInv, [Lines!Next]_(Lines!vars) PROVE LinesInv'
  OBVIOUS
<1>1. CASE UNCHANGED Lines!vars
  <2>1. row' = row /\ fork' = fork /\ sent' = sent /\ view' = view /\ early' = early
    BY <1>1 DEF Lines!vars
  <2>2. Messages' = Messages /\ Durations' = Durations /\ Metas' = Metas
    BY <2>1 DEF Messages, Durations, Metas, Lines!OfKind, Lines!Rows, Lines!Seqs
  <2> QED
    BY <2>1, <2>2 DEF LinesInv, LinesTypes, OneBadge, HeldRules, HeldItem, HeldMessage, Complete, Holds, Spawned
<1>2. CASE \E kind \in Lines!Kinds : Lines!Store(kind)
  BY <1>2, LinesStore
<1>3. CASE \E c \in Children : Lines!Spawn(c)
  BY <1>3, LinesSpawn
<1>4. CASE Lines!Page
  BY <1>4, LinesPage
<1> QED
  BY <1>1, <1>2, <1>3, <1>4 DEF Lines!Next

\* StreamedIsBacklog of Timeline: whatever pages a session was cut into, the consumer of the
\* stream holds the items, turn numbers and durations that the timeline of all that was sent
\* shows, and the subagents known in time (session/timeline_stream.py, api/v1/session_routes.py).
THEOREM TimelineTheorem == Lines!Spec => []StreamedIsBacklog
<1>1. Lines!Init => LinesInv
  BY LinesInitHolds
<1>2. LinesInv /\ [Lines!Next]_(Lines!vars) => LinesInv'
  BY LinesInductive
<1> QED
  BY <1>1, <1>2, LinesMeansBacklog, PTL DEF Lines!Spec
=============================================================================
