------------------------ MODULE ConnectorCallsProofs ------------------------
(***************************************************************************)
(* Proofs about ConnectorCalls, for any number of tables and of failures.  *)
(* They rest on the state a connection can be in when a call is made on it *)
(* and nothing has failed by itself yet in the table at hand.              *)
(***************************************************************************)
EXTENDS ConnectorCalls, TLAPS

Calls == SourceCalls \cup TargetCalls
Links == {"closed", "ready", "aborted", "dead"}

CallType ==
  /\ setup \in [source : Kinds, target : Kinds, mode : Modes]
  /\ link \in [Sides -> Links]
  /\ at \in Opening \cup Calls \cup {"over", "no connection"}
  /\ now \in Numbers
  /\ tries \in Nat
  /\ order \in [Numbers -> {"unknown", "key", "column", "nothing"}]
  /\ log \in [Numbers -> {"none", "running", "failed", "completed", "no log"}]
  /\ cause \in [Numbers -> SUBSET (Calls \cup {"lost"})]
  /\ faults \in Nat

\* Connections are open before the first call, are dead only if one was lost,
\* and only those of PostgreSQL have aborted transactions.
LinksInv ==
  /\ at \in {"probe source", "probe target", "connect source"} =>
       \A s \in Sides : link[s] = "closed"
  /\ at = "connect target" => link["source"] = "ready" /\ link["target"] = "closed"
  /\ at \in Calls => \A s \in Sides : link[s] # "closed"
  /\ ~ Lost => \A s \in Sides : link[s] # "dead"
  /\ \A s \in Sides : link[s] = "aborted" => setup[s] = "postgres"

\* Nothing is known of tables to come, nor decided of the one at hand.
AheadInv ==
  /\ \A i \in Numbers : i > now =>
       cause[i] = {} /\ log[i] = "none" /\ order[i] = "unknown"
  /\ at \in Opening \cup Calls => ~ Failed(now) /\ log[now] # "completed"
  /\ at \in Opening => \A i \in Numbers : cause[i] = {} /\ order[i] = "unknown"

\* The first call on either side has put right what an earlier table has left,
\* but a full sync may come to the key before.
Prepared ==
  /\ at \notin {"validate", "exists"} => link["target"] = "ready"
  /\ setup.mode = "incremental" /\ at # "validate" => link["source"] = "ready"

CleanInv ==
  at \in Calls /\ ~ Lost /\ cause[now] = {} =>
    /\ Prepared
    /\ setup.mode = "full" /\ at \in {"first", "fetch", "insert"} =>
         link["source"] = "ready"
    /\ order[now] = "nothing" => setup.source = "postgres"

\* Each attempt but the last has failed.
HealInv ==
  at \in Calls /\ ~ Lost /\ setup.mode = "incremental" /\ cause[now] \subseteq GotOver =>
    Prepared /\ tries <= faults /\ order[now] # "nothing"

ModeInv ==
  at \in Calls =>
    /\ at = "validate" => setup.mode = "incremental"
    /\ at = "truncate" => setup.mode = "full"
    /\ at = "first" => setup.mode = "full"

CallInv ==
  /\ CallType /\ LinksInv /\ AheadInv /\ CleanInv /\ HealInv /\ ModeInv
  /\ FailsAlone /\ RetriesHeal

----------------------------------------------------------------------------
(* What one call may come to.                                              *)

LEMMA StatementFacts ==
  ASSUME NEW kind \in Kinds, NEW l \in Links, NEW r \in Statement(kind, l)
  PROVE  /\ r \in [ok : BOOLEAN, link : Links, new : {0, 1}]
         /\ l = "ready" /\ ~ r.ok => r.new = 1
         /\ r.ok => r.link = "ready" /\ l = "ready"
         /\ r.link = "aborted" => kind = "postgres" \/ l = "aborted"
         /\ r.link = "dead" => l = "dead" \/ r.new = 1
         /\ r.link = "closed" => l = "closed"
         /\ l = "dead" => r.link = "dead"
         /\ r.ok \/ l # "ready" => r.new = 0
  <1>1. CASE l = "ready"
    <2>1. \/ r = [ok |-> TRUE, link |-> "ready", new |-> 0]
          \/ r = [ok |-> FALSE, link |-> "dead", new |-> 1]
          \/ r = [ok |-> FALSE, link |-> "ready", new |-> 1]
          \/ r = [ok |-> FALSE, link |-> "aborted", new |-> 1] /\ kind = "postgres"
      BY <1>1 DEF Statement
    <2>2. CASE r = [ok |-> TRUE, link |-> "ready", new |-> 0]
      BY <1>1, <2>2 DEF Links
    <2>3. CASE r = [ok |-> FALSE, link |-> "dead", new |-> 1]
      BY <1>1, <2>3 DEF Links
    <2>4. CASE r = [ok |-> FALSE, link |-> "ready", new |-> 1]
      BY <1>1, <2>4 DEF Links
    <2>5. CASE r = [ok |-> FALSE, link |-> "aborted", new |-> 1] /\ kind = "postgres"
      BY <1>1, <2>5 DEF Links
    <2>6. QED
      BY <2>1, <2>2, <2>3, <2>4, <2>5
  <1>2. CASE l # "ready"
    <2>1. r = [ok |-> FALSE, link |-> l, new |-> 0]
      BY <1>2 DEF Statement
    <2>2. QED
      BY <1>2, <2>1
  <1>3. QED
    BY <1>1, <1>2

\* The calls that start by putting an aborted transaction right.
Healing == {"exists", "validate", "describe", "first", "columns"}

ResultOf(kind, call, l, r) ==
  /\ r.ok \in BOOLEAN /\ r.new \in 0..2 /\ r.link \in Links
  /\ r.ok => r.link = "ready"
  /\ l = "dead" => ~ r.ok /\ r.link = "dead"
  /\ r.ok /\ call # "exists" => r.new = 0
  /\ ~ r.ok /\ r.new = 0 =>
       l \in {"closed", "dead"} \/ (l = "aborted" /\ call \notin Healing)
  /\ r.link = "aborted" => kind = "postgres" \/ l = "aborted"
  /\ r.link = "dead" => l = "dead" \/ r.new > 0
  /\ r.link = "closed" => l = "closed"
  /\ call \in {"insert", "create"} /\ l = "ready" => r.link # "aborted"

LEMMA ResultFacts ==
  ASSUME NEW kind \in Kinds, NEW call \in Calls, NEW l \in Links,
         l = "aborted" => kind = "postgres",
         NEW r \in Results(kind, call, l)
  PROVE  ResultOf(kind, call, l, r)
  <1>1. PICK s \in Statement(kind, l) :
          r \in IF s.ok THEN {s}
                ELSE IF TriesAgain(kind, call, l)
                  THEN {[q EXCEPT !.new = @ + s.new] :
                          q \in Statement(kind, RolledBack(s.link))}
                ELSE IF RollsBack(call) THEN {[s EXCEPT !.link = RolledBack(@)]}
                ELSE {s}
    BY DEF Results
  <1> DEFINE k == RolledBack(s.link)
  <1>2. k \in Links /\ k # "aborted"
    BY StatementFacts DEF RolledBack, Links
  <1>3. CASE s.ok
    BY <1>1, <1>3, StatementFacts DEF ResultOf, Links
  <1>4. CASE ~ s.ok /\ TriesAgain(kind, call, l)
    <2>1. PICK q \in Statement(kind, k) : r = [q EXCEPT !.new = @ + s.new]
      BY <1>1, <1>4
    <2> HIDE DEF k
    <2>q. q \in [ok : BOOLEAN, link : Links, new : {0, 1}]
      BY <1>2, StatementFacts
    <2>2. r.ok = q.ok /\ r.link = q.link /\ r.new = q.new + s.new
      BY <2>1, <2>q
    <2>3. ~ q.ok /\ q.new = 0 => k \in {"closed", "dead"}
      BY <1>2, StatementFacts DEF Links
    <2>4. k \in {"closed", "dead"} => s.link = k
      BY DEF RolledBack, k
    <2>5. s.link \in {"closed", "dead"} => l = s.link \/ s.new = 1
      BY StatementFacts
    <2>6. /\ q.link = "dead" => q.new = 1 \/ k = "dead"
          /\ q.link = "closed" => k = "closed"
          /\ q.link = "aborted" => kind = "postgres"
          /\ q.ok => q.link = "ready"
      BY <1>2, StatementFacts
    <2>7. r.link = "closed" => k = "closed"
      BY <2>2, <2>6
    <2>8. r.link = "aborted" => kind = "postgres"
      BY <2>2, <2>6
    <2>9. call \notin {"insert", "create"}
      BY <1>4 DEF TriesAgain
    <2>10. /\ r.ok \in BOOLEAN /\ r.new \in 0..2 /\ r.link \in Links
           /\ (r.ok => r.link = "ready") /\ q.new \in Nat /\ s.new \in Nat
      <3>1. s.new \in {0, 1}
        BY StatementFacts
      <3>2. QED
        BY <2>2, <2>q, <2>6, <3>1
    <2>11. ~ r.ok /\ r.new = 0 => l \in {"closed", "dead"}
      BY <2>2, <2>3, <2>4, <2>5, <2>10
    <2>12. r.link = "dead" => l = "dead" \/ r.new > 0
      BY <2>2, <2>4, <2>5, <2>6, <2>10
    <2>13. r.link = "closed" => l = "closed"
      BY <2>4, <2>7, StatementFacts
    <2>14. l = "dead" => ~ r.ok /\ r.link = "dead"
      <3>1. l = "dead" => s.link = "dead"
        BY StatementFacts
      <3>2. s.link = "dead" => k = "dead"
        BY DEF RolledBack, k
      <3>3. k = "dead" => q.link = "dead"
        BY <1>2, StatementFacts
      <3>4. QED
        BY <2>2, <2>6, <3>1, <3>2, <3>3
    <2>15. r.ok /\ call # "exists" => r.new = 0
      <3>1. call # "exists" => s.new = 0
        BY <1>4, StatementFacts DEF TriesAgain
      <3>2. q.ok => q.new = 0
        BY <1>2, StatementFacts
      <3>3. QED
        BY <2>2, <3>1, <3>2
    <2>16. QED
      BY <2>8, <2>9, <2>10, <2>11, <2>12, <2>13, <2>14, <2>15 DEF ResultOf
  <1>5. CASE ~ s.ok /\ ~ TriesAgain(kind, call, l)
    <2>1. /\ r.ok = s.ok /\ r.new = s.new
          /\ r.link = s.link \/ r.link = k
          /\ call \in {"insert", "create"} => r.link = k
      BY <1>1, <1>5, StatementFacts DEF RollsBack
    <2>2. l = "aborted" => call \notin Healing
      BY <1>5 DEF TriesAgain, Healing
    <2>3. k \in {"ready", s.link} /\ k # "aborted"
      BY <1>2 DEF RolledBack
    <2>4. l = "dead" => s.link = "dead" /\ k = "dead"
      BY StatementFacts DEF RolledBack
    <2>5. QED
      BY <1>2, <1>5, <2>1, <2>2, <2>3, <2>4, StatementFacts DEF ResultOf, Links
  <1>6. QED
    BY <1>3, <1>4, <1>5

----------------------------------------------------------------------------
(* A call with the result r, as Call makes it.                             *)

Side == SideOf(at)

\* A result that is not an error of its own is due to the state of the link,
\* or to a query that SQL Server refuses.
Outcome(r) ==
  /\ r.ok \in BOOLEAN /\ r.new \in 0..2
  /\ r.link \in Links \ {"closed"}
  /\ r.ok => r.link = "ready"
  /\ link[Side] = "dead" => ~ r.ok /\ r.link = "dead"
  /\ r.ok /\ at # "exists" => r.new = 0
  /\ ~ r.ok /\ r.new = 0 =>
       \/ link[Side] = "dead" \/ Refused
       \/ link[Side] = "aborted" /\ at \notin Healing
  /\ r.link = "aborted" => setup[Side] = "postgres"
  /\ r.link = "dead" => link[Side] = "dead" \/ r.new > 0
  /\ at \in {"insert", "create"} /\ link[Side] = "ready" => r.link # "aborted"

Does(r, next) ==
  /\ faults' = faults + r.new
  /\ link' = [link EXCEPT ![Side] = r.link]
  /\ cause' = [cause EXCEPT ![now] =
       @ \cup (IF r.new > 0 THEN {at} ELSE {})
         \cup (IF r.new > 0 /\ r.link = "dead" THEN {"lost"} ELSE {})]
  /\ order' = [order EXCEPT ![now] = OrderAfter(at, r.ok)]
  /\ IF r.ok THEN next \in NextCalls(at) ELSE next = Recovery(at)
  /\ Goto(next)
  /\ tries' = IF ~ r.ok /\ at' = at /\ at \in {"fetch", "insert"}
                THEN tries + 1 ELSE 0
  /\ UNCHANGED <<setup, exists, keyed>>

LEMMA SideOfCall ==
  ASSUME CallType, at \in Calls
  PROVE  /\ Side \in Sides
         /\ Side = IF at \in SourceCalls THEN "source" ELSE "target"
  BY DEF Side, SideOf, Sides, Calls, SourceCalls, TargetCalls

LEMMA CallDoes ==
  ASSUME CallInv, Call
  PROVE  \E r, next : Outcome(r) /\ Does(r, next)
  <1>1. /\ at \in Calls /\ Side \in Sides
        /\ setup[Side] \in Kinds /\ link[Side] \in Links \ {"closed"}
        /\ link[Side] = "aborted" => setup[Side] = "postgres"
    <2>1. at \in Calls
      BY DEF Call, Calls
    <2>2. QED
      BY <2>1, SideOfCall DEF CallInv, CallType, LinksInv, Sides
  <1>2. PICK r \in IF Refused
                     THEN {[ok |-> FALSE, link |-> link[Side], new |-> 0]}
                     ELSE Results(setup[Side], at, link[Side]) :
          \E next : Does(r, next)
    BY Zenon DEF Call, Does, Side
  <1>3. Outcome(r)
    <2>1. CASE Refused
      <3>1. r = [ok |-> FALSE, link |-> link[Side], new |-> 0]
        BY <1>2, <2>1
      <3>2. r.ok \in BOOLEAN /\ ~ r.ok /\ r.link = link[Side] /\ r.new = 0
        BY <3>1
      <3>3. QED
        BY <1>1, <2>1, <3>2 DEF Outcome, Refused
    <2>2. CASE ~ Refused
      <3>1. ResultOf(setup[Side], at, link[Side], r)
        BY <1>1, <1>2, <2>2, ResultFacts
      <3>2. QED
        BY <1>1, <3>1 DEF ResultOf, Outcome
    <2>3. QED
      BY <2>1, <2>2
  <1>4. QED
    BY <1>2, <1>3

\* The next call is of the same table, or the table has ended.
LEMMA Onward ==
  ASSUME CallType, at \in Calls, ModeInv, NEW ok \in BOOLEAN, NEW next,
         IF ok THEN next \in NextCalls(at) ELSE next = Recovery(at)
  PROVE  /\ next \in Calls \cup Ended
         /\ ok => next \notin {"failed", "no log"}
         /\ next # "validate"
         /\ next = "exists" => ok /\ at = "validate"
         /\ next = "first" => ok /\ at = "key" /\ setup.mode = "full"
         /\ next = "truncate" => setup.mode = "full"
  BY DEF NextCalls, Recovery, SchemaOrNot, Calls, SourceCalls, TargetCalls,
         Ended, ModeInv

LEMMA Moved ==
  ASSUME CallType, NEW next \in Calls \cup Ended, Goto(next)
  PROVE  /\ log' \in [Numbers -> {"none", "running", "failed", "completed", "no log"}]
         /\ \A i \in Numbers \ {now} : log'[i] = log[i]
         /\ \/ /\ next \notin Ended /\ at' = next /\ now' = now
               /\ log'[now] \in {log[now], "running"}
            \/ /\ next \in Ended /\ at' = "over" /\ now' = now
               /\ log'[now] = next
            \/ /\ next \in Ended /\ at' = FirstCall(setup.mode)
               /\ now' = now + 1 /\ now' \in Numbers
               /\ log'[now] = next
  <1> DEFINE n == Len(Tables)
  <1>1. n \in Nat /\ Numbers = 1..n /\ now \in 1..n
    BY TablesAssumption DEF CallType, Numbers
  <1>2. now # n => now + 1 \in Numbers
    <2> HIDE DEF n
    <2>1. QED
      BY <1>1
  <1>3. QED
    BY <1>2 DEF Goto, CallType, Ended

----------------------------------------------------------------------------
(* Each part of the invariant is kept by a call.                           *)

LEMMA NumbersAre == \A i \in Numbers : i \in Nat
  <1> DEFINE n == Len(Tables)
  <1>1. n \in Nat /\ Numbers = 1..n
    BY TablesAssumption DEF Numbers
  <1> HIDE DEF n
  <1>2. QED
    BY <1>1

LEMMA LostStays ==
  ASSUME CallType, at \in Calls, NEW r, NEW next, Does(r, next)
  PROVE  /\ cause' \in [Numbers -> SUBSET (Calls \cup {"lost"})]
         /\ \A i \in Numbers : cause[i] \subseteq cause'[i]
         /\ \A i \in Numbers \ {now} : cause'[i] = cause[i]
         /\ r.new > 0 => at \in cause'[now]
         /\ r.new > 0 /\ r.link = "dead" => "lost" \in cause'[now]
         /\ Lost => Lost'
         /\ now \in Numbers
  <1>1. cause' = [cause EXCEPT ![now] =
          @ \cup (IF r.new > 0 THEN {at} ELSE {})
            \cup (IF r.new > 0 /\ r.link = "dead" THEN {"lost"} ELSE {})]
    BY DEF Does
  <1>2. QED
    BY <1>1 DEF CallType, Lost

LEMMA CallTypeStep ==
  ASSUME CallInv, at \in Calls, NEW r, NEW next, Outcome(r), Does(r, next)
  PROVE  CallType'
  <1>0. CallType /\ ModeInv
    BY DEF CallInv
  <1>1. next \in Calls \cup Ended
    BY <1>0, Onward DEF Outcome, Does
  <1>2. log' \in [Numbers -> {"none", "running", "failed", "completed", "no log"}]
        /\ at' \in Calls \cup {"over"} /\ now' \in Numbers
    BY <1>0, <1>1, Moved DEF CallType, Does, FirstCall, Calls, SourceCalls, TargetCalls, Ended
  <1>3. /\ cause' \in [Numbers -> SUBSET (Calls \cup {"lost"})]
        /\ link' \in [Sides -> Links]
    BY <1>0, LostStays, SideOfCall DEF CallType, Does, Outcome
  <1>4. /\ order' \in [Numbers -> {"unknown", "key", "column", "nothing"}]
        /\ tries' \in Nat /\ faults' \in Nat
    <2>1. OrderAfter(at, r.ok) \in {"unknown", "key", "column", "nothing", order[now]}
      BY DEF OrderAfter
    <2>2. order' = [order EXCEPT ![now] = OrderAfter(at, r.ok)]
      BY DEF Does
    <2>3. faults' = faults + r.new /\ r.new \in 0..2
      BY Zenon DEF Does, Outcome
    <2>4. tries' = tries + 1 \/ tries' = 0
      BY Zenon DEF Does
    <2>5. OrderAfter(at, r.ok) \in {"unknown", "key", "column", "nothing"}
      BY <1>0, <2>1 DEF CallType
    <2>6. order' \in [Numbers -> {"unknown", "key", "column", "nothing"}]
      BY <1>0, <2>2, <2>5 DEF CallType
    <2>7. tries' \in Nat /\ faults' \in Nat
      <3>1. tries \in Nat /\ faults \in Nat
        BY <1>0 DEF CallType
      <3>2. QED
        BY <2>3, <2>4, <3>1
    <2>8. QED
      BY <2>6, <2>7
  <1>5. QED
    BY <1>0, <1>2, <1>3, <1>4 DEF CallType, Does

LEMMA LinksStep ==
  ASSUME CallInv, at \in Calls, NEW r, NEW next, Outcome(r), Does(r, next)
  PROVE  LinksInv'
  <1>1. /\ link' = [link EXCEPT ![Side] = r.link] /\ Side \in Sides
        /\ UNCHANGED setup
    BY SideOfCall DEF Does, CallInv
  <1>2. at' \in Calls \cup {"over"}
    BY Onward, Moved, ZenonT(40)
      DEF CallInv, Outcome, Does, FirstCall, Calls, SourceCalls, TargetCalls, Ended
  <1>3. \A s \in Sides : link'[s] # "closed"
    BY <1>1 DEF CallInv, LinksInv, CallType, Outcome
  <1>4. \A s \in Sides : link'[s] = "aborted" => setup'[s] = "postgres"
    BY <1>1 DEF CallInv, LinksInv, CallType, Outcome
  <1>5. ~ Lost' => \A s \in Sides : link'[s] # "dead"
    <2>1. SUFFICES ASSUME ~ Lost' PROVE \A s \in Sides : link'[s] # "dead"
      OBVIOUS
    <2>2. ~ Lost
      BY <2>1, LostStays DEF CallInv
    <2>3. ~ (r.new > 0 /\ r.link = "dead")
      BY <2>1, LostStays DEF CallInv, Lost
    <2>4. QED
      BY <1>1, <2>2, <2>3 DEF CallInv, LinksInv, CallType, Outcome
  <1>6. QED
    BY <1>2, <1>3, <1>4, <1>5
      DEF LinksInv, Calls, SourceCalls, TargetCalls

LEMMA AheadStep ==
  ASSUME CallInv, at \in Calls, NEW r, NEW next, Outcome(r), Does(r, next)
  PROVE  AheadInv'
  <1>0. CallType /\ AheadInv /\ ModeInv /\ CallType'
    BY CallTypeStep DEF CallInv
  <1>1. next \in Calls \cup Ended /\ Goto(next)
    BY <1>0, Onward DEF Outcome, Does
  <1>2. /\ now \in Nat /\ now' \in {now, now + 1}
        /\ \A i \in Numbers : i \in Nat
        /\ at' \in Calls \cup {"over"}
    BY <1>0, <1>1, Moved, NumbersAre
      DEF CallType, FirstCall, Calls, SourceCalls, TargetCalls, Ended
  <1>3. \A i \in Numbers : i > now =>
          cause'[i] = {} /\ log'[i] = "none" /\ order'[i] = "unknown"
    <2> SUFFICES ASSUME NEW i \in Numbers, i > now
                 PROVE  cause'[i] = {} /\ log'[i] = "none" /\ order'[i] = "unknown"
      OBVIOUS
    <2>1. i # now /\ order'[i] = order[i]
      <3>1. order' = [order EXCEPT ![now] = OrderAfter(at, r.ok)]
        BY DEF Does
      <3>2. i # now
        BY <1>2
      <3>3. QED
        BY <1>0, <3>1, <3>2 DEF CallType
    <2>2. QED
      BY <1>0, <1>1, <2>1, LostStays, Moved DEF AheadInv
  <1>4. \A i \in Numbers : i > now' => i > now
    BY <1>2
  <1>5. ASSUME at' \in Calls
        PROVE  log'[now'] \notin {"failed", "no log", "completed"}
    <2>1. CASE now' = now
      <3>1. log'[now] \in {log[now], "running"}
        <4>1. now' # now + 1 /\ at' # "over"
          BY <1>2, <1>5, <2>1 DEF Calls, SourceCalls, TargetCalls
        <4>2. QED
          BY <1>0, <1>1, <4>1, Moved
      <3>2. log[now] \notin {"failed", "no log", "completed"}
        BY <1>0 DEF AheadInv, Failed
      <3>3. QED
        BY <2>1, <3>1, <3>2
    <2>2. CASE now' = now + 1
      <3>1. now' > now /\ now' \in Numbers
        <4>1. now' > now
          BY <1>2, <2>2
        <4>2. now' \in Numbers
          BY <1>0 DEF CallType
        <4>3. QED
          BY <4>1, <4>2
      <3>2. log'[now'] = "none"
        BY <1>3, <3>1
      <3>3. QED
        BY <3>2
    <2>3. QED
      BY <1>2, <2>1, <2>2
  <1>6. at' \notin Opening
    BY <1>2 DEF Opening, Calls, SourceCalls, TargetCalls
  <1>7. QED
    BY <1>2, <1>3, <1>4, <1>5, <1>6 DEF AheadInv, Failed

\* An error that is not new, in a table that was all right: the key, asked for
\* in a transaction that an earlier table has left aborted.
LEMMA Silent ==
  ASSUME CallInv, at \in Calls, NEW r, NEW next, Outcome(r), Does(r, next),
         ~ Lost, cause[now] = {}, ~ r.ok, r.new = 0
  PROVE  /\ at = "key" /\ next = "columns"
         /\ setup.mode = "full" /\ setup.source = "postgres"
         /\ link["target"] = "ready"
  <1>0. CallType /\ LinksInv /\ ModeInv
    BY DEF CallInv
  <1>1. /\ Prepared
        /\ setup.mode = "full" /\ at \in {"first", "fetch", "insert"} =>
             link["source"] = "ready"
        /\ order[now] = "nothing" => setup.source = "postgres"
    BY DEF CallInv, CleanInv
  <1>2. Side \in Sides /\ Side = IF at \in SourceCalls THEN "source" ELSE "target"
    BY <1>0, SideOfCall
  <1>3. ~ Refused
    BY <1>1 DEF Refused
  <1>4. link[Side] # "dead"
    BY <1>0, <1>2 DEF LinksInv
  <1>5. link[Side] = "aborted" /\ at \notin Healing
    BY <1>3, <1>4 DEF Outcome
  <1>6. Side = "source"
    BY <1>1, <1>2, <1>5 DEF Prepared, Healing, Calls, TargetCalls, SourceCalls
  <1>7. at \in SourceCalls /\ setup.source = "postgres"
    BY <1>0, <1>2, <1>5, <1>6 DEF LinksInv, Sides, SourceCalls
  <1>8. setup.mode \in {"full", "incremental"}
    BY <1>0, ModesAssumption DEF CallType
  <1>9. at = "key" /\ setup.mode = "full"
    BY <1>1, <1>5, <1>6, <1>7, <1>8 DEF Prepared, Healing, SourceCalls
  <1>10. next = "columns"
    BY <1>9 DEF Does, Recovery
  <1>11. QED
    BY <1>1, <1>7, <1>9, <1>10 DEF Prepared

\* In an incremental sync there is none.
LEMMA NoneSilent ==
  ASSUME CallInv, at \in Calls, NEW r, NEW next, Outcome(r), Does(r, next),
         ~ Lost, setup.mode = "incremental", cause[now] \subseteq GotOver, ~ r.ok
  PROVE  r.new > 0
  <1>0. CallType /\ LinksInv /\ ModeInv
    BY DEF CallInv
  <1>1. Prepared /\ order[now] # "nothing"
    BY DEF CallInv, HealInv
  <1>2. Side \in Sides /\ Side = IF at \in SourceCalls THEN "source" ELSE "target"
    BY <1>0, SideOfCall
  <1>3. ~ Refused
    BY <1>1 DEF Refused
  <1>4. link[Side] # "dead"
    BY <1>0, <1>2 DEF LinksInv
  <1>5. link[Side] = "aborted" => at \in Healing
    BY <1>1, <1>2 DEF Prepared, Healing, Calls, TargetCalls, SourceCalls
  <1>6. r.new # 0 /\ r.new \in 0..2
    BY <1>3, <1>4, <1>5 DEF Outcome
  <1>7. QED
    BY <1>6

LEMMA FailsStep ==
  ASSUME CallInv, at \in Calls, NEW r, NEW next, Outcome(r), Does(r, next)
  PROVE  FailsAlone'
  <1>0. CallType /\ AheadInv /\ ModeInv
    BY DEF CallInv
  <1>1. next \in Calls \cup Ended /\ Goto(next)
    BY <1>0, Onward DEF Outcome, Does
  <1>2. SUFFICES ASSUME NEW i \in Numbers, log'[i] \in {"failed", "no log"},
                        ~ Lost', cause'[i] = {}
                 PROVE  FALSE
    BY DEF FailsAlone, Failed
  <1>3. ~ Lost /\ cause[i] = {} /\ (i = now => r.new \in 0..2 /\ ~ (r.new > 0))
    BY <1>0, <1>2, LostStays DEF Outcome
  <1>4. CASE i # now
    BY <1>0, <1>1, <1>2, <1>3, <1>4, Moved DEF CallInv, FailsAlone, Failed
  <1>5. CASE i = now
    <2>1. r.new = 0
      BY <1>3, <1>5
    <2>2. next \in {"failed", "no log"}
      <3>1. log[now] \notin {"failed", "no log"}
        BY <1>0 DEF AheadInv, Failed
      <3>2. QED
        BY <1>0, <1>1, <1>2, <1>5, <3>1, Moved
    <2>3. ~ r.ok
      BY <1>0, <2>2, Onward DEF Outcome, Does
    <2>4. QED
      BY <1>3, <1>5, <2>1, <2>2, <2>3, Silent
  <1>6. QED
    BY <1>4, <1>5

LEMMA ModeStep ==
  ASSUME CallInv, at \in Calls, NEW r, NEW next, Outcome(r), Does(r, next)
  PROVE  ModeInv'
  <1>0. CallType /\ ModeInv
    BY DEF CallInv
  <1>1. next \in Calls \cup Ended /\ Goto(next) /\ UNCHANGED setup
    BY <1>0, Onward DEF Outcome, Does
  <1>2. setup.mode \in {"full", "incremental"}
    BY <1>0, ModesAssumption DEF CallType
  <1>3. CASE at' = next
    BY <1>0, <1>1, <1>3, Onward DEF Outcome, Does, ModeInv
  <1>4. CASE at' = FirstCall(setup.mode)
    BY <1>1, <1>2, <1>4 DEF ModeInv, FirstCall
  <1>5. CASE at' = "over"
    BY <1>5 DEF ModeInv
  <1>6. QED
    BY <1>0, <1>1, <1>3, <1>4, <1>5, Moved

\* The next table starts with nothing known.
LEMMA NextTable ==
  ASSUME CallInv, at \in Calls, NEW r, NEW next, Outcome(r), Does(r, next),
         at' \in Calls, ~ (at' = next /\ now' = now)
  PROVE  /\ at' = FirstCall(setup.mode)
         /\ order'[now'] = "unknown"
  <1>0. CallType /\ ModeInv /\ AheadInv' /\ CallType'
    BY AheadStep, CallTypeStep DEF CallInv
  <1>1. next \in Calls \cup Ended /\ Goto(next)
    BY <1>0, Onward DEF Outcome, Does
  <1>2. at' # "over"
    BY DEF Calls, SourceCalls, TargetCalls
  <1>3. /\ at' = FirstCall(setup.mode) /\ now' = now + 1 /\ now' \in Numbers
    BY <1>0, <1>1, <1>2, Moved
  <1>4. now \in Nat
    BY <1>0, NumbersAre DEF CallType
  <1>5. now' > now
    BY <1>3, <1>4
  <1>6. order[now'] = "unknown" /\ now' # now
    BY <1>3, <1>4, <1>5 DEF CallInv, AheadInv
  <1>7. order' = [order EXCEPT ![now] = OrderAfter(at, r.ok)]
    BY DEF Does
  <1>8. order'[now'] = order[now']
    BY <1>0, <1>3, <1>6, <1>7 DEF CallType
  <1>9. QED
    BY <1>3, <1>6, <1>8

LEMMA CleanStep ==
  ASSUME CallInv, at \in Calls, NEW r, NEW next, Outcome(r), Does(r, next)
  PROVE  CleanInv'
  <1>0. CallType /\ ModeInv /\ UNCHANGED setup
    BY DEF CallInv, Does
  <1>m. setup.mode \in {"full", "incremental"}
    BY <1>0, ModesAssumption DEF CallType
  <1>1. SUFFICES ASSUME at' \in Calls, ~ Lost', cause'[now'] = {}
                 PROVE  /\ Prepared'
                        /\ setup.mode = "full" /\ at' \in {"first", "fetch", "insert"} =>
                             link'["source"] = "ready"
                        /\ order'[now'] = "nothing" => setup.source = "postgres"
    BY <1>0 DEF CleanInv
  <1>2. CASE ~ (at' = next /\ now' = now)
    BY <1>0, <1>1, <1>2, <1>m, NextTable DEF FirstCall, Prepared
  <1>3. CASE at' = next /\ now' = now
    <2>1. ~ Lost /\ cause[now] = {} /\ r.new \in 0..2 /\ ~ (r.new > 0)
      BY <1>0, <1>1, <1>3, LostStays DEF Outcome
    <2>2. r.new = 0
      BY <2>1
    <2>3. /\ Prepared
          /\ setup.mode = "full" /\ at \in {"first", "fetch", "insert"} =>
               link["source"] = "ready"
          /\ order[now] = "nothing" => setup.source = "postgres"
      BY <2>1 DEF CallInv, CleanInv
    <2>4. /\ link' = [link EXCEPT ![Side] = r.link] /\ Side \in Sides
          /\ order' = [order EXCEPT ![now] = OrderAfter(at, r.ok)]
          /\ Side = IF at \in SourceCalls THEN "source" ELSE "target"
      BY <1>0, SideOfCall DEF Does
    <2>5. /\ link'[Side] = r.link
          /\ \A s \in Sides \ {Side} : link'[s] = link[s]
          /\ order'[now] = OrderAfter(at, r.ok)
      BY <1>0, <2>4 DEF CallType
    <2>6. CASE ~ r.ok
      <3>1. /\ at = "key" /\ next = "columns"
            /\ setup.mode = "full" /\ setup.source = "postgres"
            /\ link["target"] = "ready"
        BY <2>1, <2>2, <2>6, Silent
      <3>2. link'["target"] = "ready"
        BY <2>4, <2>5, <3>1 DEF SourceCalls, Sides
      <3>3. QED
        BY <1>0, <1>3, <3>1, <3>2 DEF Prepared
    <2>7. CASE r.ok
      <3>1. link'[Side] = "ready" /\ next \in NextCalls(at)
        BY <2>5, <2>7 DEF Outcome, Does
      <3>2. /\ next # "validate"
            /\ next = "exists" => at = "validate"
            /\ next = "first" => at = "key" /\ setup.mode = "full"
        BY <1>0, <2>7, Onward DEF Outcome, Does
      <3>3. next \in {"fetch", "insert"} /\ setup.mode = "full" =>
              at \in {"columns", "fetch", "insert"}
        BY <1>0, <3>1 DEF NextCalls, SchemaOrNot, Calls, SourceCalls, TargetCalls
      <3>4. next # "exists" => link'["target"] = "ready"
        <4>1. CASE Side = "target"
          BY <3>1, <4>1
        <4>2. CASE Side = "source"
          <5>1. at # "exists"
            BY <2>4, <4>2 DEF SourceCalls
          <5>2. at = "validate" => next = "exists"
            BY <3>1 DEF NextCalls
          <5>3. next # "exists" => link["target"] = "ready"
            BY <2>3, <5>1, <5>2 DEF Prepared
          <5>4. QED
            BY <2>5, <4>2, <5>3 DEF Sides
        <4>3. QED
          BY <2>4, <4>1, <4>2
      <3>5. setup.mode = "incremental" => link'["source"] = "ready"
        <4>1. CASE Side = "source"
          BY <3>1, <4>1
        <4>2. CASE Side = "target"
          <5>1. at # "validate"
            BY <2>4, <4>2 DEF SourceCalls
          <5>2. QED
            BY <2>3, <2>5, <4>2, <5>1 DEF Prepared, Sides
        <4>3. QED
          BY <2>4, <4>1, <4>2
      <3>6. setup.mode = "full" /\ next \in {"first", "fetch", "insert"} =>
              link'["source"] = "ready"
        <4>1. CASE Side = "source"
          BY <3>1, <4>1
        <4>2. CASE Side = "target"
          BY <2>3, <2>4, <2>5, <3>2, <3>3, <4>2 DEF SourceCalls, Sides
        <4>3. QED
          BY <2>4, <4>1, <4>2
      <3>7. order'[now] = "nothing" => order[now] = "nothing"
        BY <2>5, <2>7 DEF OrderAfter
      <3>8. QED
        BY <1>0, <1>3, <2>3, <3>2, <3>4, <3>5, <3>6, <3>7 DEF Prepared
    <2>8. QED
      BY <2>6, <2>7 DEF Outcome
  <1>4. QED
    BY <1>2, <1>3

\* An error that an incremental sync gets over leaves the link as it was.
LEMMA GotOverHere ==
  ASSUME CallInv, at \in Calls, NEW r, NEW next, Outcome(r), Does(r, next),
         ~ Lost', setup.mode = "incremental", cause'[now] \subseteq GotOver, ~ r.ok
  PROVE  /\ ~ Lost /\ cause[now] \subseteq GotOver
         /\ r.new > 0 /\ at \in GotOver /\ at \in {"insert", "fetch", "key"}
         /\ r.link = "ready"
  <1>0. CallType /\ ModeInv /\ LinksInv
    BY DEF CallInv
  <1>1. ~ Lost /\ cause[now] \subseteq GotOver
    BY <1>0, LostStays
  <1>2. r.new > 0
    BY <1>1, NoneSilent
  <1>3. at \in GotOver /\ r.link # "dead"
    BY <1>0, <1>2, LostStays DEF Lost
  <1>4. at \in {"insert", "fetch", "key"}
    BY <1>3 DEF GotOver
  <1>5. Prepared
    BY <1>1 DEF CallInv, HealInv
  <1>6. r.link # "aborted"
    <2>1. CASE at = "insert"
      <3>1. Side = "target" /\ link[Side] = "ready"
        BY <1>0, <1>5, <2>1, SideOfCall DEF Prepared, SourceCalls
      <3>2. QED
        BY <2>1, <3>1 DEF Outcome
    <2>2. CASE at \in {"fetch", "key"}
      <3>1. Side = "source" /\ setup.source # "postgres"
        BY <1>0, <1>3, <2>2, SideOfCall DEF GotOver, SourceCalls
      <3>2. QED
        BY <3>1 DEF Outcome
    <2>3. QED
      BY <1>4, <2>1, <2>2
  <1>7. QED
    BY <1>1, <1>2, <1>3, <1>4, <1>6 DEF Outcome, Links

LEMMA HealStep ==
  ASSUME CallInv, at \in Calls, NEW r, NEW next, Outcome(r), Does(r, next)
  PROVE  HealInv'
  <1>0. CallType /\ ModeInv /\ UNCHANGED setup /\ GotOver' = GotOver
    BY DEF CallInv, Does, GotOver
  <1>1. SUFFICES ASSUME at' \in Calls, ~ Lost', setup.mode = "incremental",
                        cause'[now'] \subseteq GotOver
                 PROVE  Prepared' /\ tries' <= faults' /\ order'[now'] # "nothing"
    BY <1>0 DEF HealInv
  <1>2. /\ faults' = faults + r.new /\ r.new \in 0..2
        /\ tries \in Nat /\ faults \in Nat
    <2>1. faults' = faults + r.new /\ r.new \in 0..2
      BY Zenon DEF Does, Outcome
    <2>2. QED
      BY <1>0, <2>1 DEF CallType
  <1>3. CASE ~ (at' = next /\ now' = now)
    <2>1. at' = "validate" /\ order'[now'] = "unknown"
      BY <1>1, <1>3, NextTable DEF FirstCall
    <2>2. tries' = 0
      <3>1. at # "validate" \/ at \notin {"fetch", "insert"}
        OBVIOUS
      <3>2. at' # at \/ at \notin {"fetch", "insert"}
        BY <2>1
      <3>3. QED
        BY <3>2 DEF Does
    <2>3. QED
      BY <1>0, <1>2, <2>1, <2>2 DEF Prepared
  <1>4. CASE at' = next /\ now' = now
    <2>1. ~ Lost /\ cause[now] \subseteq GotOver
      BY <1>0, <1>1, <1>4, LostStays
    <2>2. Prepared /\ tries <= faults /\ order[now] # "nothing"
      BY <1>1, <2>1 DEF CallInv, HealInv
    <2>3. /\ link' = [link EXCEPT ![Side] = r.link] /\ Side \in Sides
          /\ order' = [order EXCEPT ![now] = OrderAfter(at, r.ok)]
          /\ Side = IF at \in SourceCalls THEN "source" ELSE "target"
      BY <1>0, SideOfCall DEF Does
    <2>4. /\ link'[Side] = r.link
          /\ \A s \in Sides \ {Side} : link'[s] = link[s]
          /\ order'[now] = OrderAfter(at, r.ok)
      BY <1>0, <2>3 DEF CallType
    <2>5. r.link = "ready"
      <3>1. CASE r.ok
        BY <3>1 DEF Outcome
      <3>2. CASE ~ r.ok
        BY <1>1, <1>4, <3>2, GotOverHere
      <3>3. QED
        BY <3>1, <3>2 DEF Outcome
    <2>6. /\ next # "validate"
          /\ next = "exists" => at = "validate"
      BY <1>0, Onward DEF Outcome, Does
    <2>7. at = "validate" => next = "exists"
      <3>1. CASE r.ok
        BY <3>1 DEF Does, NextCalls
      <3>2. CASE ~ r.ok
        BY <1>1, <1>4, <3>2, GotOverHere
      <3>3. QED
        BY <3>1, <3>2 DEF Outcome
    <2>8. next # "exists" => link'["target"] = "ready"
      BY <2>2, <2>3, <2>4, <2>5, <2>7 DEF Prepared, Sides, SourceCalls
    <2>9. link'["source"] = "ready"
      BY <1>1, <2>2, <2>3, <2>4, <2>5 DEF Prepared, Sides, SourceCalls
    <2>10. order'[now] # "nothing"
      <3>1. at # "first"
        BY <1>0, <1>1 DEF ModeInv
      <3>2. QED
        BY <1>1, <2>2, <2>4, <3>1 DEF OrderAfter
    <2>11. tries' <= faults'
      <3>1. CASE r.ok
        <4>1. tries' = 0
          BY <3>1 DEF Does
        <4>2. QED
          BY <1>2, <4>1
      <3>2. CASE ~ r.ok
        <4>1. r.new > 0
          BY <1>1, <1>4, <3>2, GotOverHere
        <4>2. tries' = tries + 1 \/ tries' = 0
          BY Zenon DEF Does
        <4>3. QED
          BY <1>2, <2>2, <4>1, <4>2
      <3>3. QED
        BY <3>1, <3>2 DEF Outcome
    <2>12. QED
      BY <1>0, <1>4, <2>6, <2>8, <2>9, <2>10, <2>11 DEF Prepared
  <1>5. QED
    BY <1>3, <1>4

LEMMA RetriesStep ==
  ASSUME CallInv, at \in Calls, NEW r, NEW next, Outcome(r), Does(r, next)
  PROVE  RetriesHeal'
  <1>0. CallType /\ AheadInv /\ ModeInv /\ UNCHANGED setup /\ GotOver' = GotOver
    BY DEF CallInv, Does, GotOver
  <1>1. next \in Calls \cup Ended /\ Goto(next)
    BY <1>0, Onward DEF Outcome, Does
  <1>2. /\ faults' = faults + r.new /\ r.new \in 0..2
        /\ tries \in Nat /\ faults \in Nat
    <2>1. faults' = faults + r.new /\ r.new \in 0..2
      BY Zenon DEF Does, Outcome
    <2>2. QED
      BY <1>0, <2>1 DEF CallType
  <1>3. SUFFICES ASSUME NEW i \in Numbers, setup.mode = "incremental",
                        faults' < 3, log'[i] \in {"failed", "no log"},
                        ~ Lost', cause'[i] \subseteq GotOver
                 PROVE  FALSE
    BY <1>0 DEF RetriesHeal, Failed
  <1>4. ~ Lost /\ cause[i] \subseteq GotOver /\ faults < 3
    <2>1. faults' < 3
      BY <1>3
    <2>2. faults < 3
      BY <1>2, <2>1
    <2>3. QED
      BY <1>0, <1>3, <2>2, LostStays
  <1>5. CASE i # now
    BY <1>0, <1>1, <1>3, <1>4, <1>5, Moved DEF CallInv, RetriesHeal, Failed
  <1>6. CASE i = now
    <2>1. next \in {"failed", "no log"}
      <3>1. log[now] \notin {"failed", "no log"}
        BY <1>0 DEF AheadInv, Failed
      <3>2. QED
        BY <1>0, <1>1, <1>3, <1>6, <3>1, Moved
    <2>2. ~ r.ok
      BY <1>0, <2>1, Onward DEF Outcome, Does
    <2>3. r.new > 0 /\ at \in {"insert", "fetch", "key"}
      BY <1>3, <1>6, <2>2, GotOverHere
    <2>4. next = Recovery(at)
      BY <2>2 DEF Does
    <2>5. at \in {"insert", "fetch"} /\ ~ (tries < 2)
      BY <1>3, <2>1, <2>3, <2>4 DEF Recovery
    <2>6. tries <= faults
      BY <1>3, <1>4, <1>6 DEF CallInv, HealInv
    <2>7. faults' < 3 /\ r.new > 0 /\ ~ (tries < 2)
      BY <1>3, <2>3, <2>5
    <2>8. QED
      BY <1>2, <2>6, <2>7
  <1>7. QED
    BY <1>5, <1>6

----------------------------------------------------------------------------
(* The whole run.                                                          *)

LEMMA CallStep == CallInv /\ Call => CallInv'
  <1> SUFFICES ASSUME CallInv, Call PROVE CallInv'
    OBVIOUS
  <1>1. at \in Calls
    BY DEF Call, Calls
  <1>2. PICK r, next : Outcome(r) /\ Does(r, next)
    BY CallDoes
  <1>3. CallType' /\ LinksInv' /\ AheadInv'
    BY <1>1, <1>2, CallTypeStep, LinksStep, AheadStep
  <1>4. CleanInv' /\ HealInv' /\ ModeInv'
    BY <1>1, <1>2, CleanStep, HealStep, ModeStep
  <1>5. FailsAlone' /\ RetriesHeal'
    BY <1>1, <1>2, FailsStep, RetriesStep
  <1>6. QED
    BY <1>3, <1>4, <1>5 DEF CallInv

\* While the connections are opened nothing else changes.
LEMMA ConnectStep == CallInv /\ Connect => CallInv'
  <1> SUFFICES ASSUME CallInv, Connect PROVE CallInv'
    OBVIOUS
  <1>0. CallType /\ LinksInv /\ AheadInv
    BY DEF CallInv
  <1>1. /\ at \in Opening
        /\ UNCHANGED tables
        /\ faults' \in Nat /\ tries' \in Nat /\ faults <= faults'
    <2>1. tries \in Nat /\ faults \in Nat
      BY <1>0 DEF CallType
    <2>2. at \in Opening /\ UNCHANGED tables
      BY DEF Connect, Open, Opening, tables
    <2>3. /\ faults' = faults \/ faults' = faults + 1
          /\ tries' = 0 \/ tries' = tries + 1
      BY DEF Connect, Open
    <2>4. QED
      BY <2>1, <2>2, <2>3
  <1>2. \/ /\ at = "probe source" /\ at' \in {"probe source", "probe target"}
           /\ UNCHANGED link
        \/ /\ at = "probe target" /\ at' \in {"probe target", "connect source"}
           /\ UNCHANGED link
        \/ /\ at = "connect source" /\ at' = "connect target"
           /\ link' = [link EXCEPT !["source"] = "ready"]
        \/ /\ at = "connect target" /\ at' = FirstCall(setup.mode)
           /\ link' = [link EXCEPT !["target"] = "ready"]
        \/ at' = "no connection" /\ UNCHANGED link
    BY DEF Connect, Open, SideOf, SourceCalls
  <1>3. setup.mode \in {"full", "incremental"}
    BY <1>0, ModesAssumption DEF CallType
  <1>4. UNCHANGED <<setup, now, order, log, cause>>
    BY <1>1 DEF tables
  <1>5. link' \in [Sides -> Links]
    BY <1>0, <1>2 DEF CallType, Links
  <1>6. at' \in Opening \cup {"validate", "exists", "no connection"}
    BY <1>2, <1>3 DEF FirstCall, Opening
  <1>7. CallType'
    BY <1>0, <1>1, <1>4, <1>5, <1>6 DEF CallType, Calls, SourceCalls, TargetCalls
  <1>8. LinksInv'
    <2>1. ASSUME at' \in Calls
          PROVE  at = "connect target" /\ link' = [link EXCEPT !["target"] = "ready"]
      BY <1>2, <2>1 DEF Calls, SourceCalls, TargetCalls
    <2>2. /\ at' \in {"probe source", "probe target", "connect source"} =>
               \A s \in Sides : link'[s] = "closed"
          /\ at' = "connect target" =>
               link'["source"] = "ready" /\ link'["target"] = "closed"
          /\ at' \in Calls => \A s \in Sides : link'[s] # "closed"
      <3>1. at = "connect source" => \A s \in Sides : link[s] = "closed"
        BY <1>0 DEF LinksInv
      <3>2. at = "connect target" => link["source"] = "ready"
        BY <1>0 DEF LinksInv
      <3>3. at' \in {"probe source", "probe target", "connect source"} =>
              UNCHANGED link /\ at \in {"probe source", "probe target"}
        BY <1>2, <1>3 DEF FirstCall
      <3>4. at' = "connect target" =>
              at = "connect source" /\ link' = [link EXCEPT !["source"] = "ready"]
        BY <1>2, <1>3 DEF FirstCall
      <3>5. at' = "connect target" =>
              link'["source"] = "ready" /\ link'["target"] = "closed"
        BY <1>0, <3>1, <3>4 DEF CallType, Sides
      <3>6. at' \in Calls => \A s \in Sides : link'[s] # "closed"
        BY <1>0, <2>1, <3>2 DEF CallType, Sides
      <3>7. QED
        BY <1>0, <3>3, <3>5, <3>6 DEF LinksInv
    <2>3. /\ ~ Lost' => \A s \in Sides : link'[s] # "dead"
          /\ \A s \in Sides : link'[s] = "aborted" => setup'[s] = "postgres"
      BY <1>0, <1>2, <1>4 DEF LinksInv, Lost, CallType, Sides
    <2>4. QED
      BY <2>2, <2>3 DEF LinksInv
  <1>9. /\ ~ Failed(now) /\ ~ Failed(now)' /\ log[now] # "completed"
        /\ \A i \in Numbers : cause[i] = {} /\ order[i] = "unknown"
    BY <1>0, <1>1, <1>4 DEF AheadInv, Failed
  <1>10. AheadInv'
    BY <1>0, <1>4, <1>9 DEF AheadInv, Failed
  <1>11. CleanInv' /\ ModeInv' /\ HealInv'
    <2>1. at' \in Calls => at' = FirstCall(setup.mode) /\ at = "connect target"
      BY <1>2 DEF Calls, SourceCalls, TargetCalls
    <2>2. order'[now'] = "unknown"
      BY <1>0, <1>4, <1>9 DEF CallType
    <2>3. at = "connect target" /\ at' # "no connection" => tries' = 0
      BY DEF Connect, Open
    <2>4. at' \in Calls => tries' <= faults'
      <3>1. at' \in Calls => tries' = 0
        BY <2>1, <2>3 DEF Calls, SourceCalls, TargetCalls
      <3>2. QED
        BY <1>1, <3>1
    <2>5. QED
      BY <1>3, <1>4, <2>1, <2>2, <2>4
        DEF CleanInv, ModeInv, HealInv, Prepared, FirstCall
  <1>12. FailsAlone' /\ RetriesHeal'
    <2>1. RetriesHeal'
      <3>1. faults \in Nat
        BY <1>0 DEF CallType
      <3>2. faults' < 3 => faults < 3
        BY <1>1, <3>1
      <3>3. QED
        BY <1>4, <3>2 DEF CallInv, RetriesHeal, Failed, Lost, GotOver
    <2>2. QED
      BY <1>4, <2>1 DEF CallInv, FailsAlone, Failed, Lost
  <1>13. QED
    BY <1>7, <1>8, <1>10, <1>11, <1>12 DEF CallInv

LEMMA CallStart == Init => CallInv
  <1> SUFFICES ASSUME Init PROVE CallInv
    OBVIOUS
  <1> DEFINE n == Len(Tables)
  <1>1. 1 \in Numbers
    <2>1. n \in Nat \ {0} /\ Numbers = 1..n
      BY TablesAssumption DEF Numbers
    <2> HIDE DEF n
    <2>2. QED
      BY <2>1
  <1>2. CallType
    BY <1>1 DEF Init, CallType, Opening, Links
  <1>3. at = "probe source" /\ at \notin Calls
    BY DEF Init, Calls, SourceCalls, TargetCalls
  <1>4. \A i \in Numbers : ~ Failed(i) /\ log[i] # "completed" /\ cause[i] = {}
    BY DEF Init, Failed
  <1>5. LinksInv /\ AheadInv
    BY <1>1, <1>3, <1>4 DEF Init, LinksInv, AheadInv, Failed
  <1>6. QED
    BY <1>2, <1>3, <1>4, <1>5
      DEF CallInv, CleanInv, HealInv, ModeInv, FailsAlone, RetriesHeal

LEMMA CallsKept == Spec => []CallInv
  <1>1. CallInv /\ UNCHANGED vars => CallInv'
    <2> SUFFICES ASSUME CallInv, UNCHANGED vars PROVE CallInv'
      OBVIOUS
    <2>1. Lost' = Lost /\ GotOver' = GotOver
      BY DEF vars, Lost, GotOver
    <2>2. CallType' /\ LinksInv' /\ AheadInv' /\ ModeInv'
      BY <2>1 DEF vars, CallInv, CallType, LinksInv, AheadInv, ModeInv, Failed
    <2>3. CleanInv' /\ HealInv'
      BY <2>1 DEF vars, CallInv, CleanInv, HealInv, Prepared
    <2>4. FailsAlone' /\ RetriesHeal'
      BY <2>1 DEF vars, CallInv, FailsAlone, RetriesHeal, Failed
    <2>5. QED
      BY <2>2, <2>3, <2>4 DEF CallInv
  <1>2. CallInv /\ [Next]_vars => CallInv'
    BY <1>1, CallStep, ConnectStep DEF Next
  <1>3. QED
    BY <1>2, CallStart, PTL DEF Spec

\* A table fails by its own calls or with a lost connection, whatever statements
\* have failed in the tables before it.
THEOREM TablesFailAlone == Spec => []FailsAlone
  BY CallsKept, PTL DEF CallInv

\* Fewer than three failures do not fail a table of an incremental sync, if they
\* are of the calls that are tried again.
THEOREM FailuresHealed == Spec => []RetriesHeal
  BY CallsKept, PTL DEF CallInv

----------------------------------------------------------------------------
(* The order of the pages.  Asking for a key that is there can fail without *)
(* a failure of its own only on a dead connection, on which no page comes   *)
(* either, or in a transaction that an earlier table has left aborted.      *)

Due(i) ==
  /\ keyed[i] /\ "key" \notin cause[i]
  /\ setup.source # "sqlserver"
  /\ setup.source = "postgres" /\ setup.mode = "full" =>
       \A k \in 1..(i - 1) : cause[k] \cap SourceCalls = {}

\* The calls before a full sync has asked for the key, and an incremental one.
FullBefore == {"exists", "schema", "describe", "create", "truncate", "key"}
IncrBefore == {"exists", "schema", "describe", "create", "columns", "key"}

\* An aborted transaction has a cause; none lies in this table before the key.
AbortInv ==
  at \in Calls =>
    /\ setup.mode = "full" /\ link["source"] = "aborted" =>
         \E k \in 1..now : cause[k] \cap SourceCalls # {}
    /\ setup.mode = "full" /\ at \in FullBefore => cause[now] \cap SourceCalls = {}
    /\ setup.mode = "incremental" /\ at \in IncrBefore => link["source"] # "aborted"

\* After the key the order is known, or no page will come.
AfterKey ==
  {"first", "fetch", "insert"} \cup (IF setup.mode = "full" THEN {"columns"} ELSE {})

OrderInv ==
  at \in Calls /\ at \in AfterKey /\ Due(now) =>
    /\ order[now] = "key" \/ (at # "insert" /\ link["source"] = "dead")
    /\ at # "first"

KeyInv == AbortInv /\ OrderInv /\ KeyOrdered

LEMMA DueBefore ==
  ASSUME CallType, at \in Calls, NEW r, NEW next, Does(r, next),
         NEW i \in Numbers, Due(i)'
  PROVE  Due(i)
  <1>1. /\ UNCHANGED <<keyed, setup>>
        /\ \A k \in Numbers : cause[k] \subseteq cause'[k]
    BY LostStays DEF Does
  <1>2. \A k \in 1..(i - 1) : k \in Numbers
    <2> DEFINE n == Len(Tables)
    <2>1. n \in Nat /\ Numbers = 1..n
      BY TablesAssumption DEF Numbers
    <2> HIDE DEF n
    <2>2. QED
      BY <2>1
  <1>3. ASSUME NEW k \in 1..(i - 1), cause'[k] \cap SourceCalls = {}
        PROVE  cause[k] \cap SourceCalls = {}
    BY <1>1, <1>2, <1>3
  <1>4. "key" \notin cause[i]
    BY <1>1 DEF Due
  <1>5. QED
    BY <1>1, <1>3, <1>4 DEF Due

\* At the key the connection is good or dead.
LEMMA KeyAsked ==
  ASSUME CallInv, AbortInv, at = "key", Due(now)
  PROVE  link["source"] \in {"ready", "dead"}
  <1>0. CallType /\ LinksInv /\ now \in Nat
    BY NumbersAre DEF CallInv, CallType
  <1>1. at \in Calls /\ at \in FullBefore /\ at \in IncrBefore
    BY DEF Calls, SourceCalls, FullBefore, IncrBefore
  <1>2. setup.mode \in {"full", "incremental"}
    BY <1>0, ModesAssumption DEF CallType
  <1>3. link["source"] = "aborted" => setup.source = "postgres"
    BY <1>0 DEF LinksInv, Sides
  <1>4. ASSUME link["source"] = "aborted", setup.mode = "full" PROVE FALSE
    <2>1. PICK k \in 1..now : cause[k] \cap SourceCalls # {}
      BY <1>1, <1>4 DEF AbortInv
    <2>2. k # now
      BY <1>1, <1>4, <2>1 DEF AbortInv
    <2>3. k \in 1..(now - 1)
      BY <1>0, <2>2
    <2>4. QED
      BY <1>3, <1>4, <2>1, <2>3 DEF Due
  <1>5. link["source"] # "aborted"
    BY <1>1, <1>2, <1>4 DEF AbortInv
  <1>6. link["source"] \in Links \ {"closed"}
    BY <1>0, <1>1 DEF CallType, LinksInv, Sides
  <1>7. QED
    BY <1>5, <1>6 DEF Links

LEMMA AbortStep ==
  ASSUME CallInv, AbortInv, at \in Calls, NEW r, NEW next, Outcome(r), Does(r, next)
  PROVE  AbortInv'
  <1>0. CallType /\ ModeInv /\ CallType' /\ AheadInv' /\ UNCHANGED setup
    BY CallTypeStep, AheadStep DEF CallInv, Does
  <1>1. next \in Calls \cup Ended /\ Goto(next)
    BY <1>0, Onward DEF Outcome, Does
  <1>2. /\ now \in Nat /\ now' \in {now, now + 1}
        /\ at' \in Calls => \/ at' = next /\ now' = now
                            \/ at' = FirstCall(setup.mode) /\ now' = now + 1
    BY <1>0, <1>1, Moved, NumbersAre DEF CallType, Calls, SourceCalls, TargetCalls
  <1>3. /\ link' = [link EXCEPT ![Side] = r.link] /\ Side \in Sides
        /\ Side = IF at \in SourceCalls THEN "source" ELSE "target"
    BY <1>0, SideOfCall DEF Does
  <1>4. setup.mode \in {"full", "incremental"}
    BY <1>0, ModesAssumption DEF CallType
  <1>5. SUFFICES ASSUME at' \in Calls
                 PROVE  /\ setup.mode = "full" /\ link'["source"] = "aborted" =>
                             \E k \in 1..now' : cause'[k] \cap SourceCalls # {}
                        /\ setup.mode = "full" /\ at' \in FullBefore =>
                             cause'[now'] \cap SourceCalls = {}
                        /\ setup.mode = "incremental" /\ at' \in IncrBefore =>
                             link'["source"] # "aborted"
    BY <1>0 DEF AbortInv
  <1>6. ASSUME setup.mode = "full", link'["source"] = "aborted"
        PROVE  \E k \in 1..now' : cause'[k] \cap SourceCalls # {}
    <2>1. \A k \in 1..now : k \in 1..now' /\ k \in Numbers
      <3> DEFINE n == Len(Tables)
      <3>1. n \in Nat /\ Numbers = 1..n /\ now \in 1..n
        BY <1>0, TablesAssumption DEF CallType, Numbers
      <3> HIDE DEF n
      <3>2. QED
        BY <1>2, <3>1
    <2>2. CASE link["source"] = "aborted"
      <3>1. PICK k \in 1..now : cause[k] \cap SourceCalls # {}
        BY <1>6, <2>2 DEF AbortInv
      <3>2. cause[k] \subseteq cause'[k]
        BY <1>0, <2>1, LostStays
      <3>3. QED
        BY <2>1, <3>1, <3>2
    <2>3. CASE link["source"] # "aborted"
      <3>1. Side = "source" /\ r.link = "aborted" /\ at \in SourceCalls
        BY <1>0, <1>3, <1>6, <2>3 DEF CallType, Sides
      <3>2. link["source"] # "closed"
        BY <1>3, <3>1 DEF CallInv, LinksInv
      <3>3. ~ r.ok /\ link["source"] # "dead"
        BY <3>1 DEF Outcome
      <3>4. link["source"] = "ready"
        <4>1. link["source"] \in Links
          BY <1>0, <1>3, <3>1 DEF CallType
        <4>2. QED
          BY <2>3, <3>2, <3>3, <4>1 DEF Links
      <3>5. r.new # 0 \/ Refused
        BY <3>1, <3>3, <3>4 DEF Outcome
      <3>6. setup.source = "postgres"
        BY <3>1 DEF Outcome
      <3>7. r.new > 0
        <4>1. r.new # 0 /\ r.new \in 0..2
          BY <3>5, <3>6 DEF Refused, Outcome
        <4>2. QED
          BY <4>1
      <3>8. at \in cause'[now]
        BY <1>0, <3>7, LostStays
      <3>9. now \in 1..now'
        <4> DEFINE n == Len(Tables)
        <4>1. n \in Nat /\ Numbers = 1..n /\ now \in 1..n
          BY <1>0, TablesAssumption DEF CallType, Numbers
        <4> HIDE DEF n
        <4>2. QED
          BY <1>2, <4>1
      <3>10. QED
        BY <3>1, <3>8, <3>9
    <2>4. QED
      BY <2>2, <2>3
  <1>7. ASSUME setup.mode = "full", at' \in FullBefore
        PROVE  cause'[now'] \cap SourceCalls = {}
    <2>1. CASE at' = next /\ now' = now
      <3>1. at \in FullBefore /\ (at \in SourceCalls => r.ok)
        <4>1. CASE r.ok
          BY <1>0, <1>7, <2>1, <4>1 DEF Does, NextCalls, SchemaOrNot, FullBefore,
             SourceCalls, Calls, TargetCalls, ModeInv
        <4>2. CASE ~ r.ok
          BY <1>0, <1>7, <2>1, <4>2 DEF Does, Recovery, SchemaOrNot, FullBefore,
             SourceCalls, Calls, TargetCalls, ModeInv
        <4>3. QED
          BY <4>1, <4>2 DEF Outcome
      <3>2. cause[now] \cap SourceCalls = {}
        BY <1>7, <3>1 DEF AbortInv
      <3>3. cause'[now] \subseteq cause[now] \cup {at, "lost"}
        BY <1>0 DEF Does, CallType
      <3>4. CASE at \notin SourceCalls
        BY <2>1, <3>2, <3>3, <3>4 DEF SourceCalls
      <3>5. CASE r.ok /\ at \in SourceCalls
        <4>1. r.new = 0
          BY <3>5 DEF Outcome, SourceCalls
        <4>2. cause'[now] \subseteq cause[now]
          <5>1. ~ (r.new > 0)
            BY <4>1
          <5>2. cause' = [cause EXCEPT ![now] = @ \cup {} \cup {}]
            BY <5>1 DEF Does
          <5>3. QED
            BY <1>0, <5>2 DEF CallType
        <4>3. QED
          BY <2>1, <3>2, <4>2
      <3>6. QED
        BY <3>1, <3>4, <3>5
    <2>2. CASE now' = now + 1
      <3>1. now' > now /\ now' \in Numbers /\ now' # now
        <4>1. now' > now /\ now' # now
          BY <1>2, <2>2
        <4>2. QED
          BY <1>0, <4>1 DEF CallType
      <3>2. cause'[now'] = cause[now'] /\ cause[now'] = {}
        BY <1>0, <3>1, LostStays DEF CallInv, AheadInv
      <3>3. QED
        BY <3>2
    <2>3. QED
      BY <1>2, <1>5, <2>1, <2>2
  <1>8. ASSUME setup.mode = "incremental", at' \in IncrBefore
        PROVE  link'["source"] # "aborted"
    <2>1. at' = next
      BY <1>2, <1>5, <1>8 DEF FirstCall, IncrBefore
    <2>2. at \in IncrBefore \cup {"validate"} /\ (at \in SourceCalls => r.ok)
      <3>1. CASE r.ok
        BY <1>0, <1>8, <2>1, <3>1 DEF Does, NextCalls, SchemaOrNot, IncrBefore,
           SourceCalls, Calls, TargetCalls, ModeInv
      <3>2. CASE ~ r.ok
        BY <1>0, <1>8, <2>1, <3>2 DEF Does, Recovery, SchemaOrNot, IncrBefore,
           SourceCalls, Calls, TargetCalls, ModeInv
      <3>3. QED
        BY <3>1, <3>2 DEF Outcome
    <2>3. CASE at \in SourceCalls
      BY <1>0, <1>3, <2>2, <2>3 DEF CallType, Outcome
    <2>4. CASE at \notin SourceCalls
      <3>1. link["source"] # "aborted"
        BY <1>8, <2>2, <2>4 DEF AbortInv, SourceCalls
      <3>2. QED
        BY <1>0, <1>3, <2>4, <3>1 DEF CallType, Sides
    <2>5. QED
      BY <2>3, <2>4
  <1>9. QED
    BY <1>6, <1>7, <1>8

LEMMA Ordered ==
  ASSUME CallInv, AbortInv, OrderInv, at \in Calls,
         NEW r, NEW next, Outcome(r), Does(r, next),
         NEW i \in Numbers, i = now, Due(i)', next \in AfterKey \cup {"completed"}
  PROVE  /\ next # "first"
         /\ order'[i] = "key" \/ (link'["source"] = "dead" /\ at # "insert" /\ ~ r.ok)
  <1>0. CallType /\ ModeInv /\ LinksInv /\ UNCHANGED <<setup, keyed>>
    BY DEF CallInv, Does
  <1>1. next \in Calls \cup Ended /\ Goto(next)
    BY <1>0, Onward DEF Outcome, Does
  <1>2. /\ link' = [link EXCEPT ![Side] = r.link] /\ Side \in Sides
        /\ Side = IF at \in SourceCalls THEN "source" ELSE "target"
        /\ order'[now] = OrderAfter(at, r.ok)
    BY <1>0, SideOfCall DEF Does, CallType
  <1>3. setup.mode \in {"full", "incremental"} /\ now \in Numbers
    BY <1>0, ModesAssumption DEF CallType
  <1> DEFINE Known == order'[now] = "key"
             Gone == link'["source"] = "dead" /\ at # "insert" /\ ~ r.ok
  <1>4. Due(now) /\ KeyFound
    <2>1. Due(i)
      BY <1>0, DueBefore
    <2>2. QED
      BY <2>1 DEF Due, KeyFound
  <1>5. next # "first"
    BY <1>0, <1>4, Onward DEF Outcome, Does, NextCalls
  <1>6. Known \/ Gone
    <2>1. Due(now)
      BY <1>4
    <2>2. CASE at = "key"
      <3>1. "key" \notin cause'[now] /\ r.new \in 0..2 /\ KeyFound
        BY <1>4 DEF Due, Outcome
      <3>2. CASE r.ok
        BY <1>2, <2>2, <3>1, <3>2 DEF OrderAfter
      <3>3. CASE ~ r.ok
        <4>1. ~ (r.new > 0)
          BY <1>0, <2>2, <3>1, LostStays
        <4>2. r.new = 0
          BY <3>1, <4>1
        <4>3. Side = "source" /\ link["source"] # "aborted"
          BY <1>2, <2>1, <2>2, KeyAsked DEF SourceCalls
        <4>4. link["source"] = "dead"
          BY <2>2, <3>3, <4>2, <4>3 DEF Outcome, Refused
        <4>5. r.link = "dead"
          BY <4>3, <4>4 DEF Outcome
        <4>6. QED
          BY <1>0, <1>2, <2>2, <3>3, <4>3, <4>5 DEF CallType
      <3>4. QED
        BY <3>2, <3>3 DEF Outcome
    <2>3. CASE at # "key"
      <3>1. at \in AfterKey
        <4>1. CASE r.ok
          BY <1>0, <1>3, <2>3, <4>1 DEF Does, NextCalls, SchemaOrNot, AfterKey,
             SourceCalls, Calls, TargetCalls, ModeInv
        <4>2. CASE ~ r.ok
          BY <1>0, <1>3, <2>3, <4>2 DEF Does, Recovery, SchemaOrNot, AfterKey,
             SourceCalls, Calls, TargetCalls, ModeInv
        <4>3. QED
          BY <4>1, <4>2 DEF Outcome
      <3>2. order[now] = "key" \/ (at # "insert" /\ link["source"] = "dead")
        BY <2>1, <3>1 DEF OrderInv
      <3>3. CASE link["source"] = "dead" /\ at # "insert"
        <4>1. Side = "source"
          BY <1>2, <3>1, <3>3 DEF AfterKey, SourceCalls
        <4>2. ~ r.ok /\ r.link = "dead"
          BY <3>3, <4>1 DEF Outcome
        <4>3. QED
          BY <1>0, <1>2, <3>3, <4>1, <4>2 DEF CallType
      <3>4. CASE order[now] = "key" /\ at # "first"
        BY <1>2, <2>3, <3>4 DEF OrderAfter
      <3>5. at # "first"
        BY <2>1, <3>1 DEF OrderInv
      <3>6. QED
        BY <3>2, <3>3, <3>4, <3>5
    <2>4. QED
      BY <2>2, <2>3
  <1>7. QED
    BY <1>5, <1>6

LEMMA OrderStep ==
  ASSUME CallInv, AbortInv, OrderInv, at \in Calls,
         NEW r, NEW next, Outcome(r), Does(r, next)
  PROVE  OrderInv'
  <1>0. CallType /\ ModeInv /\ CallType' /\ UNCHANGED setup
    BY CallTypeStep DEF CallInv, Does
  <1>1. next \in Calls \cup Ended /\ Goto(next)
    BY <1>0, Onward DEF Outcome, Does
  <1>2. setup.mode \in {"full", "incremental"} /\ now' \in Numbers
    BY <1>0, ModesAssumption DEF CallType
  <1>3. SUFFICES ASSUME at' \in Calls, at' \in AfterKey', Due(now)'
                 PROVE  /\ \/ order'[now'] = "key"
                           \/ at' # "insert" /\ link'["source"] = "dead"
                        /\ at' # "first"
    BY DEF OrderInv
  <1>4. PICK i \in Numbers : i = now'
    BY <1>2
  <1>5. Due(i)'
    BY <1>3, <1>4 DEF Due
  <1>6. at' = next /\ now' = now /\ AfterKey' = AfterKey
    BY <1>0, <1>1, <1>2, <1>3, Moved DEF FirstCall, AfterKey, Calls, SourceCalls, TargetCalls
  <1>7. /\ next # "first"
        /\ \/ order'[i] = "key"
           \/ link'["source"] = "dead" /\ at # "insert" /\ ~ r.ok
    BY <1>3, <1>4, <1>5, <1>6, Ordered
  <1>8. ~ r.ok /\ at # "insert" => next # "insert"
    BY DEF Does, Recovery, SchemaOrNot
  <1>9. QED
    BY <1>4, <1>6, <1>7, <1>8

LEMMA KeyOrderedStep ==
  ASSUME CallInv, AbortInv, OrderInv, KeyOrdered, at \in Calls,
         NEW r, NEW next, Outcome(r), Does(r, next)
  PROVE  KeyOrdered'
  <1>0. CallType /\ ModeInv /\ AheadInv
    BY DEF CallInv
  <1>1. next \in Calls \cup Ended /\ Goto(next)
    BY <1>0, Onward DEF Outcome, Does
  <1>2. SUFFICES ASSUME NEW i \in Numbers, log'[i] = "completed", Due(i)'
                 PROVE  order'[i] = "key"
    BY DEF KeyOrdered, Due
  <1>3. Due(i)
    BY <1>0, <1>2, DueBefore
  <1>4. order' = [order EXCEPT ![now] = OrderAfter(at, r.ok)]
    BY DEF Does
  <1>5. CASE log[i] = "completed" /\ i # now
    BY <1>0, <1>3, <1>4, <1>5 DEF KeyOrdered, Due, CallType
  <1>6. CASE i = now /\ log[now] # "completed"
    <2>1. next = "completed"
      BY <1>0, <1>1, <1>2, <1>6, Moved
    <2>2. r.ok
      BY <2>1 DEF Does, Recovery, SchemaOrNot, Outcome, Calls, SourceCalls, TargetCalls
    <2>3. QED
      BY <1>2, <1>6, <2>1, <2>2, Ordered
  <1>7. log[now] # "completed"
    BY <1>0 DEF AheadInv
  <1>8. QED
    BY <1>0, <1>1, <1>2, <1>5, <1>6, <1>7, Moved

LEMMA KeyKept == Spec => []KeyInv
  <1>1. Init => KeyInv
    <2> SUFFICES ASSUME Init PROVE KeyInv
      OBVIOUS
    <2>1. at \notin Calls
      BY DEF Init, Calls, SourceCalls, TargetCalls
    <2>2. \A i \in Numbers : log[i] # "completed"
      BY DEF Init
    <2>3. QED
      BY <2>1, <2>2 DEF KeyInv, AbortInv, OrderInv, KeyOrdered
  <1>2. CallInv /\ KeyInv /\ Call => KeyInv'
    <2> SUFFICES ASSUME CallInv, KeyInv, Call PROVE KeyInv'
      OBVIOUS
    <2>1. at \in Calls
      BY DEF Call, Calls
    <2>2. PICK r, next : Outcome(r) /\ Does(r, next)
      BY CallDoes
    <2>3. QED
      BY <2>1, <2>2, AbortStep, OrderStep, KeyOrderedStep DEF KeyInv
  <1>3. CallInv /\ KeyInv /\ Connect => KeyInv'
    <2> SUFFICES ASSUME CallInv, KeyInv, Connect PROVE KeyInv'
      OBVIOUS
    <2>0. CallType /\ LinksInv /\ AheadInv /\ CallType'
      BY ConnectStep DEF CallInv
    <2>1. at \in Opening /\ UNCHANGED <<setup, exists, keyed, now, order, log, cause>>
      BY DEF Connect, Open, Opening, tables
    <2>2. at' \in Calls => /\ at = "connect target" /\ at' = FirstCall(setup.mode)
                          /\ link' = [link EXCEPT !["target"] = "ready"]
      BY DEF Connect, Open, SideOf, Calls, SourceCalls, TargetCalls
    <2>3. at' \in Calls => link'["source"] = "ready"
      BY <2>0, <2>2 DEF LinksInv, CallType, Sides
    <2>4. cause[now] = {}
      BY <2>0, <2>1 DEF AheadInv, CallType
    <2>5. AbortInv'
      BY <2>1, <2>3, <2>4 DEF AbortInv
    <2>6. at' \in Calls => at' \in {"validate", "exists"}
      BY <2>2 DEF FirstCall
    <2>7. OrderInv'
      BY <2>6 DEF OrderInv, AfterKey
    <2>8. KeyOrdered'
      BY <2>1 DEF KeyInv, KeyOrdered
    <2>9. QED
      BY <2>5, <2>7, <2>8 DEF KeyInv
  <1>4. KeyInv /\ UNCHANGED vars => KeyInv'
    <2> SUFFICES ASSUME KeyInv, UNCHANGED vars PROVE KeyInv'
      OBVIOUS
    <2>1. AbortInv'
      BY DEF KeyInv, AbortInv, vars
    <2>2. OrderInv' /\ KeyOrdered'
      BY DEF KeyInv, OrderInv, AfterKey, Due, KeyOrdered, vars
    <2>3. QED
      BY <2>1, <2>2 DEF KeyInv
  <1>5. QED
    BY <1>1, <1>2, <1>3, <1>4, CallsKept, PTL DEF Spec, Next

\* The pages of every completed table that has a key are in its order, unless
\* asking for the key has failed or an earlier table has left an aborted transaction.
THEOREM PagesKeyOrdered == Spec => []KeyOrdered
  BY KeyKept, PTL DEF KeyInv

=============================================================================
