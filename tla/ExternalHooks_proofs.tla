------------------------ MODULE ExternalHooks_proofs ------------------------
(***************************************************************************)
(* Proofs about ExternalHooks, for any threads, requests and stream bound. *)
(* The invariant says what every receipt still on the stream says of the   *)
(* agent's records: all of it is true, for the records only move forward.  *)
(***************************************************************************)
EXTENDS ExternalHooks, SequenceTheorems, TLAPS

\* The agent has, or has had, the handle of this request's hook.
Known(id) == record[id] # None /\ record[id].own \in {"Owned", "Released"}

\* What a receipt says is true by now.
TrueReceipt(rc) == /\ record[rc.id] # None
                   /\ record[rc.id].own # "Rejected"
                   /\ record[rc.id].body = rc.body
                   /\ rc.own = "Orphaned" <=> record[rc.id].own = "Orphaned"
                   /\ rc.own = "Released" => record[rc.id].own = "Released"
                   /\ rc.target = "Restored" => record[rc.id].target = "Restored"

TrueReply(r) ==
  /\ r.kind \in {"Execute", "Release", "Uninstall"} =>
       r.receipt # None /\ r.receipt.own # "Orphaned"
  /\ r.kind = "Uninstall" => r.receipt.target = "Restored"
  /\ r.receipt # None => TrueReceipt(r.receipt)

TrueExchange(e) ==
  /\ e.command = "Execute" => e.id \in Ids /\ e.body \in Bodies
  /\ e.command \in {"Release", "Uninstall"} => e.id \in Ids /\ Known(e.id)
  /\ e.reply # None => TrueReply(e.reply)

WireInv == \A i \in DOMAIN wire : TrueExchange(wire[i])

RecordInv == \A id \in Ids : /\ installs[id] \in {0, 1}
                             /\ record[id] = None => installs[id] = 0

\* What a lease says is true by now.
LeaseTrue(id, l) ==
  /\ Known(id)
  /\ record[id].body = l.body
  /\ l.own = "Released" => record[id].own = "Released"
  /\ l.target = "Restored" => record[id].target = "Restored"
  /\ l.shown = "Restored" => record[id].target = "Restored"

LeaseInv == \A id \in Ids : lease[id] # None => LeaseTrue(id, lease[id])

\* A call that gives leases back has the gate, and finds them not released: so
\* no late receipt can take a released lease back.
Held(id) == lease[id] # None /\ lease[id].own # "Released"
Exclusive == {"release", "uninstall", "discard", "cleanup", "exit", "detach"}
CallTrue(t, c) ==
  /\ c.op \in Exclusive => writer = t
  /\ c.op = "execute" => c.id \in Ids /\ c.body \in Bodies
  /\ c.op \in {"adopt", "discard"} =>
       /\ c.id \in Ids /\ c.body \in Bodies
       /\ Known(c.id) /\ record[c.id].body = c.body
  /\ c.op \in {"release", "uninstall"} => c.id \in Ids /\ Held(c.id)
  /\ c.op \in {"cleanup", "detach"} => (c.id # None => c.id \in c.todo)
  /\ c.todo # {} => c.op \in {"cleanup", "detach"}
  /\ \A id \in c.todo : Held(id)

CallInv == \A t \in Threads : CallTrue(t, call[t])

Inv == TypeOK /\ WireInv /\ RecordInv /\ LeaseInv /\ CallInv

(***************************************************************************)
(* The agent's records only move forward                                   *)
(***************************************************************************)
Forward(id) ==
  record[id] # None =>
    /\ record'[id] # None
    /\ record'[id].body = record[id].body
    /\ record'[id].own = "Rejected" <=> record[id].own = "Rejected"
    /\ record'[id].own = "Orphaned" <=> record[id].own = "Orphaned"
    /\ record[id].own \in {"Owned", "Released"}
         => record'[id].own \in {"Owned", "Released"}
    /\ record[id].own = "Released" => record'[id].own = "Released"
    /\ record[id].target = "Restored" => record'[id].target = "Restored"

\* A true exchange stays true.
LEMMA ExchangesStayTrue ==
  ASSUME TypeOK, NEW e \in Exchange, TrueExchange(e), \A id \in Ids : Forward(id)
  PROVE  TrueExchange(e)'
  <1> DEFINE r == e.reply
             rc == r.receipt
  <1>1. CASE r = None
    BY <1>1 DEF TrueExchange, Known, Forward, Exchange
  <1>2. CASE r # None
    <2>1. r \in Reply
      BY <1>2 DEF Exchange
    <2>2. rc # None => rc \in Receipt
      BY <2>1 DEF Reply
    <2>3. rc # None => TrueReceipt(rc) /\ rc.id \in Ids
      BY <1>2, <2>2 DEF TrueExchange, TrueReply, Receipt
    <2>4. rc # None => TrueReceipt(rc)'
      BY <2>3 DEF TrueReceipt, Forward
    <2> QED
      BY <1>2, <2>4 DEF TrueExchange, TrueReply, Known, Forward
  <1> QED
    BY <1>1, <1>2

\* Leases and calls that do not change stay true.
LEMMA CopiesStayTrue ==
  ASSUME TypeOK, LeaseInv, CallInv, \A id \in Ids : Forward(id),
         UNCHANGED <<lease, call, writer>>
  PROVE  LeaseInv' /\ CallInv'
  <1>1. LeaseInv'
    BY DEF LeaseInv, LeaseTrue, Forward, Known
  <1>2. CallInv'
    BY DEF CallInv, CallTrue, Held, Forward, Known
  <1> QED
    BY <1>1, <1>2

(***************************************************************************)
(* The agent                                                               *)
(***************************************************************************)
\* An answer changes one exchange.
LEMMA AnswerEffect ==
  ASSUME TypeOK, NEW i \in DOMAIN wire, NEW kind \in Commands \union {"Error"},
         NEW rc \in Receipt \union {None}, Answer(i, kind, rc)
  PROVE  LET e == wire[i]
             r == [kind |-> kind, receipt |-> rc]
             f == [command |-> e.command, id |-> e.id, body |-> e.body, reply |-> r]
         IN /\ r \in Reply /\ f \in Exchange /\ r # None
            /\ wire' = [wire EXCEPT ![i] = f]
            /\ wire' \in Seq(Exchange)
            /\ DOMAIN wire' = DOMAIN wire
            /\ wire'[i] = f
            /\ \A j \in DOMAIN wire \ {i} : wire'[j] = wire[j]
  <1> DEFINE e == wire[i]
             r == [kind |-> kind, receipt |-> rc]
             f == [command |-> e.command, id |-> e.id, body |-> e.body, reply |-> r]
  <1>1. e \in Exchange /\ i \in 1 .. Len(wire)
    BY DEF TypeOK
  <1>2. r \in Reply
    BY DEF Reply
  <1>3. r # None
    BY <1>2, NoneAssumption
  <1>4. f \in Exchange /\ f = [e EXCEPT !.reply = r]
    BY <1>1, <1>2 DEF Exchange
  <1>5. wire' = [wire EXCEPT ![i] = f]
    BY <1>4 DEF Answer
  <1> HIDE DEF f, e
  <1>6. /\ wire' \in Seq(Exchange)
        /\ DOMAIN wire' = DOMAIN wire
        /\ wire'[i] = f
        /\ \A j \in DOMAIN wire \ {i} : wire'[j] = wire[j]
    BY <1>1, <1>4, <1>5, ExceptSeq DEF TypeOK
  <1> QED
    BY <1>2, <1>3, <1>4, <1>5, <1>6 DEF f, e

\* An answer that is true, on records that have only moved forward, keeps it all.
LEMMA AnswerKeeps ==
  ASSUME Inv, NEW i \in DOMAIN wire, NEW kind \in Commands \union {"Error"},
         NEW rc \in Receipt \union {None}, Answer(i, kind, rc),
         \A id \in Ids : Forward(id),
         TrueReply([kind |-> kind, receipt |-> rc])',
         record' \in [Ids -> Record \union {None}], installs' \in [Ids -> Nat],
         RecordInv'
  PROVE  Inv'
  <1> DEFINE e == wire[i]
             r == [kind |-> kind, receipt |-> rc]
             f == [command |-> e.command, id |-> e.id, body |-> e.body, reply |-> r]
  <1>1. TypeOK /\ WireInv /\ LeaseInv /\ CallInv
    BY DEF Inv
  <1>2. /\ f \in Exchange /\ wire' \in Seq(Exchange) /\ DOMAIN wire' = DOMAIN wire
        /\ wire'[i] = f /\ \A j \in DOMAIN wire \ {i} : wire'[j] = wire[j]
    BY <1>1, AnswerEffect
  <1>3. TypeOK'
    BY <1>1, <1>2 DEF TypeOK, Answer
  <1>4. ASSUME NEW j \in DOMAIN wire
        PROVE  TrueExchange(wire[j])'
    <2>1. wire[j] \in Exchange /\ TrueExchange(wire[j])
      BY <1>1 DEF TypeOK, WireInv
    <2>2. CASE j # i
      BY <1>1, <1>2, <2>1, <2>2, ExchangesStayTrue DEF TrueExchange, TrueReply, TrueReceipt, Known
    <2>3. CASE j = i
      <3>1. /\ e.command = "Execute" => e.id \in Ids /\ e.body \in Bodies
            /\ e.command \in {"Release", "Uninstall"} =>
                 e.id \in Ids /\ record'[e.id] # None
                 /\ record'[e.id].own \in {"Owned", "Released"}
        BY <2>1, <2>3 DEF TrueExchange, Known, Forward
      <3>2. /\ f.command = e.command /\ f.id = e.id /\ f.body = e.body /\ f.reply = r
        OBVIOUS
      <3> HIDE DEF f, r
      <3> QED
        BY <1>2, <2>3, <3>1, <3>2 DEF TrueExchange, Known, r
    <2> QED
      BY <2>2, <2>3
  <1>5. WireInv'
    BY <1>2, <1>4 DEF WireInv
  <1>6. LeaseInv' /\ CallInv'
    BY <1>1, CopiesStayTrue DEF Answer
  <1> QED
    BY <1>3, <1>5, <1>6 DEF Inv

LEMMA ReplayStep ==
  ASSUME Inv, NEW i \in DOMAIN wire, Unanswered(i), wire[i].command = "Execute",
         Replay(i)
  PROVE  Inv' /\ \A h \in Ids : Forward(h)
  <1> DEFINE id == wire[i].id
             kind == IF /\ record[id].body = wire[i].body
                        /\ record[id].own \in {"Owned", "Released"}
                     THEN "Execute" ELSE "Error"
             rc == ReceiptOf(id)
  <1>1. TypeOK /\ WireInv /\ RecordInv
    BY DEF Inv
  <1>2. id \in Ids /\ record[id] # None /\ record[id] \in Record
    BY <1>1 DEF WireInv, TrueExchange, TypeOK, Replay, Recorded
  <1>3. /\ rc \in Receipt \union {None} /\ kind \in Commands \union {"Error"}
        /\ rc # None => /\ rc.id = id /\ rc.body = record[id].body
                        /\ rc.own = record[id].own /\ rc.own # "Rejected"
                        /\ rc.target = record[id].target
        /\ kind = "Execute" => rc # None /\ rc.own \in {"Owned", "Released"}
        /\ kind \in {"Execute", "Error"}
    BY <1>2, NoneAssumption DEF ReceiptOf, Record, Receipt, Commands
  <1>4. Answer(i, kind, rc) /\ UNCHANGED <<record, installs>>
    BY DEF Replay
  <1>5. \A h \in Ids : Forward(h)
    BY <1>4 DEF Forward
  <1>6. /\ RecordInv' /\ record' \in [Ids -> Record \union {None}]
        /\ installs' \in [Ids -> Nat]
    BY <1>1, <1>4 DEF RecordInv, TypeOK
  <1> HIDE DEF id, kind, rc
  <1>7. PICK k \in Commands \union {"Error"}, c \in Receipt \union {None} :
             k = kind /\ c = rc
    BY <1>3
  <1>8. TrueReply([kind |-> k, receipt |-> c])'
    BY <1>2, <1>3, <1>4, <1>7 DEF TrueReply, TrueReceipt
  <1> QED
    BY <1>4, <1>5, <1>6, <1>7, <1>8, AnswerKeeps

LEMMA FreshStep ==
  ASSUME Inv, NEW i \in DOMAIN wire, Unanswered(i), wire[i].command = "Execute",
         Fresh(i)
  PROVE  Inv' /\ \A h \in Ids : Forward(h)
  <1>1. TypeOK /\ WireInv /\ RecordInv
    BY DEF Inv
  <1>2. PICK id \in Ids, body \in Bodies : wire[i].id = id /\ wire[i].body = body
    BY <1>1 DEF WireInv, TrueExchange
  <1>3. record[id] = None /\ installs[id] = 0
    BY <1>1, <1>2 DEF RecordInv, Fresh, Recorded
  <1>4. PICK own \in {"Owned", "Orphaned", "Rejected"}, target \in Target :
          /\ own = "Owned" => target = "Installed"
          /\ record' = [record EXCEPT ![id] =
                          [body |-> body, own |-> own, target |-> target]]
          /\ installs' = IF own = "Rejected" THEN installs
                         ELSE [installs EXCEPT ![id] = @ + 1]
          /\ Answer(i, IF own = "Owned" THEN "Execute" ELSE "Error",
                    IF own = "Rejected" THEN None
                    ELSE [id |-> id, body |-> body, own |-> own,
                          target |-> target])
    BY <1>2 DEF Fresh, Target
  <1> DEFINE r == [body |-> body, own |-> own, target |-> target]
  <1>5. r \in Record /\ r # None /\ r.own = own /\ r.body = body /\ r.target = target
    BY NoneAssumption DEF Record, Ownership
  <1> HIDE DEF r
  <1>6. record' = [record EXCEPT ![id] = r]
    BY <1>4 DEF r
  <1>7. /\ record' \in [Ids -> Record \union {None}] /\ record'[id] = r
        /\ \A h \in Ids \ {id} : record'[h] = record[h]
    BY <1>1, <1>5, <1>6 DEF TypeOK
  <1>8. /\ installs' \in [Ids -> Nat] /\ installs'[id] \in {0, 1}
        /\ \A h \in Ids \ {id} : installs'[h] = installs[h]
    BY <1>1, <1>3, <1>4 DEF TypeOK
  <1>9. \A h \in Ids : Forward(h)
    BY <1>3, <1>7 DEF Forward
  <1>10. RecordInv'
    BY <1>1, <1>5, <1>7, <1>8 DEF RecordInv
  <1>11. CASE own = "Rejected"
    <2>1. Answer(i, "Error", None)
      BY <1>4, <1>11
    <2>2. TrueReply([kind |-> "Error", receipt |-> None])'
      BY DEF TrueReply
    <2> QED
      BY <1>7, <1>8, <1>9, <1>10, <2>1, <2>2, AnswerKeeps
  <1>12. CASE own # "Rejected"
    <2> DEFINE rc == [id |-> id, body |-> body, own |-> own, target |-> target]
    <2>1. rc \in Receipt /\ rc.id = id /\ rc.body = body /\ rc.own = own
      BY <1>12 DEF Receipt, Ownership
    <2>2. PICK k \in Commands \union {"Error"} :
            /\ k = IF own = "Owned" THEN "Execute" ELSE "Error"
            /\ Answer(i, k, rc)
      BY <1>4, <1>12 DEF Commands
    <2>3. rc.target = target /\ rc.own # "Released" /\ rc.target = r.target
      BY <1>5, <1>12
    <2>4. PICK c \in Receipt : c = rc
      BY <2>1
    <2> HIDE DEF rc
    <2>5. TrueReply([kind |-> k, receipt |-> c])'
      BY <1>5, <1>7, <1>12, <2>1, <2>2, <2>3, <2>4, NoneAssumption
      DEF TrueReply, TrueReceipt
    <2> QED
      BY <1>7, <1>8, <1>9, <1>10, <2>1, <2>2, <2>4, <2>5, AnswerKeeps
  <1> QED
    BY <1>9, <1>11, <1>12

\* What a release or an uninstall may make of a record.
LEMMA BecomeStep ==
  ASSUME Inv, NEW i \in DOMAIN wire, wire[i].command \in {"Release", "Uninstall"},
         NEW kind \in {"Release", "Uninstall", "Error"},
         NEW own \in {"Owned", "Released"}, NEW target \in Target,
         record[wire[i].id].own = "Released" => own = "Released",
         record[wire[i].id].target = "Restored" => target = "Restored",
         kind = "Uninstall" => target = "Restored",
         Become(i, kind, own, target)
  PROVE  Inv' /\ \A h \in Ids : Forward(h)
  <1>1. TypeOK /\ WireInv /\ RecordInv
    BY DEF Inv
  <1>2. PICK id \in Ids : wire[i].id = id /\ Known(id)
    BY <1>1 DEF WireInv, TrueExchange
  <1>3. record[id] \in Record
    BY <1>1, <1>2 DEF TypeOK, Known
  <1>4. PICK body \in Bodies : body = record[id].body
    BY <1>3 DEF Record
  <1>5. PICK r \in Record : r = [body |-> body, own |-> own, target |-> target]
    BY <1>4 DEF Record, Ownership
  <1>6. PICK rc \in Receipt :
          rc = [id |-> id, body |-> body, own |-> own, target |-> target]
    BY <1>4 DEF Receipt, Ownership
  <1>7. /\ record' = [record EXCEPT ![id] = r]
        /\ Answer(i, kind, rc) /\ UNCHANGED installs
    BY <1>2, <1>4, <1>5, <1>6 DEF Become
  <1>8. /\ r # None /\ r.own = own /\ r.body = body /\ r.target = target
        /\ rc # None /\ rc.id = id /\ rc.body = body /\ rc.own = own /\ rc.target = target
    BY <1>5, <1>6, NoneAssumption
  <1>9. /\ record' \in [Ids -> Record \union {None}] /\ record'[id] = r
        /\ \A h \in Ids \ {id} : record'[h] = record[h]
    BY <1>1, <1>7 DEF TypeOK
  <1>10. \A h \in Ids : Forward(h)
    BY <1>2, <1>4, <1>8, <1>9 DEF Forward, Known
  <1>11. RecordInv' /\ installs' \in [Ids -> Nat]
    BY <1>1, <1>7, <1>8, <1>9 DEF RecordInv, TypeOK
  <1>12. TrueReply([kind |-> kind, receipt |-> rc])'
    BY <1>8, <1>9 DEF TrueReply, TrueReceipt
  <1>13. kind \in Commands \union {"Error"}
    BY DEF Commands
  <1> QED
    BY <1>7, <1>9, <1>10, <1>11, <1>12, <1>13, AnswerKeeps

LEMMA ReleaseUninstallStep ==
  ASSUME Inv, NEW i \in DOMAIN wire, AgentRelease(i) \/ AgentUninstall(i)
  PROVE  Inv' /\ \A h \in Ids : Forward(h)
  <1>1. TypeOK /\ WireInv
    BY DEF Inv
  <1>2. /\ wire[i].command \in {"Release", "Uninstall"}
        /\ wire[i].id \in Ids /\ Known(wire[i].id)
    BY <1>1 DEF WireInv, TrueExchange, AgentRelease, AgentUninstall
  <1>3. PICK r \in Record : r = record[wire[i].id] /\ r.own \in {"Owned", "Released"}
    BY <1>1, <1>2 DEF TypeOK, Known
  <1>4. r.target \in Target /\ "Restored" \in Target
    BY DEF Record, Target
  <1>5. PICK kind \in {"Release", "Uninstall", "Error"}, own \in {"Owned", "Released"},
             target \in Target :
          /\ r.own = "Released" => own = "Released"
          /\ r.target = "Restored" => target = "Restored"
          /\ kind = "Uninstall" => target = "Restored"
          /\ Become(i, kind, own, target)
    <2>1. CASE AgentRelease(i)
      BY <1>3, <1>4, <2>1 DEF AgentRelease
    <2>2. CASE AgentUninstall(i)
      BY <1>3, <1>4, <2>2 DEF AgentUninstall
    <2> QED
      BY <2>1, <2>2
  <1> QED
    BY <1>2, <1>3, <1>5, BecomeStep

LEMMA ProbeStep ==
  ASSUME Inv, NEW i \in DOMAIN wire, AgentProbe(i)
  PROVE  Inv' /\ \A h \in Ids : Forward(h)
  <1>1. PICK kind \in {"Ping", "Rpc"} : kind = wire[i].command
    BY DEF AgentProbe
  <1>2. Answer(i, kind, None) /\ UNCHANGED <<record, installs>>
    BY <1>1 DEF AgentProbe
  <1>3. /\ \A h \in Ids : Forward(h)
        /\ RecordInv' /\ record' \in [Ids -> Record \union {None}]
        /\ installs' \in [Ids -> Nat]
    BY <1>2 DEF Forward, Inv, RecordInv, TypeOK
  <1>4. TrueReply([kind |-> kind, receipt |-> None])'
    BY DEF TrueReply
  <1>5. kind \in Commands \union {"Error"}
    BY DEF Commands
  <1> QED
    BY <1>2, <1>3, <1>4, <1>5, AnswerKeeps

\* Taking an exchange out of a sequence keeps the others.
LEMMA WithoutOne ==
  ASSUME NEW S, NEW s \in Seq(S), NEW i \in DOMAIN s
  PROVE  LET u == SubSeq(s, 1, i - 1) \o SubSeq(s, i + 1, Len(s))
         IN /\ u \in Seq(S)
            /\ \A j \in DOMAIN u : \E k \in DOMAIN s : u[j] = s[k]
  <1> DEFINE a == SubSeq(s, 1, i - 1)
             b == SubSeq(s, i + 1, Len(s))
  <1>1. /\ i \in 1 .. Len(s) /\ Len(s) \in Nat /\ DOMAIN s = 1 .. Len(s)
        /\ i \in Int
    OBVIOUS
  <1>2. /\ a \in Seq(S) /\ Len(a) = i - 1
        /\ \A j \in 1 .. i - 1 : a[j] = s[j]
    BY <1>1
  <1>3. /\ b \in Seq(S) /\ Len(b) = Len(s) - i
        /\ \A j \in 1 .. Len(s) - i : b[j] = s[j + i]
    BY <1>1
  <1> HIDE DEF a, b
  <1>4. /\ a \o b \in Seq(S) /\ Len(a \o b) = Len(a) + Len(b)
        /\ \A j \in 1 .. Len(a) + Len(b) :
             (a \o b)[j] = IF j <= Len(a) THEN a[j] ELSE b[j - Len(a)]
    BY <1>2, <1>3
  <1>5. ASSUME NEW j \in DOMAIN (a \o b)
        PROVE  \E k \in DOMAIN s : (a \o b)[j] = s[k]
    <2>1. j \in 1 .. Len(a) + Len(b)
      BY <1>4
    <2>2. CASE j <= Len(a)
      <3>1. j \in 1 .. i - 1 /\ j \in DOMAIN s
        BY <1>1, <1>2, <2>1, <2>2
      <3> QED
        BY <1>2, <1>4, <2>1, <2>2, <3>1
    <2>3. CASE ~ (j <= Len(a))
      <3>1. PICK k \in 1 .. Len(s) - i : k = j - Len(a)
        BY <1>1, <1>2, <1>3, <2>1, <2>3
      <3>2. k + i \in DOMAIN s /\ (a \o b)[j] = b[k]
        BY <1>1, <1>4, <2>1, <2>3, <3>1
      <3> QED
        BY <1>3, <3>1, <3>2
    <2> QED
      BY <2>2, <2>3
  <1> QED
    BY <1>4, <1>5 DEF a, b

LEMMA ExitStep ==
  ASSUME Inv, NEW i \in DOMAIN wire, AgentExit(i)
  PROVE  Inv' /\ \A h \in Ids : Forward(h)
  <1>1. TypeOK /\ WireInv /\ RecordInv /\ LeaseInv /\ CallInv
    BY DEF Inv
  <1>2. /\ wire' \in Seq(Exchange)
        /\ \A j \in DOMAIN wire' : \E k \in DOMAIN wire : wire'[j] = wire[k]
    BY <1>1, WithoutOne DEF AgentExit, TypeOK
  <1>3. ASSUME NEW id \in Ids
        PROVE  /\ record'[id] \in Record \union {None} /\ Forward(id)
               /\ record[id] = None <=> record'[id] = None
    <2>1. CASE record[id] # None /\ record[id].own = "Owned"
      <3>1. PICK r \in Record : r = [body |-> record[id].body, own |-> "Released",
                                     target |-> record[id].target]
        BY <1>1, <2>1 DEF TypeOK, Record, Ownership
      <3>2. record'[id] = r
        BY <2>1, <3>1 DEF AgentExit
      <3> QED
        BY <2>1, <3>1, <3>2, NoneAssumption DEF Forward
    <2>2. CASE ~ (record[id] # None /\ record[id].own = "Owned")
      <3>1. record'[id] = record[id]
        BY <2>2 DEF AgentExit
      <3> QED
        BY <1>1, <3>1 DEF Forward, TypeOK
    <2> QED
      BY <2>1, <2>2
  <1>4. record' \in [Ids -> Record \union {None}]
    BY <1>3 DEF AgentExit
  <1>5. TypeOK'
    BY <1>1, <1>2, <1>4 DEF TypeOK, AgentExit
  <1>6. WireInv'
    <2>1. ASSUME NEW j \in DOMAIN wire'
          PROVE  TrueExchange(wire[j])'
      <3>1. PICK k \in DOMAIN wire : wire'[j] = wire[k]
        BY <1>2
      <3>2. PICK e \in Exchange : e = wire[k]
        BY <1>1 DEF TypeOK
      <3>3. TrueExchange(e)
        BY <1>1, <3>2 DEF WireInv
      <3>4. TrueExchange(e)'
        BY <1>1, <1>3, <3>3, ExchangesStayTrue
      <3> QED
        BY <3>1, <3>2, <3>4
    <2> QED
      BY <2>1 DEF WireInv
  <1>7. RecordInv'
    BY <1>1, <1>3 DEF RecordInv, AgentExit
  <1>8. LeaseInv' /\ CallInv'
    BY <1>1, <1>3, CopiesStayTrue DEF AgentExit
  <1> QED
    BY <1>3, <1>5, <1>6, <1>7, <1>8 DEF Inv

LEMMA AgentStep ==
  ASSUME Inv, Agent
  PROVE  Inv' /\ \A h \in Ids : Forward(h)
  BY ReplayStep, FreshStep, ReleaseUninstallStep, ProbeStep, ExitStep
  DEF Agent, AgentExecute

(***************************************************************************)
(* The threads                                                             *)
(***************************************************************************)
LEMMA DoingCall ==
  ASSUME NEW op \in Ops, NEW id \in Ids \union {None}, NEW body \in Bodies \union {None},
         NEW todo \in SUBSET Ids, NEW failed \in BOOLEAN
  PROVE  LET c == Doing(op, id, body, todo, failed)
         IN /\ c \in Call /\ c.op = op /\ c.id = id /\ c.body = body
            /\ c.todo = todo /\ c.failed = failed
  BY DEF Doing, Call

\* A thread's step changes its own call; the leases that others are giving back
\* stay as they are, for those others would hold the gate.
LEMMA CallsKeep ==
  ASSUME TypeOK, CallInv, NEW t \in Threads, NEW c \in Call,
         call' = [call EXCEPT ![t] = c], UNCHANGED record, CallTrue(t, c)',
         \A u \in Threads \ {t} : writer = u => writer' = u,
         writer = t \/ \A h \in Ids : Held(h) => Held(h)'
  PROVE  call' \in [Threads -> Call] /\ CallInv'
  <1>1. call' \in [Threads -> Call] /\ call'[t] = c
    BY DEF TypeOK
  <1>2. ASSUME NEW u \in Threads \ {t}
        PROVE  CallTrue(u, call[u])'
    <2>1. PICK k \in Call : k = call[u] /\ k = call'[u] /\ CallTrue(u, k)
      BY DEF TypeOK, CallInv
    <2>2. CallTrue(u, k)'
      <3>1. CASE writer = t
        BY <2>1, <3>1 DEF CallTrue, Known, Exclusive
      <3>2. CASE writer # t
        BY <2>1, <3>2 DEF CallTrue, Known, Call
      <3> QED
        BY <3>1, <3>2
    <2> QED
      BY <2>1, <2>2
  <1> QED
    BY <1>1, <1>2 DEF CallInv

LEMMA SameRecords ==
  ASSUME NEW e, UNCHANGED record
  PROVE  TrueExchange(e) <=> TrueExchange(e)'
  BY DEF TrueExchange, TrueReply, TrueReceipt, Known

LEMMA SameWire ==
  ASSUME TypeOK, WireInv, UNCHANGED <<record, wire>>
  PROVE  WireInv'
  <1>1. ASSUME NEW i \in DOMAIN wire'
        PROVE  TrueExchange(wire[i])'
    <2>1. PICK e : e = wire[i] /\ e = wire'[i] /\ TrueExchange(e)
      BY DEF WireInv
    <2> QED
      BY <2>1, SameRecords
  <1> QED
    BY <1>1 DEF WireInv

\* A command is written for a hook that the agent knows.
LEMMA Written ==
  ASSUME TypeOK, WireInv, NEW f \in Exchange, wire' = Append(wire, f),
         UNCHANGED record, TrueExchange(f)
  PROVE  wire' \in Seq(Exchange) /\ WireInv'
  <1>1. /\ wire' \in Seq(Exchange) /\ DOMAIN wire' = 1 .. Len(wire) + 1
        /\ wire'[Len(wire) + 1] = f
        /\ \A i \in 1 .. Len(wire) : wire'[i] = wire[i]
    BY AppendProperties DEF TypeOK
  <1>2. ASSUME NEW i \in DOMAIN wire'
        PROVE  TrueExchange(wire[i])'
    <2>1. i \in DOMAIN wire \/ wire'[i] = f
      BY <1>1 DEF TypeOK
    <2>2. PICK e : e = wire'[i] /\ TrueExchange(e)
      BY <1>1, <2>1 DEF WireInv
    <2> QED
      BY <2>2, SameRecords
  <1> QED
    BY <1>1, <1>2 DEF WireInv

\* A reply that is read is true, and the others stay so.
LEMMA Read ==
  ASSUME TypeOK, WireInv, wire # << >>, Head(wire).reply # None,
         wire' = Tail(wire), UNCHANGED record
  PROVE  /\ wire' \in Seq(Exchange) /\ WireInv'
         /\ Head(wire).reply \in Reply /\ TrueReply(Head(wire).reply)
  <1>1. /\ wire' \in Seq(Exchange) /\ Head(wire) = wire[1] /\ 1 \in DOMAIN wire
        /\ \A i \in DOMAIN wire' : i + 1 \in DOMAIN wire /\ wire'[i] = wire[i + 1]
    BY DEF TypeOK
  <1>2. ASSUME NEW i \in DOMAIN wire'
        PROVE  TrueExchange(wire[i])'
    <2>1. PICK e : e = wire'[i] /\ TrueExchange(e)
      BY <1>1 DEF WireInv
    <2> QED
      BY <2>1, SameRecords
  <1>3. wire[1] \in Exchange /\ TrueExchange(wire[1])
    BY <1>1 DEF TypeOK, WireInv
  <1> QED
    BY <1>1, <1>2, <1>3 DEF WireInv, TrueExchange, Exchange

LEMMA BeginStep ==
  ASSUME Inv, NEW t \in Threads, Begin(t)
  PROVE  Inv'
  <1>1. TypeOK /\ WireInv /\ RecordInv /\ LeaseInv /\ CallInv
    BY DEF Inv
  <1>2. /\ UNCHANGED <<state, shutdown, record, installs, serving, wire, stream, lease,
                       unnoticed>>
        /\ writer' = writer \/ (writer = NoThread /\ writer' = t)
    BY DEF Begin, BeginExecute, BeginProbe, BeginRelease, BeginCleanup, BeginDetach,
           agentVars, linkVars, CanWrite
  <1>3. PICK c \in Call : call' = [call EXCEPT ![t] = c] /\ CallTrue(t, c)'
    <2>1. ASSUME NEW id \in Ids, NEW body \in Bodies, BeginExecute(t, id, body)
          PROVE  \E c \in Call : call' = [call EXCEPT ![t] = c] /\ CallTrue(t, c)'
      <3>1. PICK c \in Call : c = Doing("execute", id, body, {}, FALSE)
        BY DoingCall DEF Ops
      <3>2. c.op = "execute" /\ c.id = id /\ c.body = body /\ c.todo = {}
        BY <3>1 DEF Doing
      <3> QED
        BY <2>1, <3>1, <3>2 DEF BeginExecute, Start, CallTrue, Exclusive
    <2>2. ASSUME NEW op \in {"ping", "rpc"}, BeginProbe(t, op)
          PROVE  \E c \in Call : call' = [call EXCEPT ![t] = c] /\ CallTrue(t, c)'
      <3>1. PICK c \in Call : c = Doing(op, None, None, {}, FALSE)
        BY DoingCall DEF Ops
      <3>2. c.op = op /\ c.todo = {}
        BY <3>1 DEF Doing
      <3> QED
        BY <2>2, <3>1, <3>2 DEF BeginProbe, Start, CallTrue, Exclusive
    <2>3. ASSUME NEW op \in {"release", "uninstall"}, NEW id \in Ids, BeginRelease(t, op, id)
          PROVE  \E c \in Call : call' = [call EXCEPT ![t] = c] /\ CallTrue(t, c)'
      <3>1. PICK c \in Call : c = Doing(op, id, None, {}, FALSE)
        BY DoingCall DEF Ops
      <3>2. c.op = op /\ c.id = id /\ c.todo = {}
        BY <3>1 DEF Doing
      <3> QED
        BY <1>2, <2>3, <3>1, <3>2
        DEF BeginRelease, Start, CallTrue, Exclusive, Held, Unreleased
    <2>4. ASSUME BeginCleanup(t)
          PROVE  \E c \in Call : call' = [call EXCEPT ![t] = c] /\ CallTrue(t, c)'
      <3>1. PICK todo \in SUBSET Ids : todo = Unreleased
        BY DEF Unreleased
      <3>2. PICK c \in Call : c = Doing("cleanup", None, None, todo, FALSE)
        BY DoingCall DEF Ops
      <3>3. c.op = "cleanup" /\ c.id = None /\ c.todo = todo
        BY <3>2 DEF Doing
      <3> QED
        BY <1>2, <2>4, <3>1, <3>2, <3>3
        DEF BeginCleanup, Start, CallTrue, Exclusive, Held, Unreleased
    <2>5. ASSUME BeginDetach(t)
          PROVE  \E c \in Call : call' = [call EXCEPT ![t] = c] /\ CallTrue(t, c)'
      <3>1. PICK todo \in SUBSET Ids : todo = IF shutdown THEN Unreleased ELSE {}
        BY DEF Unreleased
      <3>2. PICK op \in Ops : op = IF shutdown THEN "detach" ELSE "exit"
        BY DEF Ops
      <3>3. PICK c \in Call : c = Doing(op, None, None, todo, FALSE)
        BY DoingCall
      <3>4. /\ c.op \in {"detach", "exit"} /\ c.id = None /\ c.todo = todo
            /\ todo # {} => c.op = "detach"
        BY <3>1, <3>2, <3>3 DEF Doing
      <3>5. call' = [call EXCEPT ![t] = c]
        BY <2>5, <3>1, <3>2, <3>3 DEF BeginDetach, Start
      <3> QED
        BY <1>2, <2>5, <3>1, <3>4, <3>5
        DEF BeginDetach, CallTrue, Exclusive, Held, Unreleased
    <2> QED
      BY <2>1, <2>2, <2>3, <2>4, <2>5 DEF Begin
  <1>4. call' \in [Threads -> Call] /\ CallInv'
    BY <1>1, <1>2, <1>3, CallsKeep, ThreadsAssumption DEF Held
  <1>5. TypeOK'
    BY <1>1, <1>2, <1>4 DEF TypeOK
  <1>6. WireInv' /\ RecordInv' /\ LeaseInv'
    BY <1>1, <1>2, SameWire DEF RecordInv, LeaseInv, LeaseTrue, Known
  <1> QED
    BY <1>4, <1>5, <1>6 DEF Inv

\* Idle and the calls that wait for the gate to mark the session are true.
LEMMA RestingCalls ==
  ASSUME NEW t
  PROVE  /\ Idle \in Call /\ [Idle EXCEPT !.op = "mark"] \in Call
         /\ CallTrue(t, Idle) /\ CallTrue(t, [Idle EXCEPT !.op = "mark"])
  BY DEF Idle, Doing, Call, Ops, CallTrue, Exclusive

LEMMA SendStep ==
  ASSUME Inv, NEW t \in Threads, Send(t)
  PROVE  Inv'
  <1>1. TypeOK /\ WireInv /\ RecordInv /\ LeaseInv /\ CallInv
    BY DEF Inv
  <1>2. PICK c \in Call : c = call[t] /\ CallTrue(t, c)
    BY <1>1 DEF TypeOK, CallInv
  <1>3. PICK command \in Commands, id \in Ids \union {None}, body \in Bodies \union {None},
             k \in Call :
          /\ Write(t, command, id, body)
          /\ call' = [call EXCEPT ![t] = k]
          /\ CallTrue(t, k)'
          /\ command = "Execute" => id \in Ids /\ body \in Bodies
          /\ command \in {"Release", "Uninstall"} => id \in Ids /\ Known(id)
    <2>1. CASE c.op \in {"cleanup", "detach"}
      <3>1. PICK id \in c.todo : /\ Write(t, "Release", id, None)
                                 /\ call' = [call EXCEPT ![t] = [c EXCEPT !.id = id]]
        BY <1>2, <2>1 DEF Send, Put
      <3>2. PICK k \in Call : k = [c EXCEPT !.id = id]
        BY DEF Call
      <3>3. /\ k.op = c.op /\ k.id = id /\ k.body = c.body /\ k.todo = c.todo
            /\ id \in Ids /\ Held(id)
        BY <1>2, <3>2 DEF Call, CallTrue
      <3>4. CallTrue(t, k)'
        BY <1>2, <2>1, <3>1, <3>3
        DEF CallTrue, Write, agentVars, Held, Known, Exclusive
      <3>5. Known(id)
        BY <1>1, <3>3 DEF LeaseInv, LeaseTrue, Held
      <3> QED
        BY <3>1, <3>2, <3>3, <3>4, <3>5 DEF Commands
    <2>2. CASE c.op \notin {"cleanup", "detach"}
      <3>1. UNCHANGED call
        BY <1>2, <2>2 DEF Send
      <3>2. call' = [call EXCEPT ![t] = c]
        BY <1>1, <1>2, <3>1 DEF TypeOK
      <3>3. PICK command \in Commands, id \in Ids \union {None},
                 body \in Bodies \union {None} :
              /\ Write(t, command, id, body)
              /\ command = "Execute" => c.op = "execute" /\ id = c.id /\ body = c.body
              /\ command \in {"Release", "Uninstall"} =>
                   c.op \in {"release", "discard", "uninstall"} /\ id = c.id
        BY <1>2, <2>2 DEF Send, Commands, Call
      <3>4. /\ command = "Execute" => id \in Ids /\ body \in Bodies
            /\ command \in {"Release", "Uninstall"} => id \in Ids /\ Known(id)
        BY <1>1, <1>2, <3>3 DEF CallTrue, LeaseInv, LeaseTrue, Held
      <3>5. CallTrue(t, c)'
        BY <1>2, <3>3 DEF Write, agentVars, CallTrue, Held, Known
      <3> QED
        BY <3>2, <3>3, <3>4, <3>5
    <2> QED
      BY <2>1, <2>2
  <1>4. PICK f \in Exchange :
          f = [command |-> command, id |-> id, body |-> body, reply |-> None]
    BY DEF Exchange
  <1>5. wire' = Append(wire, f) /\ stream' = t
        /\ UNCHANGED <<state, shutdown, writer, serving, record, installs, lease, unnoticed>>
    BY <1>3, <1>4 DEF Write, agentVars
  <1>6. TrueExchange(f)
    BY <1>3, <1>4 DEF TrueExchange
  <1>7. wire' \in Seq(Exchange) /\ WireInv'
    BY <1>1, <1>5, <1>6, Written
  <1>8. call' \in [Threads -> Call] /\ CallInv'
    BY <1>1, <1>3, <1>5, CallsKeep DEF Held
  <1>9. TypeOK'
    BY <1>1, <1>5, <1>7, <1>8 DEF TypeOK
  <1>10. RecordInv' /\ LeaseInv'
    BY <1>1, <1>5 DEF RecordInv, LeaseInv, LeaseTrue, Known
  <1> QED
    BY <1>7, <1>8, <1>9, <1>10 DEF Inv

\* What a step that only moves calls, gate and session keeps.
LEMMA QuietKeeps ==
  ASSUME Inv, NEW t \in Threads, NEW c \in Call, call' = [call EXCEPT ![t] = c],
         CallTrue(t, c)', UNCHANGED <<wire, record, installs, serving, lease>>,
         writer' = writer \/ (writer = NoThread /\ writer' = t)
           \/ (writer = t /\ writer' = NoThread),
         state' \in {"Attached", "Failed", "Detached"}, shutdown' \in BOOLEAN,
         stream' \in Threads \union {NoThread}, unnoticed' \in BOOLEAN
  PROVE  Inv'
  <1>1. TypeOK /\ WireInv /\ RecordInv /\ LeaseInv /\ CallInv
    BY DEF Inv
  <1>2. call' \in [Threads -> Call] /\ CallInv'
    BY <1>1, CallsKeep, ThreadsAssumption DEF Held
  <1>3. TypeOK'
    BY <1>1, <1>2 DEF TypeOK
  <1>4. WireInv' /\ RecordInv' /\ LeaseInv'
    BY <1>1, SameWire DEF RecordInv, LeaseInv, LeaseTrue, Known
  <1> QED
    BY <1>2, <1>3, <1>4 DEF Inv

\* How a call that gives up an exchange goes on.
LEMMA FailsEffect ==
  ASSUME Inv, NEW t \in Threads, Fails(t), UNCHANGED <<record, lease>>
  PROVE  /\ \E c \in Call : call' = [call EXCEPT ![t] = c] /\ CallTrue(t, c)'
         /\ writer' = writer \/ (writer = t /\ writer' = NoThread)
         /\ unnoticed' \in BOOLEAN
  <1>1. TypeOK /\ CallInv
    BY DEF Inv
  <1>2. PICK c \in Call : c = call[t] /\ CallTrue(t, c)
    BY <1>1 DEF TypeOK, CallInv
  <1>3. PICK idle \in Call : idle = Idle /\ CallTrue(t, idle)'
    BY RestingCalls DEF Idle, Doing, CallTrue, Exclusive
  <1>4. PICK mark \in Call : mark = [Idle EXCEPT !.op = "mark"] /\ CallTrue(t, mark)'
    BY RestingCalls DEF Idle, Doing, CallTrue, Exclusive
  <1>5. CASE c.op \in {"execute", "ping", "rpc"}
    BY <1>1, <1>2, <1>4, <1>5 DEF Fails, Put, TypeOK
  <1>6. CASE c.op \in {"discard", "release", "uninstall"}
    BY <1>1, <1>2, <1>3, <1>6 DEF Fails, Finish, Put, TypeOK
  <1>7. CASE c.op \in {"cleanup", "detach"}
    <2>1. PICK id : call' = [call EXCEPT ![t] =
                      [c EXCEPT !.id = None, !.todo = @ \ {id}, !.failed = TRUE]]
                    /\ UNCHANGED writer
      BY <1>2, <1>7 DEF Fails, Put
    <2>2. PICK k \in Call :
            k = [c EXCEPT !.id = None, !.todo = @ \ {id}, !.failed = TRUE]
      BY DEF Call
    <2>3. k.op = c.op /\ k.id = None /\ k.todo \subseteq c.todo
      BY <2>2 DEF Call
    <2>4. CallTrue(t, k)'
      BY <1>2, <1>7, <2>1, <2>3 DEF CallTrue, Held, Exclusive
    <2> QED
      BY <1>1, <1>2, <1>7, <2>1, <2>2, <2>4 DEF Fails, TypeOK
  <1>8. c.op \in {"execute", "ping", "rpc", "discard", "release", "uninstall",
                  "cleanup", "detach"}
    BY <1>2 DEF Fails
  <1> QED
    BY <1>5, <1>6, <1>7, <1>8

LEMMA FailStep ==
  ASSUME Inv, NEW t \in Threads, TimeOut(t) \/ WriteFails(t)
  PROVE  Inv'
  <1>1. /\ Fails(t)
        /\ UNCHANGED <<state, shutdown, wire, record, installs, serving, lease>>
        /\ stream' \in Threads \union {NoThread}
    BY DEF TimeOut, WriteFails, agentVars, linkVars, Inv, TypeOK
  <1>2. PICK c \in Call : call' = [call EXCEPT ![t] = c] /\ CallTrue(t, c)'
    BY <1>1, FailsEffect
  <1> QED
    BY <1>1, <1>2, FailsEffect, QuietKeeps DEF Inv, TypeOK

\* What a thread may make of the leases: adopt a hook, or take over what a true
\* receipt says of a lease that it holds the gate for and that is not released.
LeaseMove(t) ==
  \/ UNCHANGED lease
  \/ \E id \in Ids, l \in Lease :
       /\ lease' = [lease EXCEPT ![id] = l]
       /\ LeaseTrue(id, l)
       /\ \/ lease[id] = None
          \/ /\ Held(id) /\ writer = t
             /\ l.shown \in {lease[id].shown, "Restored"}

LEMMA LeaseMoveKeeps ==
  ASSUME TypeOK, LeaseInv, NEW t, LeaseMove(t), UNCHANGED record
  PROVE  /\ lease' \in [Ids -> Lease \union {None}] /\ LeaseInv'
         /\ writer = t \/ \A h \in Ids : Held(h) => Held(h)'
  <1>1. CASE UNCHANGED lease
    BY <1>1 DEF TypeOK, LeaseInv, LeaseTrue, Known, Held
  <1>2. CASE ~ UNCHANGED lease
    <2>1. PICK id \in Ids, l \in Lease :
            /\ lease' = [lease EXCEPT ![id] = l]
            /\ LeaseTrue(id, l)
            /\ lease[id] = None \/ (Held(id) /\ writer = t)
      BY <1>2 DEF LeaseMove
    <2>2. /\ lease' \in [Ids -> Lease \union {None}] /\ lease'[id] = l
          /\ \A h \in Ids \ {id} : lease'[h] = lease[h]
      BY <2>1 DEF TypeOK
    <2>3. LeaseInv'
      BY <2>1, <2>2 DEF LeaseInv, LeaseTrue, Known
    <2> QED
      BY <2>1, <2>2, <2>3 DEF Held
  <1> QED
    BY <1>1, <1>2

LEMMA UpdatedMoves ==
  ASSUME TypeOK, LeaseInv, NEW t, NEW id \in Ids, Held(id), writer = t,
         NEW rc \in Receipt \union {None}, rc # None => TrueReceipt(rc),
         NEW shown \in Target,
         shown = lease[id].shown
           \/ (shown = "Restored" /\ rc # None /\ rc.target = "Restored"),
         lease' = Updated(id, rc, shown)
  PROVE  LeaseMove(t) /\ \A h \in Ids \ {id} : lease'[h] = lease[h]
  <1>1. CASE rc = None \/ rc.id # id
    BY <1>1 DEF Updated, LeaseMove
  <1>2. CASE rc # None /\ rc.id = id
    <2>1. PICK l \in Lease : l = [body |-> rc.body, own |-> rc.own,
                                  target |-> rc.target, shown |-> shown]
      BY <1>2 DEF Receipt, Lease
    <2>2. l.body = rc.body /\ l.own = rc.own /\ l.target = rc.target /\ l.shown = shown
      BY <2>1
    <2>3. lease' = [lease EXCEPT ![id] = l]
      BY <1>2, <2>1 DEF Updated
    <2>4. LeaseTrue(id, lease[id]) /\ lease[id] # None
      BY DEF LeaseInv, Held
    <2>5. LeaseTrue(id, l)
      BY <1>2, <2>2, <2>4 DEF LeaseTrue, TrueReceipt
    <2> QED
      BY <2>2, <2>3, <2>5 DEF LeaseMove, TypeOK
  <1> QED
    BY <1>1, <1>2

\* A read reply changes the reader's call, and perhaps the lease it is about.
LEMMA ReplyEffect ==
  ASSUME Inv, NEW t \in Threads, NEW r \in Reply, TrueReply(r), UNCHANGED record,
         \/ ExecuteEnds(t, r) \/ ProbeEnds(t, r) \/ DiscardEnds(t)
         \/ ReleaseEnds(t, r) \/ UninstallEnds(t, r) \/ CleanupContinues(t, r)
  PROVE  /\ \E c \in Call : call' = [call EXCEPT ![t] = c] /\ CallTrue(t, c)'
         /\ LeaseMove(t)
         /\ writer' = writer \/ (writer = t /\ writer' = NoThread)
  <1>1. TypeOK /\ LeaseInv /\ CallInv
    BY DEF Inv
  <1>2. PICK c \in Call : c = call[t] /\ CallTrue(t, c)
    BY <1>1 DEF TypeOK, CallInv
  <1>3. PICK idle \in Call : idle = Idle /\ CallTrue(t, idle)'
    BY RestingCalls DEF Idle, Doing, CallTrue, Exclusive
  <1>4. PICK mark \in Call : mark = [Idle EXCEPT !.op = "mark"] /\ CallTrue(t, mark)'
    BY RestingCalls DEF Idle, Doing, CallTrue, Exclusive
  <1>5. r.receipt \in Receipt \union {None}
    BY DEF Reply
  <1>6. CASE ExecuteEnds(t, r)
    <2>1. CASE Adoptable(c, r)
      <3>1. PICK k \in Call : k = [c EXCEPT !.op = "adopt"]
        BY DEF Call, Ops
      <3>2. /\ k.op = "adopt" /\ k.id = c.id /\ k.body = c.body /\ k.todo = c.todo
            /\ c.op = "execute"
        BY <1>2, <1>6, <3>1 DEF Call, ExecuteEnds
      <3>3. c.id \in Ids /\ c.body \in Bodies /\ c.todo = {}
        BY <1>2, <3>2 DEF CallTrue
      <3>4. /\ r.receipt # None /\ r.receipt.id = c.id /\ r.receipt.body = c.body
            /\ r.receipt.own = "Owned" /\ TrueReceipt(r.receipt)
        BY <2>1 DEF Adoptable, Owns, TrueReply
      <3>5. record[c.id] # None /\ record[c.id] \in Record
        BY <1>1, <3>3, <3>4 DEF TrueReceipt, TypeOK
      <3>6. Known(c.id) /\ record[c.id].body = c.body
        BY <3>4, <3>5 DEF TrueReceipt, Known, Record, Ownership
      <3>7. CallTrue(t, k)'
        BY <3>2, <3>3, <3>6 DEF CallTrue, Exclusive, Known
      <3>8. call' = [call EXCEPT ![t] = k]
        BY <1>2, <1>6, <2>1, <3>1 DEF ExecuteEnds, Put
      <3> QED
        BY <1>6, <3>7, <3>8 DEF ExecuteEnds, LeaseMove
    <2>2. CASE ~ Adoptable(c, r)
      BY <1>2, <1>3, <1>4, <1>6, <2>2 DEF ExecuteEnds, Put, LeaseMove
    <2> QED
      BY <2>1, <2>2
  <1>7. CASE ProbeEnds(t, r)
    BY <1>3, <1>4, <1>7 DEF ProbeEnds, Put, LeaseMove
  <1>8. CASE DiscardEnds(t)
    BY <1>3, <1>8 DEF DiscardEnds, Finish, Put, LeaseMove
  <1>9. CASE ReleaseEnds(t, r)
    <2>1. c.op = "release" /\ c.id \in Ids /\ Held(c.id) /\ writer = t
      BY <1>2, <1>9 DEF ReleaseEnds, CallTrue, Exclusive
    <2>2. PICK shown \in Target : shown = lease[c.id].shown
      BY <1>1, <2>1 DEF TypeOK, Held, Lease
    <2>3. LeaseMove(t)
      BY <1>1, <1>2, <1>5, <1>9, <2>1, <2>2, UpdatedMoves
      DEF ReleaseEnds, TrueReply, LeaseMove
    <2> QED
      BY <1>3, <1>9, <2>3 DEF ReleaseEnds, Finish, Put
  <1>10. CASE UninstallEnds(t, r)
    <2>1. c.op = "uninstall" /\ c.id \in Ids /\ Held(c.id) /\ writer = t
      BY <1>2, <1>10 DEF UninstallEnds, CallTrue, Exclusive
    <2>2. PICK shown \in Target :
            shown = IF r.kind = "Uninstall" THEN "Restored" ELSE lease[c.id].shown
      BY <1>1, <2>1 DEF TypeOK, Held, Lease, Target
    <2>3. LeaseMove(t)
      <3>1. CASE lease' = Updated(c.id, r.receipt, shown)
        BY <1>1, <1>5, <2>1, <2>2, <3>1, UpdatedMoves DEF TrueReply
      <3>2. CASE lease' = lease
        BY <3>2 DEF LeaseMove
      <3> QED
        BY <1>2, <1>10, <2>2, <3>1, <3>2 DEF UninstallEnds
    <2> QED
      BY <1>3, <1>10, <2>3 DEF UninstallEnds, Finish, Put
  <1>11. CASE CleanupContinues(t, r)
    <2>1. /\ c.op \in {"cleanup", "detach"} /\ writer = t /\ writer' = writer
          /\ c.id # None => c.id \in Ids /\ Held(c.id)
      BY <1>2, <1>11 DEF CleanupContinues, CallTrue, Exclusive, Call
    <2>2. PICK failed \in BOOLEAN : failed = (c.failed \/ ~Owns(c.id, r, "Release"))
      OBVIOUS
    <2>3. PICK k \in Call :
            k = [c EXCEPT !.id = None, !.todo = @ \ {c.id}, !.failed = failed]
      BY DEF Call
    <2>4. /\ k.op = c.op /\ k.id = None /\ k.todo = c.todo \ {c.id}
          /\ call' = [call EXCEPT ![t] = k]
      BY <1>2, <1>11, <2>2, <2>3 DEF CleanupContinues, Put, Call
    <2>5. LeaseMove(t) /\ \A h \in Ids \ {c.id} : lease'[h] = lease[h]
      <3>1. CASE c.id = None
        <4>1. r.receipt = None \/ r.receipt.id # c.id
          BY <1>5, <3>1, NoneAssumption DEF Receipt
        <4> QED
          BY <1>2, <1>11, <4>1 DEF CleanupContinues, Updated, LeaseMove
      <3>2. CASE c.id # None
        <4>1. PICK shown \in Target : shown = lease[c.id].shown
          BY <1>1, <2>1, <3>2 DEF TypeOK, Held, Lease
        <4>2. CASE lease' = Updated(c.id, r.receipt, shown)
          BY <1>1, <1>5, <2>1, <3>2, <4>1, <4>2, UpdatedMoves DEF TrueReply
        <4>3. CASE lease' = lease
          BY <4>3 DEF LeaseMove
        <4> QED
          BY <1>2, <1>11, <4>1, <4>2, <4>3 DEF CleanupContinues
      <3> QED
        BY <3>1, <3>2
    <2>6. \A h \in k.todo : h \in Ids \ {c.id} /\ Held(h)
      BY <1>2, <2>4 DEF CallTrue, Call
    <2>7. CallTrue(t, k)'
      BY <2>1, <2>4, <2>5, <2>6 DEF CallTrue, Held, Exclusive
    <2> QED
      BY <2>1, <2>4, <2>5, <2>7
  <1> QED
    BY <1>6, <1>7, <1>8, <1>9, <1>10, <1>11

LEMMA ReceiveStep ==
  ASSUME Inv, NEW t \in Threads, Receive(t)
  PROVE  Inv' /\ LeaseMove(t)
  <1>1. TypeOK /\ WireInv /\ RecordInv /\ LeaseInv /\ CallInv
    BY DEF Inv
  <1>2. /\ wire # << >> /\ Head(wire).reply # None /\ wire' = Tail(wire)
        /\ stream' = NoThread
        /\ UNCHANGED <<state, shutdown, serving, record, installs, unnoticed>>
    BY DEF Receive, agentVars
  <1>3. PICK r \in Reply : r = Head(wire).reply /\ TrueReply(r)
    BY <1>1, <1>2, Read
  <1>4. wire' \in Seq(Exchange) /\ WireInv'
    BY <1>1, <1>2, Read
  <1>5. /\ \E c \in Call : call' = [call EXCEPT ![t] = c] /\ CallTrue(t, c)'
        /\ LeaseMove(t)
        /\ writer' = writer \/ (writer = t /\ writer' = NoThread)
    BY <1>2, <1>3, ReplyEffect DEF Receive
  <1>6. PICK c \in Call : call' = [call EXCEPT ![t] = c] /\ CallTrue(t, c)'
    BY <1>5
  <1>7. /\ lease' \in [Ids -> Lease \union {None}] /\ LeaseInv'
        /\ writer = t \/ \A h \in Ids : Held(h) => Held(h)'
    BY <1>1, <1>2, <1>5, LeaseMoveKeeps
  <1>8. call' \in [Threads -> Call] /\ CallInv'
    BY <1>1, <1>2, <1>5, <1>6, <1>7, CallsKeep, ThreadsAssumption
  <1>9. TypeOK'
    BY <1>1, <1>2, <1>4, <1>5, <1>7, <1>8 DEF TypeOK
  <1>10. RecordInv'
    BY <1>1, <1>2 DEF RecordInv
  <1> QED
    BY <1>4, <1>5, <1>7, <1>8, <1>9, <1>10 DEF Inv

LEMMA AdoptStep ==
  ASSUME Inv, NEW t \in Threads, Adopt(t)
  PROVE  Inv' /\ LeaseMove(t)
  <1>1. TypeOK /\ WireInv /\ RecordInv /\ LeaseInv /\ CallInv
    BY DEF Inv
  <1>2. PICK c \in Call : c = call[t] /\ CallTrue(t, c)
    BY <1>1 DEF TypeOK, CallInv
  <1>3. /\ c.op = "adopt" /\ c.id \in Ids /\ c.body \in Bodies /\ c.todo = {}
        /\ Known(c.id) /\ record[c.id].body = c.body /\ writer = NoThread
    BY <1>2 DEF Adopt, CallTrue, CanWrite
  <1>4. UNCHANGED <<state, shutdown, stream, wire, serving, record, installs, unnoticed>>
    BY DEF Adopt, agentVars, linkVars
  <1>5. PICK idle \in Call : idle = Idle /\ CallTrue(t, idle)'
    BY RestingCalls DEF Idle, Doing, CallTrue, Exclusive
  <1>6. CASE lease[c.id] = None /\ state = "Attached"
    <2>1. PICK l \in Lease : l = [body |-> c.body, own |-> "Owned",
                                  target |-> "Installed", shown |-> "Installed"]
      BY <1>3 DEF Lease, Ownership, Target
    <2>2. lease' = [lease EXCEPT ![c.id] = l] /\ LeaseTrue(c.id, l)
      BY <1>2, <1>3, <1>6, <2>1 DEF Adopt, LeaseTrue
    <2>3. LeaseMove(t)
      BY <1>3, <1>6, <2>2 DEF LeaseMove
    <2>4. /\ lease' \in [Ids -> Lease \union {None}] /\ LeaseInv'
          /\ writer = t \/ \A h \in Ids : Held(h) => Held(h)'
      BY <1>1, <1>4, <2>3, LeaseMoveKeeps
    <2>5. call' = [call EXCEPT ![t] = idle] /\ writer' = writer
      BY <1>2, <1>5, <1>6 DEF Adopt, Put
    <2>6. call' \in [Threads -> Call] /\ CallInv'
      BY <1>1, <1>4, <1>5, <2>4, <2>5, CallsKeep
    <2>7. TypeOK'
      BY <1>1, <1>4, <2>4, <2>5, <2>6 DEF TypeOK
    <2>8. WireInv' /\ RecordInv'
      BY <1>1, <1>4, SameWire DEF RecordInv
    <2> QED
      BY <2>3, <2>4, <2>6, <2>7, <2>8 DEF Inv
  <1>7. CASE ~ (lease[c.id] = None /\ state = "Attached")
    <2>1. UNCHANGED lease
      BY <1>2, <1>7 DEF Adopt
    <2>2. CASE lease[c.id] # None
      <3>1. call' = [call EXCEPT ![t] = idle] /\ writer' = writer
        BY <1>2, <1>5, <2>2 DEF Adopt, Put
      <3> QED
        BY <1>1, <1>4, <1>5, <2>1, <3>1, QuietKeeps DEF TypeOK, LeaseMove
    <2>3. CASE lease[c.id] = None
      <3>1. PICK k \in Call : k = [c EXCEPT !.op = "discard"]
        BY DEF Call, Ops
      <3>2. k.op = "discard" /\ k.id = c.id /\ k.body = c.body /\ k.todo = {}
        BY <1>3, <3>1 DEF Call
      <3>3. call' = [call EXCEPT ![t] = k] /\ writer' = t
        BY <1>2, <1>7, <2>3, <3>1 DEF Adopt, Put
      <3>4. CallTrue(t, k)'
        BY <1>3, <1>4, <3>2, <3>3 DEF CallTrue, Known, Exclusive
      <3> QED
        BY <1>1, <1>3, <1>4, <2>1, <3>3, <3>4, QuietKeeps DEF TypeOK, LeaseMove
    <2> QED
      BY <2>2, <2>3
  <1> QED
    BY <1>6, <1>7

\* Giving the session up, writing Exit, and the end of a cleanup.
LEMMA EndStep ==
  ASSUME Inv, NEW t \in Threads, Mark(t) \/ WriteExit(t) \/ CleanupEnds(t)
  PROVE  Inv'
  <1>1. TypeOK /\ WireInv /\ RecordInv /\ LeaseInv /\ CallInv
    BY DEF Inv
  <1>2. PICK c \in Call : c = call[t] /\ CallTrue(t, c)
    BY <1>1 DEF TypeOK, CallInv
  <1>3. PICK idle \in Call : idle = Idle /\ CallTrue(t, idle)'
    BY RestingCalls DEF Idle, Doing, CallTrue, Exclusive
  <1>4. PICK todo \in SUBSET Ids : todo = Unreleased
    BY DEF Unreleased
  <1>5. \A h \in todo : h \in Ids /\ Held(h)
    BY <1>4 DEF Unreleased, Held
  <1>6. CASE Mark(t)
    <2>1. PICK k \in Call : k = Doing("cleanup", None, None, todo, FALSE)
      BY DoingCall DEF Ops
    <2>2. k.op = "cleanup" /\ k.id = None /\ k.todo = todo
      BY <2>1 DEF Doing
    <2>3. /\ UNCHANGED <<wire, stream, shutdown, record, installs, serving, lease, unnoticed>>
          /\ writer = NoThread
      BY <1>6 DEF Mark, linkVars, agentVars, CanWrite
    <2>4. CASE state = "Detached"
      <3>1. call' = [call EXCEPT ![t] = idle] /\ writer' = writer /\ state' = state
        BY <1>3, <1>6, <2>4 DEF Mark, Put
      <3> QED
        BY <1>1, <1>3, <2>3, <3>1, QuietKeeps DEF TypeOK
    <2>5. CASE state # "Detached"
      <3>1. call' = [call EXCEPT ![t] = k] /\ writer' = t /\ state' = "Failed"
        BY <1>4, <1>6, <2>1, <2>5 DEF Mark, Put
      <3>2. CallTrue(t, k)'
        BY <1>5, <2>2, <2>3, <3>1 DEF CallTrue, Held, Exclusive
      <3> QED
        BY <1>1, <2>3, <3>1, <3>2, QuietKeeps DEF TypeOK
    <2> QED
      BY <2>4, <2>5
  <1>7. CASE CleanupEnds(t)
    <2>1. /\ UNCHANGED <<wire, stream, shutdown, record, installs, serving, lease, unnoticed>>
          /\ call' = [call EXCEPT ![t] = idle]
          /\ state' \in {"Attached", "Failed", "Detached"}
          /\ writer' = writer \/ (writer = t /\ writer' = NoThread)
      BY <1>1, <1>3, <1>7
      DEF CleanupEnds, linkVars, agentVars, Finish, Put, TypeOK
    <2> QED
      BY <1>1, <1>3, <2>1, QuietKeeps DEF TypeOK
  <1>8. CASE WriteExit(t)
    <2>1. /\ UNCHANGED <<state, writer, stream, serving, record, installs, lease, unnoticed>>
          /\ c.op = "exit" /\ writer = t
      BY <1>2, <1>8 DEF WriteExit, agentVars, CallTrue, Exclusive
    <2>2. PICK failed \in BOOLEAN :
            /\ call' = [call EXCEPT ![t] = Doing("detach", None, None, todo, failed)]
            /\ shutdown' \in BOOLEAN
            /\ \/ wire' = wire
               \/ wire' = Append(wire, [command |-> "Exit", id |-> None, body |-> None,
                                       reply |-> None])
      BY <1>1, <1>4, <1>8 DEF WriteExit, Put, TypeOK
    <2>3. PICK k \in Call : k = Doing("detach", None, None, todo, failed)
      BY DoingCall DEF Ops
    <2>4. k.op = "detach" /\ k.id = None /\ k.todo = todo
      BY <2>3 DEF Doing
    <2>5. CallTrue(t, k)'
      BY <1>5, <2>1, <2>4 DEF CallTrue, Held, Exclusive
    <2>6. call' \in [Threads -> Call] /\ CallInv'
      BY <1>1, <2>1, <2>2, <2>3, <2>5, CallsKeep DEF Held
    <2>7. PICK f \in Exchange :
            f = [command |-> "Exit", id |-> None, body |-> None, reply |-> None]
      BY DEF Exchange, Commands
    <2>8. TrueExchange(f)
      BY <2>7 DEF TrueExchange
    <2>9. wire' \in Seq(Exchange) /\ WireInv'
      BY <1>1, <2>1, <2>2, <2>7, <2>8, SameWire, Written DEF TypeOK
    <2>10. TypeOK' /\ RecordInv' /\ LeaseInv'
      BY <1>1, <2>1, <2>2, <2>6, <2>9
      DEF TypeOK, RecordInv, LeaseInv, LeaseTrue, Known
    <2> QED
      BY <2>6, <2>9, <2>10 DEF Inv
  <1> QED
    BY <1>6, <1>7, <1>8

LEMMA InitInv ==
  ASSUME Init
  PROVE  Inv
  <1>1. PICK idle \in Call : idle = Idle /\ \A t \in Threads : CallTrue(t, idle)
    BY RestingCalls DEF Idle, Doing, CallTrue, Exclusive
  <1>2. CallInv /\ call \in [Threads -> Call]
    BY <1>1 DEF Init, CallInv
  <1>3. TypeOK
    <2>1. /\ record \in [Ids -> Record \union {None}]
          /\ lease \in [Ids -> Lease \union {None}]
          /\ installs \in [Ids -> Nat]
      BY DEF Init
    <2>2. wire \in Seq(Exchange)
      BY DEF Init
    <2> QED
      BY <1>2, <2>1, <2>2 DEF Init, TypeOK
  <1>4. WireInv /\ RecordInv /\ LeaseInv
    BY DEF Init, WireInv, RecordInv, LeaseInv
  <1> QED
    BY <1>2, <1>3, <1>4 DEF Inv

\* Every step keeps the invariant, and either moves the agent's records forward,
\* or moves a lease, or changes neither.
Moves == \/ UNCHANGED lease /\ \A h \in Ids : Forward(h)
         \/ UNCHANGED record /\ \E t \in Threads : LeaseMove(t)
         \/ UNCHANGED <<record, lease>>

LEMMA NextInv ==
  ASSUME Inv, [Next]_vars
  PROVE  Inv' /\ Moves
  <1>1. CASE Agent
    <2>1. UNCHANGED lease
      BY <1>1 DEF Agent, AgentExecute, AgentRelease, AgentUninstall, AgentProbe,
                  AgentExit, Replay, Fresh, Become, Answer
    <2> QED
      BY <1>1, <2>1, AgentStep DEF Moves
  <1>2. ASSUME NEW t \in Threads, Begin(t)
        PROVE  Inv' /\ Moves
    <2>1. UNCHANGED <<record, lease>>
      BY <1>2 DEF Begin, BeginExecute, BeginProbe, BeginRelease, BeginCleanup,
                  BeginDetach, agentVars
    <2> QED
      BY <1>2, <2>1, BeginStep DEF Moves
  <1>3. ASSUME NEW t \in Threads, Send(t)
        PROVE  Inv' /\ Moves
    <2>1. UNCHANGED <<record, lease>>
      BY <1>3 DEF Send, Write, agentVars
    <2> QED
      BY <1>3, <2>1, SendStep DEF Moves
  <1>4. ASSUME NEW t \in Threads, Receive(t)
        PROVE  Inv' /\ Moves
    <2>1. UNCHANGED record
      BY <1>4 DEF Receive, agentVars
    <2> QED
      BY <1>4, <2>1, ReceiveStep DEF Moves
  <1>5. ASSUME NEW t \in Threads, TimeOut(t) \/ WriteFails(t)
        PROVE  Inv' /\ Moves
    <2>1. UNCHANGED <<record, lease>>
      BY <1>5 DEF TimeOut, WriteFails, agentVars
    <2> QED
      BY <1>5, <2>1, FailStep DEF Moves
  <1>6. ASSUME NEW t \in Threads, Adopt(t)
        PROVE  Inv' /\ Moves
    <2>1. UNCHANGED record
      BY <1>6 DEF Adopt, agentVars
    <2> QED
      BY <1>6, <2>1, AdoptStep DEF Moves
  <1>7. ASSUME NEW t \in Threads, Mark(t) \/ WriteExit(t) \/ CleanupEnds(t)
        PROVE  Inv' /\ Moves
    <2>1. UNCHANGED <<record, lease>>
      BY <1>7 DEF Mark, WriteExit, CleanupEnds, agentVars
    <2> QED
      BY <1>7, <2>1, EndStep DEF Moves
  <1>8. CASE UNCHANGED vars
    <2>1. WireInv'
      BY <1>8, SameWire DEF Inv, vars
    <2> QED
      BY <1>8, <2>1
      DEF vars, Inv, TypeOK, RecordInv, LeaseInv, LeaseTrue, CallInv, CallTrue, Held,
          Known, Moves
  <1> QED
    BY <1>1, <1>2, <1>3, <1>4, <1>5, <1>6, <1>7, <1>8 DEF Next, Step

\* The invariant holds of every reachable state.
THEOREM InvHolds == Spec => []Inv
  <1>1. Inv /\ [Next]_vars => Inv'
    BY NextInv
  <1> QED
    BY <1>1, InitInv, PTL DEF Spec

\* Type correctness of agent, stream and leases.
THEOREM TypeCorrect == Spec => []TypeOK
  <1>1. Inv => TypeOK
    BY DEF Inv
  <1> QED
    BY <1>1, InvHolds, PTL

\* A request calls its backend at most once, for any requests and any threads.
THEOREM InstallsAtMostOnce == Spec => []InstallsOnce
  <1>1. Inv => InstallsOnce
    BY DEF Inv, RecordInv, InstallsOnce
  <1> QED
    BY <1>1, InvHolds, PTL

\* Every lease is on a hook that the agent has made for that request.
THEOREM LeasesHold == Spec => []LeasesAreTrue
  <1>1. Inv => LeasesAreTrue
    BY DEF Inv, LeaseInv, LeaseTrue, Known, LeasesAreTrue
  <1> QED
    BY <1>1, InvHolds, PTL

\* The controller believes no handle released and no target restored too early.
THEOREM CopyLags == Spec => []CopyNeverAhead
  <1>1. Inv => CopyNeverAhead
    BY DEF Inv, LeaseInv, LeaseTrue, CopyNeverAhead
  <1> QED
    BY <1>1, InvHolds, PTL

(***************************************************************************)
(* The refinement                                                          *)
(***************************************************************************)
LEMMA TruthAdvances ==
  ASSUME \A h \in Ids : Forward(h)
  PROVE  /\ Truth' \in [Ids -> Promise!Hook]
         /\ \A h \in Ids : Promise!Follows(Truth[h], Truth'[h])
  <1>1. Truth' \in [Ids -> Promise!Hook]
    BY DEF Truth, Made, Promise!Hook
  <1>2. ASSUME NEW h \in Ids
        PROVE  Promise!Follows(Truth[h], Truth'[h])
    <2>1. /\ Truth[h].made <=> Made(h)
          /\ Truth[h].held <=> (Made(h) => record[h].own # "Released")
          /\ Truth[h].hooked <=> (Made(h) => record[h].target # "Restored")
      BY DEF Truth
    <2>2. /\ Truth'[h].made <=> Made(h)'
          /\ Truth'[h].held <=> (Made(h)' => record'[h].own # "Released")
          /\ Truth'[h].hooked <=> (Made(h)' => record'[h].target # "Restored")
      BY DEF Truth
    <2>3. Made(h) =>
            /\ Made(h)'
            /\ record[h].own = "Released" => record'[h].own = "Released"
            /\ record[h].target = "Restored" => record'[h].target = "Restored"
      BY DEF Made, Forward
    <2> QED
      BY <2>1, <2>2, <2>3 DEF Promise!Follows
  <1> QED
    BY <1>1, <1>2

LEMMA CopyLearns ==
  ASSUME Inv, NEW t \in Threads, LeaseMove(t), UNCHANGED record
  PROVE  UNCHANGED <<Truth, Copy>> \/ \E h \in Ids : Promise!Learn(h)
  <1>1. CASE UNCHANGED lease
    BY <1>1 DEF Truth, Copy, Made
  <1>2. CASE ~ UNCHANGED lease
    <2>1. TypeOK /\ LeaseInv
      BY DEF Inv
    <2>2. PICK id \in Ids, l \in Lease :
            /\ lease' = [lease EXCEPT ![id] = l]
            /\ LeaseTrue(id, l)
            /\ \/ lease[id] = None
               \/ Held(id) /\ l.shown \in {lease[id].shown, "Restored"}
      BY <1>2 DEF LeaseMove
    <2>3. l # None
      BY NoneAssumption
    <2> DEFINE c == [made |-> TRUE, held |-> l.own # "Released",
                     hooked |-> l.shown # "Restored"]
    <2>4. c \in Promise!Hook
      BY DEF Promise!Hook
    <2>5. /\ c.made
          /\ c.held <=> l.own # "Released"
          /\ c.hooked <=> l.shown # "Restored"
      OBVIOUS
    <2>6. Copy' = [Copy EXCEPT ![id] = c]
      BY <2>1, <2>2, <2>3 DEF Copy, TypeOK
    <2>7. /\ Copy[id].made <=> lease[id] # None
          /\ Copy[id].held <=> (lease[id] # None => lease[id].own # "Released")
          /\ Copy[id].hooked <=> (lease[id] # None => lease[id].shown # "Restored")
      BY DEF Copy
    <2>8. Promise!Follows(Copy[id], c)
      BY <2>2, <2>5, <2>7 DEF Held, Promise!Follows
    <2>9. /\ Truth[id].made <=> Made(id)
          /\ Truth[id].held <=> (Made(id) => record[id].own # "Released")
          /\ Truth[id].hooked <=> (Made(id) => record[id].target # "Restored")
      BY DEF Truth
    <2>10. Made(id)
      BY <2>2 DEF LeaseTrue, Known, Made
    <2>11. Promise!Follows(c, Truth[id])
      BY <2>2, <2>5, <2>9, <2>10 DEF LeaseTrue, Promise!Follows
    <2>12. UNCHANGED Truth
      BY DEF Truth, Made
    <2> QED
      BY <2>4, <2>6, <2>8, <2>11, <2>12 DEF Promise!Learn
  <1> QED
    BY <1>1, <1>2

\* Agent and leases implement HookOwnership: both ends only move forward, and
\* the controller's copy never claims what is not yet true.
THEOREM OwnershipImplemented == Spec => ImplementsOwnership
  <1>1. Init => Promise!Init
    BY DEF Init, Truth, Copy, Made, Promise!Init, Promise!Unmade
  <1>2. Inv /\ [Next]_vars => [Promise!Next]_<<Truth, Copy>>
    <2> SUFFICES ASSUME Inv, [Next]_vars
                 PROVE  [Promise!Next]_<<Truth, Copy>>
      OBVIOUS
    <2>1. CASE UNCHANGED lease /\ \A h \in Ids : Forward(h)
      <3>1. UNCHANGED Copy
        BY <2>1 DEF Copy
      <3> QED
        BY <2>1, <3>1, TruthAdvances DEF Promise!Next, Promise!Advance
    <2>2. CASE UNCHANGED record /\ \E t \in Threads : LeaseMove(t)
      BY <2>2, CopyLearns DEF Promise!Next
    <2>3. CASE UNCHANGED <<record, lease>>
      BY <2>3 DEF Truth, Copy, Made
    <2> QED
      BY <2>1, <2>2, <2>3, NextInv DEF Moves
  <1> QED
    BY <1>1, <1>2, InvHolds, PTL DEF Spec, ImplementsOwnership, Promise!Spec

(***************************************************************************)
(* No hook is lost unnoticed                                               *)
(***************************************************************************)
\* The session is being given up: it is no longer attached, or a thread that
\* will see to that is waiting for the gate.
Doomed == state # "Attached" \/ \E t \in Threads : call[t].op = "mark"
Watched == ~unnoticed /\ ~Doomed

\* The exchange of the thread with the stream: an execute asks for what its call
\* asks for, and only hooks with a lease are given back.
Serves(e, c) ==
  /\ e.command = "Execute" => c.op = "execute" /\ c.id = e.id /\ c.body = e.body
  /\ e.command \in {"Release", "Uninstall"} => lease[e.id] # None

\* As long as no failure has gone unnoticed only the last exchange has a reply
\* to come, and the thread that asked for it has the stream.
Settled(i) == \/ wire[i].command = "Exit" /\ wire[i].reply = None
              \/ /\ wire[i].command # "Exit"
                 /\ i = Len(wire)
                 /\ stream \in Threads
                 /\ Serves(wire[i], call[stream])
CleanWire == \A i \in DOMAIN wire : Settled(i)

\* The reply that makes a hook the caller's own is waiting for it.
Hands(r, c, id) ==
  /\ r # None
  /\ r.kind = "Execute"
  /\ r.receipt = [id |-> id, body |-> c.body, own |-> "Owned", target |-> "Installed"]
Waiting(c, id) == \E i \in DOMAIN wire : Hands(wire[i].reply, c, id)

\* The thread is about to adopt the hook of this request.
Claims(t, id) ==
  /\ call[t].id = id
  /\ \/ call[t].op = "adopt"
     \/ call[t].op = "execute" /\ stream = t /\ Waiting(call[t], id)
OwnedHere(id) == record[id] # None /\ record[id].own = "Owned"
Claimed == \A id \in Ids :
  OwnedHere(id) /\ lease[id] = None => \E t \in Threads : Claims(t, id)

DiscardInv == \A t \in Threads : call[t].op = "discard" => state # "Attached"
StrayInv == DiscardInv /\ (Watched => CleanWire /\ Claimed)

\* An answer to an exchange with no reply takes no claim away.
LEMMA AnswerStray ==
  ASSUME Inv, StrayInv, NEW i \in DOMAIN wire, Unanswered(i),
         wire[i].command # "Exit",
         NEW kind \in Commands \union {"Error"}, NEW rc \in Receipt \union {None},
         Answer(i, kind, rc),
         Watched /\ CleanWire =>
           \A id \in Ids : OwnedHere(id)' /\ lease[id] = None =>
             \/ OwnedHere(id)
             \/ /\ wire[i].command = "Execute" /\ wire[i].id = id
                /\ kind = "Execute"
                /\ rc = [id |-> id, body |-> wire[i].body, own |-> "Owned",
                         target |-> "Installed"]
  PROVE  StrayInv'
  <1> DEFINE e == wire[i]
             r == [kind |-> kind, receipt |-> rc]
             f == [command |-> e.command, id |-> e.id, body |-> e.body, reply |-> r]
  <1>1. TypeOK
    BY DEF Inv
  <1>2. /\ r \in Reply /\ r # None /\ wire' \in Seq(Exchange)
        /\ DOMAIN wire' = DOMAIN wire /\ wire'[i] = f
        /\ \A j \in DOMAIN wire \ {i} : wire'[j] = wire[j]
    BY <1>1, AnswerEffect
  <1>3. UNCHANGED <<state, stream, lease, call, unnoticed>> /\ e.reply = None
    BY DEF Answer, Unanswered
  <1>4. DiscardInv' /\ (Watched' <=> Watched)
    BY <1>3 DEF StrayInv, DiscardInv, Watched, Doomed
  <1>5. ASSUME Watched
        PROVE  CleanWire' /\ Claimed'
    <2>1. CleanWire /\ Claimed
      BY <1>5 DEF StrayInv
    <2>2. Len(wire') = Len(wire)
      BY <1>1, <1>2 DEF TypeOK
    <2>3. f.command = e.command /\ f.id = e.id /\ f.body = e.body /\ f.reply = r
      OBVIOUS
    <2> HIDE DEF f
    <2>4. ASSUME NEW j \in DOMAIN wire
          PROVE  Settled(j)'
      <3>1. Settled(j)
        BY <2>1 DEF CleanWire
      <3>2. CASE j = i
        BY <1>2, <1>3, <2>2, <2>3, <3>1, <3>2 DEF Settled, Serves
      <3>3. CASE j # i
        BY <1>2, <1>3, <2>2, <3>1, <3>3 DEF Settled, Serves
      <3> QED
        BY <3>2, <3>3
    <2>5. CleanWire'
      BY <1>2, <2>4 DEF CleanWire
    <2>6. ASSUME NEW id \in Ids, OwnedHere(id)', lease[id] = None
          PROVE  \E t \in Threads : Claims(t, id)'
      <3>1. CASE OwnedHere(id)
        <4>1. PICK t \in Threads : Claims(t, id)
          BY <2>1, <2>6, <3>1 DEF Claimed
        <4>2. ASSUME Waiting(call[t], id)
              PROVE  Waiting(call[t], id)'
          <5>1. PICK j \in DOMAIN wire : Hands(wire[j].reply, call[t], id)
            BY <4>2 DEF Waiting
          <5>2. j # i
            BY <1>3, <5>1 DEF Hands
          <5> QED
            BY <1>2, <1>3, <5>1, <5>2 DEF Waiting, Hands
        <4> QED
          BY <1>3, <4>1, <4>2 DEF Claims
      <3>2. CASE ~ OwnedHere(id)
        <4>1. /\ e.command = "Execute" /\ e.id = id /\ kind = "Execute"
              /\ rc = [id |-> id, body |-> e.body, own |-> "Owned",
                       target |-> "Installed"]
          BY <1>5, <2>1, <2>6, <3>2
        <4>2. /\ stream \in Threads /\ call[stream].op = "execute"
              /\ call[stream].id = id /\ call[stream].body = e.body
          BY <2>1, <4>1 DEF CleanWire, Settled, Serves
        <4>3. Hands(r, call[stream], id)
          BY <1>2, <4>1, <4>2 DEF Hands
        <4> HIDE DEF r
        <4>4. Waiting(call[stream], id)'
          BY <1>2, <1>3, <2>3, <4>3 DEF Waiting, Hands
        <4> QED
          BY <1>3, <4>2, <4>4 DEF Claims
      <3> QED
        BY <3>1, <3>2
    <2> QED
      BY <1>3, <2>5, <2>6 DEF Claimed
  <1> QED
    BY <1>4, <1>5 DEF StrayInv

LEMMA ExecuteStray ==
  ASSUME Inv, StrayInv, NEW i \in DOMAIN wire, AgentExecute(i)
  PROVE  StrayInv'
  <1>1. TypeOK /\ WireInv
    BY DEF Inv
  <1>2. Unanswered(i) /\ wire[i].command = "Execute"
    BY DEF AgentExecute
  <1>3. PICK id \in Ids, body \in Bodies : wire[i].id = id /\ wire[i].body = body
    BY <1>1, <1>2 DEF WireInv, TrueExchange
  <1>4. CASE Replay(i)
    <2>1. record[id] # None /\ record[id] \in Record
      BY <1>1, <1>3, <1>4 DEF TypeOK, Replay, Recorded
    <2>2. PICK rc \in Receipt \union {None} : rc = ReceiptOf(id)
      BY <2>1 DEF ReceiptOf, Record, Receipt
    <2>3. PICK kind \in Commands \union {"Error"} :
            kind = IF record[id].body = body /\ record[id].own \in {"Owned", "Released"}
                   THEN "Execute" ELSE "Error"
      BY DEF Commands
    <2>4. Answer(i, kind, rc) /\ UNCHANGED record
      BY <1>3, <1>4, <2>2, <2>3 DEF Replay
    <2> QED
      BY <1>2, <2>4, AnswerStray DEF OwnedHere
  <1>5. CASE Fresh(i)
    <2>1. PICK own \in {"Owned", "Orphaned", "Rejected"}, target \in Target :
            /\ own = "Owned" => target = "Installed"
            /\ record' = [record EXCEPT ![id] =
                            [body |-> body, own |-> own, target |-> target]]
            /\ Answer(i, IF own = "Owned" THEN "Execute" ELSE "Error",
                      IF own = "Rejected" THEN None
                      ELSE [id |-> id, body |-> body, own |-> own,
                            target |-> target])
      BY <1>3, <1>5 DEF Fresh, Target
    <2>2. PICK rc \in Receipt \union {None} :
            rc = IF own = "Rejected" THEN None
                 ELSE [id |-> id, body |-> body, own |-> own, target |-> target]
      BY DEF Receipt, Ownership
    <2>3. PICK kind \in Commands \union {"Error"} :
            kind = IF own = "Owned" THEN "Execute" ELSE "Error"
      BY DEF Commands
    <2>4. Answer(i, kind, rc)
      BY <2>1, <2>2, <2>3
    <2>5. /\ record'[id].own = own
          /\ \A h \in Ids \ {id} : record'[h] = record[h]
      BY <1>1, <2>1 DEF TypeOK
    <2>6. \A h \in Ids : OwnedHere(h)' /\ ~ OwnedHere(h) => h = id /\ own = "Owned"
      BY <2>5 DEF OwnedHere
    <2>7. own = "Owned" =>
            /\ kind = "Execute"
            /\ rc = [id |-> id, body |-> body, own |-> "Owned", target |-> "Installed"]
      BY <2>1, <2>2, <2>3
    <2> QED
      BY <1>2, <1>3, <2>4, <2>6, <2>7, AnswerStray
  <1> QED
    BY <1>4, <1>5 DEF AgentExecute

\* Only hooks with a lease are given back, and those are no strays.
LEMMA GiveBackStray ==
  ASSUME Inv, StrayInv, NEW i \in DOMAIN wire,
         AgentRelease(i) \/ AgentUninstall(i)
  PROVE  StrayInv'
  <1>1. TypeOK /\ WireInv
    BY DEF Inv
  <1>2. wire[i].command \in {"Release", "Uninstall"} /\ Unanswered(i)
    BY DEF AgentRelease, AgentUninstall
  <1>3. PICK id \in Ids : wire[i].id = id /\ Known(id)
    BY <1>1, <1>2 DEF WireInv, TrueExchange
  <1>4. PICK r \in Record : r = record[id] /\ r.own \in {"Owned", "Released"}
    BY <1>1, <1>3 DEF TypeOK, Known
  <1>5. PICK body \in Bodies : body = r.body /\ r.target \in Target
    BY DEF Record
  <1>6. PICK kind \in {"Release", "Uninstall", "Error"}, own \in {"Owned", "Released"},
             target \in Target : Become(i, kind, own, target)
    <2>1. CASE AgentRelease(i)
      BY <1>3, <1>4, <1>5, <2>1 DEF AgentRelease
    <2>2. CASE AgentUninstall(i)
      BY <1>3, <1>4, <1>5, <2>2 DEF AgentUninstall, Target
    <2> QED
      BY <2>1, <2>2
  <1>7. PICK rc \in Receipt :
          rc = [id |-> id, body |-> body, own |-> own, target |-> target]
    BY DEF Receipt, Ownership
  <1>8. /\ Answer(i, kind, rc) /\ kind \in Commands \union {"Error"}
        /\ record' = [record EXCEPT ![id] = [body |-> body, own |-> own, target |-> target]]
    BY <1>3, <1>4, <1>5, <1>6, <1>7 DEF Become, Commands
  <1>9. \A h \in Ids \ {id} : record'[h] = record[h]
    BY <1>1, <1>8 DEF TypeOK
  <1>10. CleanWire => lease[id] # None
    BY <1>2, <1>3 DEF CleanWire, Settled, Serves
  <1> QED
    BY <1>2, <1>8, <1>9, <1>10, AnswerStray DEF OwnedHere

LEMMA ProbeStray ==
  ASSUME Inv, StrayInv, NEW i \in DOMAIN wire, AgentProbe(i)
  PROVE  StrayInv'
  <1>1. PICK kind \in Commands \union {"Error"} :
          kind = wire[i].command /\ kind \in {"Ping", "Rpc"}
    BY DEF AgentProbe, Commands
  <1> QED
    BY <1>1, AnswerStray DEF AgentProbe, OwnedHere

\* The exchanges after the one that is taken out move up by one.
LEMMA OthersMoveUp ==
  ASSUME NEW S, NEW s \in Seq(S), NEW i \in DOMAIN s
  PROVE  LET u == SubSeq(s, 1, i - 1) \o SubSeq(s, i + 1, Len(s))
         IN /\ u \in Seq(S)
            /\ Len(u) = Len(s) - 1
            /\ \A j \in 1 .. Len(u) : u[j] = IF j < i THEN s[j] ELSE s[j + 1]
  <1> DEFINE a == SubSeq(s, 1, i - 1)
             b == SubSeq(s, i + 1, Len(s))
  <1>1. i \in 1 .. Len(s) /\ Len(s) \in Nat /\ DOMAIN s = 1 .. Len(s) /\ i \in Int
    OBVIOUS
  <1>2. /\ a \in Seq(S) /\ Len(a) = i - 1
        /\ \A j \in 1 .. i - 1 : a[j] = s[j]
    BY <1>1
  <1>3. /\ b \in Seq(S) /\ Len(b) = Len(s) - i
        /\ \A j \in 1 .. Len(s) - i : b[j] = s[j + i]
    BY <1>1
  <1> HIDE DEF a, b
  <1>4. /\ a \o b \in Seq(S) /\ Len(a \o b) = Len(a) + Len(b)
        /\ \A j \in 1 .. Len(a) + Len(b) :
             (a \o b)[j] = IF j <= Len(a) THEN a[j] ELSE b[j - Len(a)]
    BY <1>2, <1>3
  <1>5. Len(a) + Len(b) = Len(s) - 1
    BY <1>1, <1>2, <1>3
  <1>6. ASSUME NEW j \in 1 .. Len(s) - 1
        PROVE  (a \o b)[j] = IF j < i THEN s[j] ELSE s[j + 1]
    <2>1. CASE j < i
      BY <1>1, <1>2, <1>4, <1>5, <2>1
    <2>2. CASE ~ (j < i)
      <3>1. PICK n \in Nat : n = Len(s) /\ j \in 1 .. n - 1 /\ i \in 1 .. n
        BY <1>1
      <3>2. PICK k \in 1 .. n - i : k = j - (i - 1) /\ k + i = j + 1
        <4>1. j - (i - 1) \in 1 .. n - i /\ j - (i - 1) + i = j + 1
          BY <2>2, <3>1
        <4> QED
          BY <4>1
      <3>3. b[k] = s[k + i]
        BY <1>3, <3>1, <3>2
      <3>4. (a \o b)[j] = b[j - (i - 1)]
        BY <1>1, <1>2, <1>4, <1>5, <2>2
      <3> QED
        BY <2>2, <3>2, <3>3, <3>4
    <2> QED
      BY <2>1, <2>2
  <1> QED
    BY <1>4, <1>5, <1>6 DEF a, b

\* The end of the loop gives every hook back, and the Exit leaves the stream.
LEMMA ExitStray ==
  ASSUME Inv, StrayInv, NEW i \in DOMAIN wire, AgentExit(i)
  PROVE  StrayInv'
  <1>1. TypeOK
    BY DEF Inv
  <1>2. /\ UNCHANGED <<state, stream, lease, call, unnoticed>>
        /\ wire[i].command = "Exit"
        /\ \A id \in Ids : ~ OwnedHere(id)'
    <2>1. ASSUME NEW id \in Ids
          PROVE  ~ OwnedHere(id)'
      <3>1. CASE record[id] # None /\ record[id].own = "Owned"
        <4>1. record'[id].own = "Released"
          BY <3>1 DEF AgentExit
        <4> QED
          BY <4>1 DEF OwnedHere
      <3>2. CASE ~ (record[id] # None /\ record[id].own = "Owned")
        <4>1. record'[id] = record[id]
          BY <3>2 DEF AgentExit
        <4> QED
          BY <3>2, <4>1 DEF OwnedHere
      <3> QED
        BY <3>1, <3>2
    <2> QED
      BY <2>1 DEF AgentExit
  <1>3. DiscardInv' /\ (Watched' <=> Watched)
    BY <1>2 DEF StrayInv, DiscardInv, Watched, Doomed
  <1>4. /\ wire' \in Seq(Exchange) /\ Len(wire') = Len(wire) - 1
        /\ \A j \in 1 .. Len(wire') : wire'[j] = IF j < i THEN wire[j] ELSE wire[j + 1]
    BY <1>1, OthersMoveUp DEF AgentExit, TypeOK
  <1>5. i \in 1 .. Len(wire) /\ Len(wire) \in Nat /\ DOMAIN wire = 1 .. Len(wire)
        /\ DOMAIN wire' = 1 .. Len(wire')
    BY <1>1, <1>4 DEF TypeOK
  <1>6. ASSUME CleanWire, NEW j \in DOMAIN wire'
        PROVE  Settled(j)'
    <2>1. PICK k \in DOMAIN wire : wire'[j] = wire[k] /\ k = IF j < i THEN j ELSE j + 1
      BY <1>4, <1>5
    <2>2. Settled(k)
      BY <1>6 DEF CleanWire
    <2>3. k # i /\ (k = Len(wire) => j = Len(wire'))
      BY <1>4, <1>5, <2>1
    <2> QED
      BY <1>2, <2>1, <2>2, <2>3 DEF Settled, Serves
  <1>7. CleanWire => CleanWire'
    BY <1>6 DEF CleanWire
  <1>8. Claimed'
    BY <1>2 DEF Claimed
  <1> QED
    BY <1>3, <1>7, <1>8 DEF StrayInv

LEMMA AgentStray ==
  ASSUME Inv, StrayInv, Agent
  PROVE  StrayInv'
  BY ExecuteStray, GiveBackStray, ProbeStray, ExitStray DEF Agent

\* A thread's step that neither brings a session back nor forgets a failure has
\* to keep the stream clean and the hooks claimed only while that is asked for.
LEMMA ThreadStray ==
  ASSUME Inv, StrayInv, NEW t \in Threads, NEW c \in Call,
         call' = [call EXCEPT ![t] = c],
         state' = "Attached" => state = "Attached",
         c.op = "discard" => state' # "Attached",
         call[t].op = "mark" => state' # "Attached",
         unnoticed => unnoticed',
         Watched /\ ~ unnoticed' /\ state' = "Attached" /\ c.op # "mark"
           /\ call[t].op # "mark" /\ CleanWire /\ Claimed
           => CleanWire' /\ Claimed'
  PROVE  StrayInv'
  <1>1. /\ call'[t] = c
        /\ \A u \in Threads \ {t} : call'[u] = call[u]
    BY DEF Inv, TypeOK
  <1>2. DiscardInv'
    BY <1>1 DEF StrayInv, DiscardInv
  <1>3. Watched' => /\ ~ unnoticed' /\ state' = "Attached" /\ c.op # "mark"
                    /\ Watched /\ call[t].op # "mark"
    BY <1>1 DEF Watched, Doomed
  <1> QED
    BY <1>2, <1>3 DEF StrayInv

\* A step of a thread that is not executing, and that leaves the stream alone.
LEMMA QuietStray ==
  ASSUME Inv, NEW t \in Threads, NEW c \in Call, call' = [call EXCEPT ![t] = c],
         UNCHANGED <<wire, stream, record>>, CleanWire, Claimed,
         call[t].op # "execute",
         call[t].op = "adopt" => lease'[call[t].id] # None,
         \A id \in Ids : lease[id] # None => lease'[id] # None
  PROVE  CleanWire' /\ Claimed'
  <1>1. TypeOK /\ WireInv
    BY DEF Inv
  <1>2. /\ call'[t] = c
        /\ \A u \in Threads \ {t} : call'[u] = call[u]
    BY <1>1 DEF TypeOK
  <1>3. ASSUME NEW i \in DOMAIN wire
        PROVE  Settled(i)'
    <2>1. Settled(i) /\ TrueExchange(wire[i])
      BY <1>1 DEF CleanWire, WireInv
    <2>2. CASE wire[i].command = "Exit"
      BY <2>1, <2>2 DEF Settled
    <2>3. CASE wire[i].command # "Exit"
      <3>1. stream \in Threads /\ i = Len(wire) /\ Serves(wire[i], call[stream])
        BY <2>1, <2>3 DEF Settled
      <3>2. Serves(wire[i], call[stream])'
        BY <1>2, <2>1, <3>1 DEF Serves, TrueExchange
      <3> QED
        BY <2>3, <3>1, <3>2 DEF Settled
    <2> QED
      BY <2>2, <2>3
  <1>4. ASSUME NEW id \in Ids, OwnedHere(id)', lease'[id] = None
        PROVE  \E u \in Threads : Claims(u, id)'
    <2>1. PICK u \in Threads : Claims(u, id)
      BY <1>4 DEF Claimed, OwnedHere
    <2>2. u # t
      BY <1>4, <2>1 DEF Claims
    <2> QED
      BY <1>2, <2>1, <2>2 DEF Claims, Waiting, Hands
  <1> QED
    BY <1>3, <1>4 DEF CleanWire, Claimed

\* A command is written to a stream that nobody reads from.
LEMMA AppendStray ==
  ASSUME Inv, NEW t \in Threads, NEW c \in Call, call' = [call EXCEPT ![t] = c],
         NEW f \in Exchange, wire' = Append(wire, f), f.reply = None,
         stream = NoThread, UNCHANGED <<record, lease>>, CleanWire, Claimed,
         call[t].op # "adopt",
         f.command = "Exit" \/ (stream' = t /\ Serves(f, c))
  PROVE  CleanWire' /\ Claimed'
  <1>1. TypeOK
    BY DEF Inv
  <1>2. /\ call'[t] = c
        /\ \A u \in Threads \ {t} : call'[u] = call[u]
    BY <1>1 DEF TypeOK
  <1>3. /\ DOMAIN wire' = 1 .. Len(wire) + 1 /\ Len(wire') = Len(wire) + 1
        /\ wire'[Len(wire) + 1] = f
        /\ \A i \in 1 .. Len(wire) : wire'[i] = wire[i]
        /\ DOMAIN wire = 1 .. Len(wire) /\ Len(wire) \in Nat
    BY <1>1, AppendProperties DEF TypeOK
  <1>4. \A i \in DOMAIN wire : wire[i].command = "Exit" /\ wire[i].reply = None
    BY ThreadsAssumption DEF CleanWire, Settled
  <1>5. ASSUME NEW i \in DOMAIN wire'
        PROVE  Settled(i)'
    <2>1. CASE i \in DOMAIN wire
      <3>1. wire'[i] = wire[i]
        BY <1>3, <2>1
      <3> QED
        BY <1>4, <2>1, <3>1 DEF Settled
    <2>2. CASE i \notin DOMAIN wire
      <3>1. i = Len(wire') /\ wire'[i] = f
        BY <1>3, <2>2
      <3>2. Serves(f, c) => Serves(f, c)'
        BY DEF Serves
      <3> QED
        BY <1>2, <3>1, <3>2 DEF Settled
    <2> QED
      BY <2>1, <2>2
  <1>6. ASSUME NEW id \in Ids, OwnedHere(id)', lease'[id] = None
        PROVE  \E u \in Threads : Claims(u, id)'
    <2>1. PICK u \in Threads : Claims(u, id)
      BY <1>6 DEF Claimed, OwnedHere
    <2>2. call[u].op = "adopt" /\ u # t
      BY <2>1, ThreadsAssumption DEF Claims
    <2> QED
      BY <1>2, <2>1, <2>2 DEF Claims
  <1> QED
    BY <1>5, <1>6 DEF CleanWire, Claimed

LEMMA BeginStray ==
  ASSUME Inv, StrayInv, NEW t \in Threads, Begin(t)
  PROVE  StrayInv'
  <1>1. /\ UNCHANGED <<state, record, wire, stream, lease, unnoticed>>
        /\ call[t].op = "idle"
    BY DEF Begin, BeginExecute, BeginProbe, BeginRelease, BeginCleanup, BeginDetach,
           agentVars, linkVars, Start
  <1>2. PICK todo \in SUBSET Ids : todo = Unreleased
    BY DEF Unreleased
  <1>3. PICK c \in Call : /\ call' = [call EXCEPT ![t] = c]
                          /\ c.op \notin {"mark", "discard"}
    <2>1. ASSUME NEW id \in Ids, NEW body \in Bodies, BeginExecute(t, id, body)
          PROVE  \E c \in Call : /\ call' = [call EXCEPT ![t] = c]
                                 /\ c.op \notin {"mark", "discard"}
      <3>1. PICK c \in Call : c = Doing("execute", id, body, {}, FALSE)
        BY DoingCall DEF Ops
      <3>2. c.op = "execute"
        BY <3>1 DEF Doing
      <3> QED
        BY <2>1, <3>1, <3>2 DEF BeginExecute, Start
    <2>2. ASSUME NEW op \in {"ping", "rpc"}, BeginProbe(t, op)
          PROVE  \E c \in Call : /\ call' = [call EXCEPT ![t] = c]
                                 /\ c.op \notin {"mark", "discard"}
      <3>1. PICK c \in Call : c = Doing(op, None, None, {}, FALSE)
        BY DoingCall DEF Ops
      <3>2. c.op = op
        BY <3>1 DEF Doing
      <3> QED
        BY <2>2, <3>1, <3>2 DEF BeginProbe, Start
    <2>3. ASSUME NEW op \in {"release", "uninstall"}, NEW id \in Ids,
                 BeginRelease(t, op, id)
          PROVE  \E c \in Call : /\ call' = [call EXCEPT ![t] = c]
                                 /\ c.op \notin {"mark", "discard"}
      <3>1. PICK c \in Call : c = Doing(op, id, None, {}, FALSE)
        BY DoingCall DEF Ops
      <3>2. c.op = op
        BY <3>1 DEF Doing
      <3> QED
        BY <2>3, <3>1, <3>2 DEF BeginRelease, Start
    <2>4. ASSUME BeginCleanup(t)
          PROVE  \E c \in Call : /\ call' = [call EXCEPT ![t] = c]
                                 /\ c.op \notin {"mark", "discard"}
      <3>1. PICK c \in Call : c = Doing("cleanup", None, None, todo, FALSE)
        BY DoingCall DEF Ops
      <3>2. c.op = "cleanup"
        BY <3>1 DEF Doing
      <3> QED
        BY <1>2, <2>4, <3>1, <3>2 DEF BeginCleanup, Start
    <2>5. ASSUME BeginDetach(t)
          PROVE  \E c \in Call : /\ call' = [call EXCEPT ![t] = c]
                                 /\ c.op \notin {"mark", "discard"}
      <3>1. PICK c \in Call : c = Doing("detach", None, None, todo, FALSE)
        BY DoingCall DEF Ops
      <3>2. c.op = "detach"
        BY <3>1 DEF Doing
      <3>3. PICK d \in Call : d = Doing("exit", None, None, {}, FALSE)
        BY DoingCall DEF Ops
      <3>4. d.op = "exit"
        BY <3>3 DEF Doing
      <3> QED
        BY <1>2, <2>5, <3>1, <3>2, <3>3, <3>4 DEF BeginDetach, Start
    <2> QED
      BY <2>1, <2>2, <2>3, <2>4, <2>5 DEF Begin
  <1> QED
    BY <1>1, <1>3, QuietStray, ThreadStray

LEMMA SendStray ==
  ASSUME Inv, StrayInv, NEW t \in Threads, Send(t)
  PROVE  StrayInv'
  <1>1. TypeOK /\ CallInv
    BY DEF Inv
  <1>2. PICK c \in Call : c = call[t] /\ CallTrue(t, c)
    BY <1>1 DEF TypeOK, CallInv
  <1>3. PICK command \in Commands, id \in Ids \union {None}, body \in Bodies \union {None},
             k \in Call :
          /\ Write(t, command, id, body)
          /\ call' = [call EXCEPT ![t] = k] /\ k.op = c.op
          /\ command = "Execute" => k.op = "execute" /\ id = k.id /\ body = k.body
          /\ command \in {"Release", "Uninstall"} =>
               c.op = "discard" \/ lease[id] # None
          /\ c.op \notin {"adopt", "mark"}
    <2>1. CASE c.op \in {"cleanup", "detach"}
      <3>1. PICK id \in c.todo : /\ Write(t, "Release", id, None)
                                 /\ call' = [call EXCEPT ![t] = [c EXCEPT !.id = id]]
        BY <1>2, <2>1 DEF Send, Put
      <3>2. PICK k \in Call : k = [c EXCEPT !.id = id]
        BY DEF Call
      <3>3. k.op = c.op
        BY <3>2 DEF Call
      <3>4. lease[id] # None /\ id \in Ids
        BY <1>2 DEF CallTrue, Held, Call
      <3> QED
        BY <2>1, <3>1, <3>2, <3>3, <3>4 DEF Commands
    <2>2. CASE c.op \notin {"cleanup", "detach"}
      <3>1. call' = [call EXCEPT ![t] = c]
        BY <1>1, <1>2, <2>2 DEF TypeOK, Send
      <3>2. PICK command \in Commands, id \in Ids \union {None},
                 body \in Bodies \union {None} :
              /\ Write(t, command, id, body)
              /\ command = "Execute" => c.op = "execute" /\ id = c.id /\ body = c.body
              /\ command \in {"Release", "Uninstall"} =>
                   c.op \in {"release", "discard", "uninstall"} /\ id = c.id
              /\ c.op \in {"execute", "release", "discard", "uninstall", "ping", "rpc"}
        BY <1>2, <2>2 DEF Send, Commands, Call
      <3>3. command \in {"Release", "Uninstall"} => c.op = "discard" \/ lease[id] # None
        BY <1>2, <3>2 DEF CallTrue, Held
      <3> QED
        BY <3>1, <3>2, <3>3
    <2> QED
      BY <2>1, <2>2
  <1>4. PICK f \in Exchange :
          f = [command |-> command, id |-> id, body |-> body, reply |-> None]
    BY DEF Exchange
  <1>5. /\ wire' = Append(wire, f) /\ stream = NoThread /\ stream' = t
        /\ f.reply = None /\ f.command = command /\ f.id = id /\ f.body = body
        /\ UNCHANGED <<state, record, lease, unnoticed>>
    BY <1>3, <1>4 DEF Write, agentVars
  <1>6. c.op = "discard" => state # "Attached"
    BY <1>2 DEF StrayInv, DiscardInv
  <1>7. state' = "Attached" => Serves(f, k)
    BY <1>3, <1>5, <1>6 DEF Serves
  <1> QED
    BY <1>2, <1>3, <1>5, <1>6, <1>7, AppendStray, ThreadStray

\* What no step does but an adoption's: a lease, once taken, is never given up.
LEMMA LeasesStay ==
  ASSUME TypeOK, NEW t, LeaseMove(t)
  PROVE  \A id \in Ids : lease[id] # None => lease'[id] # None
  <1>1. CASE ~ UNCHANGED lease
    <2>1. PICK id \in Ids, l \in Lease : lease' = [lease EXCEPT ![id] = l]
      BY <1>1 DEF LeaseMove
    <2> QED
      BY <2>1, NoneAssumption DEF TypeOK
  <1> QED
    BY <1>1

\* The only reply on the stream is the reader's own, and if it hands a hook to
\* an execute the caller goes on to adopt it.
LEMMA ReceiveStray ==
  ASSUME Inv, StrayInv, NEW t \in Threads, Receive(t)
  PROVE  StrayInv'
  <1>1. TypeOK
    BY DEF Inv
  <1>2. /\ wire # << >> /\ Head(wire).reply # None /\ wire' = Tail(wire)
        /\ stream = t
        /\ UNCHANGED <<state, record, unnoticed>>
    BY DEF Receive, agentVars
  <1>3. /\ Head(wire) = wire[1] /\ 1 \in DOMAIN wire
        /\ Len(wire') = Len(wire) - 1 /\ DOMAIN wire' = 1 .. Len(wire')
        /\ DOMAIN wire = 1 .. Len(wire) /\ Len(wire) \in Nat
    BY <1>1, <1>2 DEF TypeOK
  <1>4. PICK r \in Reply : r = wire[1].reply /\ TrueReply(r)
    BY <1>1, <1>2, <1>3, Read DEF Inv
  <1>5. \/ ExecuteEnds(t, r) \/ ProbeEnds(t, r) \/ DiscardEnds(t)
        \/ ReleaseEnds(t, r) \/ UninstallEnds(t, r) \/ CleanupContinues(t, r)
    BY <1>3, <1>4 DEF Receive
  <1>6. PICK c \in Call : c = call[t]
    BY <1>1 DEF TypeOK
  <1>7. PICK k \in Call :
          /\ call' = [call EXCEPT ![t] = k]
          /\ k.op = "discard" => FALSE
          /\ c.op = "execute" /\ Adoptable(c, r) => k.op = "adopt" /\ k.id = c.id
          /\ c.op \notin {"adopt", "mark"}
    <2>1. PICK idle \in Call, mark \in Call :
            /\ idle = Idle /\ mark = [Idle EXCEPT !.op = "mark"]
      BY RestingCalls
    <2>2. idle.op = "idle" /\ mark.op = "mark"
      BY <2>1 DEF Idle, Doing
    <2>3. CASE ExecuteEnds(t, r)
      <3>1. PICK k \in Call : k = [c EXCEPT !.op = "adopt"]
        BY DEF Call, Ops
      <3>2. k.op = "adopt" /\ k.id = c.id
        BY <3>1 DEF Call
      <3> QED
        BY <1>6, <2>1, <2>2, <2>3, <3>1, <3>2 DEF ExecuteEnds, Put
    <2>4. CASE ProbeEnds(t, r)
      BY <1>6, <2>1, <2>2, <2>4 DEF ProbeEnds, Put
    <2>5. CASE DiscardEnds(t) \/ ReleaseEnds(t, r) \/ UninstallEnds(t, r)
      BY <1>6, <2>1, <2>2, <2>5 DEF DiscardEnds, ReleaseEnds, UninstallEnds, Finish, Put
    <2>6. CASE CleanupContinues(t, r)
      <3>1. PICK failed \in BOOLEAN : failed = (c.failed \/ ~Owns(c.id, r, "Release"))
        OBVIOUS
      <3>2. PICK k \in Call :
              k = [c EXCEPT !.id = None, !.todo = @ \ {c.id}, !.failed = failed]
        BY DEF Call
      <3>3. k.op = c.op /\ c.op \in {"cleanup", "detach"}
        BY <1>6, <2>6, <3>2 DEF CleanupContinues, Call
      <3>4. call' = [call EXCEPT ![t] = k]
        BY <1>6, <2>6, <3>1, <3>2 DEF CleanupContinues, Put
      <3> QED
        BY <3>3, <3>4
    <2> QED
      BY <1>5, <2>3, <2>4, <2>5, <2>6
  <1>8. \A id \in Ids : lease[id] # None => lease'[id] # None
    BY <1>1, ReceiveStep, LeasesStay
  <1>9. /\ call'[t] = k
        /\ \A u \in Threads \ {t} : call'[u] = call[u]
    BY <1>1, <1>7 DEF TypeOK
  <1>10. ASSUME CleanWire, Claimed
         PROVE  CleanWire' /\ Claimed'
    <2>1. Settled(1)
      BY <1>3, <1>10 DEF CleanWire
    <2>2. Len(wire) = 1
      BY <1>2, <1>3, <2>1 DEF Settled
    <2>3. CleanWire'
      BY <1>3, <2>2 DEF CleanWire
    <2>4. ASSUME NEW id \in Ids, OwnedHere(id)', lease'[id] = None
          PROVE  \E u \in Threads : Claims(u, id)'
      <3>1. PICK u \in Threads : Claims(u, id)
        BY <1>2, <1>8, <1>10, <2>4 DEF Claimed, OwnedHere
      <3>2. CASE u = t
        <4>1. /\ c.op = "execute" /\ c.id = id /\ Waiting(c, id)
          BY <1>6, <1>7, <3>1, <3>2 DEF Claims
        <4>2. Hands(r, c, id)
          BY <1>3, <1>4, <2>2, <4>1 DEF Waiting
        <4>3. Adoptable(c, r)
          BY <4>1, <4>2 DEF Hands, Adoptable, Owns
        <4> QED
          BY <1>7, <1>9, <4>1, <4>3 DEF Claims
      <3>3. CASE u # t
        BY <1>2, <1>9, <3>1, <3>3 DEF Claims
      <3> QED
        BY <3>2, <3>3
    <2> QED
      BY <2>3, <2>4 DEF Claimed
  <1> QED
    BY <1>2, <1>6, <1>7, <1>10, ThreadStray

\* An execute or a probe that fails dooms the session; anything else that fails
\* is the failure that goes unnoticed.
LEMMA FailStray ==
  ASSUME Inv, StrayInv, NEW t \in Threads, TimeOut(t) \/ WriteFails(t)
  PROVE  StrayInv'
  <1>1. TypeOK
    BY DEF Inv
  <1>2. Fails(t) /\ UNCHANGED state
    BY DEF TimeOut, WriteFails
  <1>3. PICK c \in Call : c = call[t]
    BY <1>1 DEF TypeOK
  <1>4. PICK k \in Call :
          /\ call' = [call EXCEPT ![t] = k]
          /\ k.op = "discard" => FALSE
          /\ c.op # "mark"
          /\ k.op = "mark" \/ unnoticed'
    <2>1. PICK idle \in Call, mark \in Call :
            /\ idle = Idle /\ mark = [Idle EXCEPT !.op = "mark"]
      BY RestingCalls
    <2>2. idle.op = "idle" /\ mark.op = "mark"
      BY <2>1 DEF Idle, Doing
    <2>3. CASE c.op \in {"cleanup", "detach"}
      <3>1. PICK id : call' = [call EXCEPT ![t] =
                        [c EXCEPT !.id = None, !.todo = @ \ {id}, !.failed = TRUE]]
        BY <1>2, <1>3, <2>3 DEF Fails, Put
      <3>2. PICK k \in Call :
              k = [c EXCEPT !.id = None, !.todo = @ \ {id}, !.failed = TRUE]
        BY DEF Call
      <3>3. k.op = c.op
        BY <3>2 DEF Call
      <3> QED
        BY <1>2, <1>3, <2>3, <3>1, <3>2, <3>3 DEF Fails
    <2>4. CASE c.op \notin {"cleanup", "detach"}
      BY <1>2, <1>3, <2>1, <2>2, <2>4 DEF Fails, Finish, Put
    <2> QED
      BY <2>3, <2>4
  <1>5. unnoticed => unnoticed'
    BY <1>2 DEF Fails
  <1> QED
    BY <1>2, <1>3, <1>4, <1>5, ThreadStray

LEMMA AdoptStray ==
  ASSUME Inv, StrayInv, NEW t \in Threads, Adopt(t)
  PROVE  StrayInv'
  <1>1. TypeOK /\ CallInv
    BY DEF Inv
  <1>2. PICK c \in Call : c = call[t] /\ c.op = "adopt" /\ c.id \in Ids
    BY <1>1 DEF TypeOK, CallInv, CallTrue, Adopt
  <1>3. UNCHANGED <<state, stream, wire, record, unnoticed>>
    BY DEF Adopt, agentVars, linkVars
  <1>4. \A id \in Ids : lease[id] # None => lease'[id] # None
    BY <1>1, AdoptStep, LeasesStay
  <1>5. PICK k \in Call :
          /\ call' = [call EXCEPT ![t] = k]
          /\ k.op = "discard" => state # "Attached"
          /\ state = "Attached" => lease'[c.id] # None
    <2>1. PICK idle \in Call : idle = Idle
      BY RestingCalls
    <2>2. idle.op = "idle"
      BY <2>1 DEF Idle, Doing
    <2>3. PICK k \in Call : k = [c EXCEPT !.op = "discard"]
      BY DEF Call, Ops
    <2>4. CASE lease[c.id] # None
      BY <1>2, <1>4, <2>1, <2>2, <2>4 DEF Adopt, Put
    <2>5. CASE lease[c.id] = None /\ state = "Attached"
      <3>1. lease' = [lease EXCEPT ![c.id] =
              [body |-> c.body, own |-> "Owned", target |-> "Installed",
               shown |-> "Installed"]]
        BY <1>2, <2>5 DEF Adopt
      <3>2. [body |-> c.body, own |-> "Owned", target |-> "Installed",
             shown |-> "Installed"] \in Lease
        BY <1>1, <1>2 DEF CallInv, CallTrue, Lease, Ownership, Target
      <3>3. lease'[c.id] # None
        BY <1>1, <1>2, <3>1, <3>2, NoneAssumption DEF TypeOK
      <3> QED
        BY <1>2, <2>1, <2>2, <2>5, <3>3 DEF Adopt, Put
    <2>6. CASE lease[c.id] = None /\ state # "Attached"
      BY <1>2, <2>3, <2>6 DEF Adopt, Put
    <2> QED
      BY <2>4, <2>5, <2>6
  <1> QED
    BY <1>2, <1>3, <1>4, <1>5, QuietStray, ThreadStray

LEMMA EndStray ==
  ASSUME Inv, StrayInv, NEW t \in Threads, Mark(t) \/ WriteExit(t) \/ CleanupEnds(t)
  PROVE  StrayInv'
  <1>1. TypeOK
    BY DEF Inv
  <1>2. PICK todo \in SUBSET Ids : todo = Unreleased
    BY DEF Unreleased
  <1>3. PICK idle \in Call : idle = Idle
    BY RestingCalls
  <1>4. idle.op = "idle"
    BY <1>3 DEF Idle, Doing
  <1>5. CASE Mark(t)
    <2>1. PICK k \in Call : k = Doing("cleanup", None, None, todo, FALSE)
      BY DoingCall DEF Ops
    <2>2. k.op = "cleanup"
      BY <2>1 DEF Doing
    <2>3. PICK c \in Call : call' = [call EXCEPT ![t] = c] /\ c.op # "discard"
      BY <1>2, <1>3, <1>4, <1>5, <2>1, <2>2 DEF Mark, Put
    <2>4. state' # "Attached" /\ UNCHANGED unnoticed
      BY <1>5 DEF Mark
    <2> QED
      BY <2>3, <2>4, ThreadStray
  <1>6. CASE CleanupEnds(t)
    <2>1. /\ UNCHANGED <<stream, wire, record, lease, unnoticed>>
          /\ call' = [call EXCEPT ![t] = idle]
          /\ state' = "Attached" => state = "Attached"
          /\ call[t].op \in {"cleanup", "detach"}
      BY <1>3, <1>6 DEF CleanupEnds, linkVars, agentVars, Finish, Put
    <2> QED
      BY <1>4, <2>1, QuietStray, ThreadStray
  <1>7. CASE WriteExit(t)
    <2>1. /\ UNCHANGED <<state, stream, record, lease, unnoticed>>
          /\ call[t].op = "exit" /\ stream = NoThread
      BY <1>7 DEF WriteExit, agentVars
    <2>2. PICK failed \in BOOLEAN :
            /\ call' = [call EXCEPT ![t] = Doing("detach", None, None, todo, failed)]
            /\ \/ wire' = wire
               \/ wire' = Append(wire, [command |-> "Exit", id |-> None, body |-> None,
                                       reply |-> None])
      BY <1>2, <1>7 DEF WriteExit, Put
    <2>3. PICK k \in Call : k = Doing("detach", None, None, todo, failed)
      BY DoingCall DEF Ops
    <2>4. k.op = "detach"
      BY <2>3 DEF Doing
    <2>5. PICK f \in Exchange :
            f = [command |-> "Exit", id |-> None, body |-> None, reply |-> None]
      BY DEF Exchange, Commands
    <2>6. CASE wire' = wire
      BY <2>1, <2>2, <2>3, <2>4, <2>6, QuietStray, ThreadStray
    <2>7. CASE wire' = Append(wire, f)
      <3>1. f.command = "Exit" /\ f.reply = None
        BY <2>5
      <3> QED
        BY <2>1, <2>2, <2>3, <2>4, <2>7, <3>1, AppendStray, ThreadStray
    <2> QED
      BY <2>2, <2>5, <2>6, <2>7
  <1> QED
    BY <1>5, <1>6, <1>7

LEMMA NextStray ==
  ASSUME Inv, StrayInv, [Next]_vars
  PROVE  StrayInv'
  <1>1. CASE UNCHANGED vars
    BY <1>1
    DEF vars, StrayInv, DiscardInv, Watched, Doomed, CleanWire, Settled, Serves,
        Claimed, OwnedHere, Claims, Waiting, Hands
  <1>2. CASE Next
    BY <1>2, AgentStray, BeginStray, SendStray, ReceiveStray, FailStray, AdoptStray,
       EndStray
    DEF Next, Step
  <1> QED
    BY <1>1, <1>2

\* A failed execute or probe never costs the session a hook, for any threads and
\* any requests: strays come only from failures that the session does not notice.
THEOREM NoStrayUnlessUnnoticed == Spec => []StrayOnlyIfUnnoticed
  <1>1. Init => StrayInv
    BY DEF Init, StrayInv, DiscardInv, CleanWire, Claimed, OwnedHere, Idle, Doing
  <1>2. StrayInv => StrayOnlyIfUnnoticed
    <2> SUFFICES ASSUME StrayInv, ~ unnoticed, NEW id \in Ids, Stray(id)
                 PROVE  FALSE
      BY DEF StrayOnlyIfUnnoticed
    <2>1. Claimed
      BY DEF StrayInv, Watched, Doomed, Stray
    <2> QED
      BY <2>1 DEF Claimed, OwnedHere, Claims, Stray
  <1>3. Inv /\ StrayInv /\ [Next]_vars => StrayInv'
    BY NextStray
  <1> QED
    BY <1>1, <1>2, <1>3, InvHolds, PTL DEF Spec
=============================================================================
