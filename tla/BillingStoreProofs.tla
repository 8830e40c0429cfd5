--------------------------- MODULE BillingStoreProofs ---------------------------
(***************************************************************************)
(* The billing store implements BillingEvents, for any events, users,      *)
(* deliveries and faults.  What an open transaction wrote stays right      *)
(* until its commit (Fits), because the rows and unique values it wrote    *)
(* are its own (Apart) and only a commit changes the tables.               *)
(***************************************************************************)
EXTENDS BillingStore, TLAPS

-----------------------------------------------------------------------------
(* The inductive invariant.                                                 *)

CustomerPcs == {"customer", "insert_customer", "reread_customer", "update_customer"}
SubPcs == {"sub", "insert_sub", "update_sub"}
Pcs == CustomerPcs \cup SubPcs \cup {"idle", "record", "mark", "commit", "done"}

Customer == {Effect[e].cus : e \in Events}
Rows == [user : {Effect[e].user : e \in Events}, cus : Customer,
         status : {Effect[e].status : e \in Events} \cup {"canceled"}]

Writes == [event : Events \cup {None}, user : Users \cup {None},
           cus : Customer \cup {None}, sub : Subs \cup {None},
           row : Rows \cup {None}]
Tx == [pc : Pcs, event : Events \cup {None}, writes : Writes,
       answer : {None, "ok", "lost", "error"}]

\* It has recorded its event, which nobody has processed.
Begun(t) ==
    /\ t.event \in Events /\ t.writes.event = t.event
    /\ t.event \notin applied

NoCustomer(t) == t.writes.user = None /\ t.writes.cus = None
NoSub(t) == t.writes.sub = None

\* It has written the customer its event names, whom no other user has.
CustomerWritten(t) ==
    IF Effect[t.event].links
    THEN /\ t.writes.user = Effect[t.event].user
         /\ t.writes.cus = Effect[t.event].cus
         /\ \A u \in Users \ {t.writes.user} : customers[u] # t.writes.cus
    ELSE NoCustomer(t)

\* It has written the subscription as its event says.
SubWritten(t) ==
    LET e == Effect[t.event] IN
    CASE e.kind = "upsert" ->
            /\ t.writes.sub = e.sub
            /\ t.writes.row = [user |-> e.user, cus |-> e.cus, status |-> e.status]
      [] e.kind = "cancel" ->
            /\ t.writes.sub = e.sub /\ subs[e.sub] # None
            /\ t.writes.row = [subs[e.sub] EXCEPT !.status = "canceled"]
      [] OTHER -> NoSub(t)

\* What a transaction has written at each of its steps.
Fits(t) ==
    /\ t.writes.user = None <=> t.writes.cus = None
    /\ t.pc \in {"idle", "record", "done"} => t.writes = NoWrites
    /\ t.pc # "done" => t.answer = None
    /\ t.pc = "record" => t.event \in Events
    /\ t.answer = "ok" => t.event \in applied
    /\ t.pc \in CustomerPcs =>
          Begun(t) /\ Effect[t.event].links /\ NoCustomer(t) /\ NoSub(t)
    /\ t.pc \in SubPcs => Begun(t) /\ CustomerWritten(t) /\ NoSub(t)
    /\ t.pc \in {"insert_sub", "update_sub"} => Effect[t.event].kind = "upsert"
    /\ t.pc = "mark" => Begun(t) /\ CustomerWritten(t) /\ SubWritten(t)
    /\ t.pc = "commit" =>
          \/ Begun(t) /\ CustomerWritten(t) /\ SubWritten(t)
          \/ t.writes = NoWrites /\ t.event \in applied

\* Two transactions have written no row or unique value in common.
Apart(v, w) ==
    /\ v.event # None => v.event # w.event
    /\ v.user # None => v.user # w.user /\ v.cus # w.cus
    /\ v.sub # None => v.sub # w.sub

Tables ==
    /\ customers \in [Users -> Customer \cup {None}]
    /\ subs \in [Subs -> Rows \cup {None}]
    /\ events \in [Events -> {"none", "processed"}]
    /\ applied = {e \in Events : events[e] # "none"}

BillingInv ==
    /\ Tables
    /\ tx \in [Deliveries -> Tx]
    /\ \A d \in Deliveries : Fits(tx[d])
    /\ \A d, o \in Deliveries : d # o => Apart(tx[d].writes, tx[o].writes)

-----------------------------------------------------------------------------
(* Steps that write no table.                                               *)

\* The invariant survives a step that replaces one transaction by one that fits
\* the tables and is apart from the others.
LEMMA LocalStep ==
    ASSUME BillingInv, NEW d \in Deliveries, NEW t \in Tx, Fits(t),
           tx' = [tx EXCEPT ![d] = t], UNCHANGED tables,
           \A o \in Deliveries \ {d} : /\ Apart(t.writes, tx[o].writes)
                                       /\ Apart(tx[o].writes, t.writes)
    PROVE  BillingInv'
<1>1. /\ tx'[d] = t
      /\ \A o \in Deliveries \ {d} : tx'[o] = tx[o]
      /\ tx' \in [Deliveries -> Tx]
  BY DEF BillingInv
<1>2. Tables'
  BY DEF BillingInv, Tables, tables
<1>3. \A o \in Deliveries : Fits(tx'[o])
  BY <1>1 DEF BillingInv
<1>4. \A v : Fits(v)' <=> Fits(v)
  BY DEF Fits, Begun, CustomerWritten, SubWritten, tables
<1>5. \A c, o \in Deliveries : c # o => Apart(tx'[c].writes, tx'[o].writes)
  BY <1>1 DEF BillingInv
<1>6. QED
  BY <1>1, <1>2, <1>3, <1>4, <1>5 DEF BillingInv

\* A step that moves on and writes nothing.
LEMMA GotoStep ==
    ASSUME BillingInv, NEW d \in Deliveries, NEW pc \in Pcs,
           Goto(d, pc), UNCHANGED tables, Fits([tx[d] EXCEPT !.pc = pc])
    PROVE  BillingInv'
<1> DEFINE t == [tx[d] EXCEPT !.pc = pc]
<1>1. t \in Tx /\ t.writes = tx[d].writes
  BY DEF BillingInv, Tx
<1>2. tx' = [tx EXCEPT ![d] = t]
  BY DEF Goto, BillingInv
<1>3. \A o \in Deliveries \ {d} : /\ Apart(t.writes, tx[o].writes)
                                  /\ Apart(tx[o].writes, t.writes)
  BY <1>1 DEF BillingInv
<1>4. Fits(t)
  OBVIOUS
<1> HIDE DEF t
<1>5. QED
  BY <1>1, <1>2, <1>3, <1>4, LocalStep

\* A transaction that ends without an effect.
LEMMA RollbackStep ==
    ASSUME BillingInv, NEW d \in Deliveries, Rollback(d), UNCHANGED tables
    PROVE  BillingInv'
<1> DEFINE t == [tx[d] EXCEPT !.pc = "done", !.writes = NoWrites, !.answer = "error"]
<1>1. t \in Tx /\ t.pc = "done" /\ t.writes = NoWrites /\ t.answer = "error"
  BY DEF BillingInv, Tx, Writes, NoWrites, Pcs
<1>2. tx' = [tx EXCEPT ![d] = t]
  BY DEF Rollback, Close
<1>3. Fits(t)
  <2> HIDE DEF t
  <2>1. QED
    BY <1>1 DEF Fits, NoWrites, CustomerPcs, SubPcs
<1>4. \A o \in Deliveries \ {d} : /\ Apart(t.writes, tx[o].writes)
                                  /\ Apart(tx[o].writes, t.writes)
  BY <1>1 DEF BillingInv, Fits, Apart, NoWrites
<1> HIDE DEF t
<1>5. QED
  BY <1>1, <1>2, <1>3, <1>4, LocalStep

LEMMA FailStep ==
    ASSUME BillingInv, NEW d \in Deliveries, Fail(d)
    PROVE  BillingInv'
BY RollbackStep DEF Fail

LEMMA DeliverStep ==
    ASSUME BillingInv, NEW d \in Deliveries, Deliver(d)
    PROVE  BillingInv'
<1>1. PICK e \in Events : tx' = [tx EXCEPT ![d] = [@ EXCEPT !.pc = "record", !.event = e]]
  BY DEF Deliver
<1> DEFINE t == [tx[d] EXCEPT !.pc = "record", !.event = e]
<1>2. /\ t \in Tx /\ t.pc = "record" /\ t.event = e
      /\ t.writes = NoWrites /\ t.answer = None
  <2>1. tx[d] \in Tx /\ tx[d].writes = NoWrites /\ tx[d].answer = None
    BY DEF BillingInv, Fits, Deliver, At
  <2>2. QED
    BY <2>1 DEF Tx, Pcs
<1>3. tx' = [tx EXCEPT ![d] = t]
  BY <1>1
<1>4. Fits(t)
  <2> HIDE DEF t
  <2>1. QED
    BY <1>2, BillingNoneAssumption DEF Fits, NoWrites, CustomerPcs, SubPcs
<1>5. \A o \in Deliveries \ {d} : /\ Apart(t.writes, tx[o].writes)
                                  /\ Apart(tx[o].writes, t.writes)
  BY <1>2 DEF BillingInv, Fits, Apart, NoWrites
<1> HIDE DEF t
<1>6. QED
  BY <1>2, <1>3, <1>4, <1>5, LocalStep DEF Deliver

\* What the invariant says of one transaction.
LEMMA TxFits ==
    ASSUME BillingInv, NEW d \in Deliveries
    PROVE  /\ tx[d] \in Tx /\ tx[d].writes \in Writes /\ Fits(tx[d])
           /\ \A o \in Deliveries \ {d} : /\ Apart(tx[d].writes, tx[o].writes)
                                           /\ Apart(tx[o].writes, tx[d].writes)
BY DEF BillingInv, Tx

LEMMA RecordStep ==
    ASSUME BillingInv, NEW d \in Deliveries, Record(d)
    PROVE  BillingInv'
<1>1. /\ tx[d].pc = "record" /\ tx[d].writes = NoWrites /\ tx[d].answer = None
      /\ tx[d].event \in Events /\ UNCHANGED tables
  BY TxFits DEF Record, At, Fits
<1>2. CASE Recorded(d)
  <2>1. tx[d].event \in applied
    BY <1>1, <1>2 DEF Recorded, BillingInv, Tables
  <2> DEFINE t == [tx[d] EXCEPT !.pc = "commit"]
  <2>2. /\ t.pc = "commit" /\ t.writes = NoWrites /\ t.answer = None
        /\ t.event = tx[d].event
    BY <1>1, TxFits DEF Tx
  <2>3. Fits(t)
    <3> HIDE DEF t
    <3>1. QED
      BY <2>1, <2>2, BillingNoneAssumption DEF Fits, NoWrites, CustomerPcs, SubPcs
  <2>4. Goto(d, "commit") /\ "commit" \in Pcs
    BY <1>2 DEF Record, Pcs
  <2>5. QED
    BY <1>1, <2>3, <2>4, GotoStep
<1>3. CASE ~Recorded(d)
  <2> DEFINE w == [tx[d].writes EXCEPT !.event = tx[d].event]
  <2> DEFINE t == [tx[d] EXCEPT !.pc = AfterRecord(d), !.writes = w]
  <2>1. AfterRecord(d) \in {"customer", "sub"} /\ AfterRecord(d) \in Pcs
    BY DEF AfterRecord, Pcs, CustomerPcs, SubPcs
  <2>2. AfterRecord(d) = "customer" <=> Effect[tx[d].event].links
    BY DEF AfterRecord, Of
  <2>3. /\ t \in Tx /\ t.pc = AfterRecord(d) /\ t.event = tx[d].event
        /\ t.answer = None /\ t.writes = w
    <3>1. w \in Writes
      BY <1>1, TxFits DEF Writes
    <3>2. tx[d] \in Tx
      BY TxFits
    <3> HIDE DEF w
    <3>3. QED
      BY <1>1, <2>1, <3>1, <3>2 DEF Tx
  <2>4. tx' = [tx EXCEPT ![d] = t]
    <3>1. tx[d] \in Tx
      BY TxFits
    <3>2. QED
      BY <1>3, <3>1 DEF Record, WriteEvent, Tx
  <2>5. tx[d].event \notin applied
    BY <1>1, <1>3 DEF Recorded, BillingInv, Tables
  <2>6. /\ t.writes.event = tx[d].event /\ t.writes.user = None
        /\ t.writes.cus = None /\ t.writes.sub = None
    <3>1. /\ w.event = tx[d].event /\ w.user = None
          /\ w.cus = None /\ w.sub = None
      BY <1>1 DEF NoWrites
    <3>2. QED
      BY <2>3, <3>1
  <2>7. Fits(t)
    <3> HIDE DEF t
    <3>1. QED
      BY <1>1, <2>1, <2>2, <2>3, <2>5, <2>6, BillingNoneAssumption
         DEF Fits, Begun, NoCustomer, NoSub, CustomerWritten, CustomerPcs, SubPcs
  <2>8. \A o \in Deliveries \ {d} : tx[o].writes.event # tx[d].event
    BY <1>1, BillingNoneAssumption DEF Record, Others, NoWrites
  <2>9. \A o \in Deliveries \ {d} : /\ Apart(t.writes, tx[o].writes)
                                    /\ Apart(tx[o].writes, t.writes)
    <3> HIDE DEF t
    <3>1. QED
      BY <2>6, <2>8 DEF Apart, BillingInv, Fits
  <2> HIDE DEF t
  <2>10. QED
    BY <1>1, <2>3, <2>4, <2>7, <2>9, LocalStep
<1>4. QED
  BY <1>2, <1>3

\* The write of a customer that is free and held by no other transaction.
LEMMA CustomerStep ==
    ASSUME BillingInv, NEW d \in Deliveries, tx[d].pc \in CustomerPcs,
           ~CustomerHeld(d), ~LinkedToOther(d), WriteCustomer(d, "sub"),
           UNCHANGED tables
    PROVE  BillingInv'
<1> DEFINE e == Effect[tx[d].event]
<1> DEFINE w == [tx[d].writes EXCEPT !.user = e.user, !.cus = e.cus]
<1> DEFINE t == [tx[d] EXCEPT !.pc = "sub", !.writes = w]
<1>1. /\ Begun(tx[d]) /\ e.links /\ NoSub(tx[d]) /\ tx[d].answer = None
      /\ tx[d].event \in Events
  BY TxFits DEF Fits, CustomerPcs, Begun
<1>2. e.user \in Users /\ e.cus # None /\ e.cus \in Customer /\ e.user # None
  BY <1>1, EffectAssumption, BillingNoneAssumption DEF Customer
<1>3. /\ t \in Tx /\ t.pc = "sub" /\ t.event = tx[d].event /\ t.answer = None
      /\ t.writes = w
  <2>1. w \in Writes /\ "sub" \in Pcs
    BY <1>2, TxFits DEF Writes, Pcs, SubPcs
  <2>2. tx[d] \in Tx
    BY TxFits
  <2> HIDE DEF w
  <2>3. QED
    BY <1>1, <2>1, <2>2 DEF Tx
<1>4. tx' = [tx EXCEPT ![d] = t]
  <2>1. tx[d] \in Tx
    BY TxFits
  <2>2. QED
    BY <2>1 DEF WriteCustomer, Of, Tx
<1>5. /\ t.writes.event = tx[d].writes.event /\ t.writes.user = e.user
      /\ t.writes.cus = e.cus /\ t.writes.sub = tx[d].writes.sub
  <2>1. /\ w.event = tx[d].writes.event /\ w.user = e.user
        /\ w.cus = e.cus /\ w.sub = tx[d].writes.sub
    BY TxFits DEF Writes
  <2>2. QED
    BY <1>3, <2>1
<1>6. Fits(t)
  <2> HIDE DEF t
  <2>1. \A u \in Users \ {e.user} : customers[u] # e.cus
    BY DEF LinkedToOther, Of
  <2>2. Begun(t) /\ CustomerWritten(t) /\ NoSub(t)
    BY <1>1, <1>2, <1>3, <1>5, <2>1 DEF Begun, CustomerWritten, NoSub
  <2>3. QED
    BY <1>2, <1>3, <1>5, <2>2, BillingNoneAssumption
       DEF Fits, CustomerPcs, SubPcs
<1>7. \A o \in Deliveries \ {d} :
          tx[o].writes.user # e.user /\ tx[o].writes.cus # e.cus
  <2> SUFFICES ASSUME NEW o \in Deliveries \ {d}
               PROVE  tx[o].writes.user # e.user /\ tx[o].writes.cus # e.cus
    OBVIOUS
  <2>1. CASE tx[o].writes.user = None
    BY <1>2, <2>1 DEF BillingInv, Fits
  <2>2. CASE tx[o].writes.user # None
    BY <2>2 DEF CustomerHeld, Others, NoWrites, Of
  <2>3. QED
    BY <2>1, <2>2
<1>8. \A o \in Deliveries \ {d} : /\ Apart(t.writes, tx[o].writes)
                                  /\ Apart(tx[o].writes, t.writes)
  <2> HIDE DEF t
  <2>1. QED
    BY <1>5, <1>7, TxFits DEF Apart
<1> HIDE DEF t
<1>9. QED
  BY <1>3, <1>4, <1>6, <1>8, LocalStep

\* The write of a subscription that no other transaction holds.
LEMMA SubStep ==
    ASSUME BillingInv, NEW d \in Deliveries, tx[d].pc \in SubPcs, ~SubHeld(d),
           NEW row, WriteSub(d, row), UNCHANGED tables,
           \/ Of(d).kind = "upsert" /\ row = Values(d)
           \/ /\ Of(d).kind = "cancel" /\ subs[Of(d).sub] # None
              /\ row = [subs[Of(d).sub] EXCEPT !.status = "canceled"]
    PROVE  BillingInv'
<1> DEFINE e == Effect[tx[d].event]
<1> DEFINE w == [tx[d].writes EXCEPT !.sub = e.sub, !.row = row]
<1> DEFINE t == [tx[d] EXCEPT !.pc = "mark", !.writes = w]
<1>1. /\ Begun(tx[d]) /\ CustomerWritten(tx[d]) /\ tx[d].answer = None
      /\ tx[d].event \in Events
  BY TxFits DEF Fits, SubPcs, Begun
<1>2. e.sub \in Subs /\ e.sub # None /\ e.kind \in {"upsert", "cancel"}
  BY <1>1, EffectAssumption, BillingNoneAssumption DEF Of
<1>3. row \in Rows
  <2>1. CASE e.kind = "upsert"
    BY <1>1, <1>2, <2>1 DEF Of, Values, Rows, Customer
  <2>2. CASE e.kind = "cancel"
    <3>1. subs[e.sub] \in Rows
      BY <1>2, <2>2 DEF Of, BillingInv, Tables
    <3>2. QED
      BY <2>2, <3>1 DEF Of, Rows
  <2>3. QED
    BY <1>2, <2>1, <2>2
<1>4. tx[d] \in Tx
  BY TxFits
<1>5. /\ t \in Tx /\ t.pc = "mark" /\ t.event = tx[d].event /\ t.answer = None
      /\ t.writes = w
  <2>1. w \in Writes /\ "mark" \in Pcs
    BY <1>2, <1>3, TxFits DEF Writes, Pcs
  <2> HIDE DEF w
  <2>2. QED
    BY <1>1, <1>4, <2>1 DEF Tx
<1>6. tx' = [tx EXCEPT ![d] = t]
  BY DEF WriteSub, Of
<1>7. /\ t.writes.event = tx[d].writes.event /\ t.writes.user = tx[d].writes.user
      /\ t.writes.cus = tx[d].writes.cus
      /\ t.writes.sub = e.sub /\ t.writes.row = row
  <2>1. /\ w.event = tx[d].writes.event /\ w.user = tx[d].writes.user
        /\ w.cus = tx[d].writes.cus /\ w.sub = e.sub /\ w.row = row
    BY TxFits DEF Writes
  <2>2. QED
    BY <1>5, <2>1
<1>8. Fits(t)
  <2> HIDE DEF t
  <2>1. Begun(t) /\ CustomerWritten(t)
    BY <1>1, <1>5, <1>7 DEF Begun, CustomerWritten, NoCustomer
  <2>2. SubWritten(t)
    BY <1>2, <1>5, <1>7 DEF SubWritten, Of, Values
  <2>3. t.writes.user = None <=> t.writes.cus = None
    BY <1>7, TxFits DEF Fits
  <2>4. QED
    BY <1>5, <2>1, <2>2, <2>3, BillingNoneAssumption DEF Fits, CustomerPcs, SubPcs
<1>9. \A o \in Deliveries \ {d} : tx[o].writes.sub # e.sub
  BY <1>2 DEF SubHeld, Others, NoWrites, Of
<1>10. \A o \in Deliveries \ {d} : /\ Apart(t.writes, tx[o].writes)
                                   /\ Apart(tx[o].writes, t.writes)
  <2> HIDE DEF t
  <2>1. QED
    BY <1>7, <1>9, TxFits DEF Apart
<1> HIDE DEF t
<1>11. QED
  BY <1>5, <1>6, <1>8, <1>10, LocalStep

\* The moves from one step to another that write nothing.
LEMMA MoveStep ==
    ASSUME BillingInv, NEW d \in Deliveries, NEW pc \in Pcs, Goto(d, pc),
           UNCHANGED tables,
           \/ tx[d].pc \in CustomerPcs /\ pc \in CustomerPcs
           \/ tx[d].pc \in SubPcs /\ pc \in SubPcs /\ Of(d).kind = "upsert"
           \/ tx[d].pc \in SubPcs /\ pc = "mark" /\ Of(d).kind = "none"
           \/ tx[d].pc = "mark" /\ pc = "commit"
    PROVE  BillingInv'
<1> DEFINE t == [tx[d] EXCEPT !.pc = pc]
<1>1. /\ t.pc = pc /\ t.event = tx[d].event /\ t.writes = tx[d].writes
      /\ t.answer = tx[d].answer
  BY TxFits DEF Tx
<1>2. /\ Begun(t) <=> Begun(tx[d])
      /\ CustomerWritten(t) <=> CustomerWritten(tx[d])
      /\ SubWritten(t) <=> SubWritten(tx[d])
      /\ NoCustomer(t) <=> NoCustomer(tx[d])
      /\ NoSub(t) <=> NoSub(tx[d])
  <2> HIDE DEF t
  <2>1. QED
    BY <1>1 DEF Begun, CustomerWritten, SubWritten, NoCustomer, NoSub
<1>3. /\ tx[d].answer = None /\ (t.writes.user = None <=> t.writes.cus = None)
      /\ Effect[t.event] = Of(d)
  BY <1>1, TxFits DEF Fits, CustomerPcs, SubPcs, Of
<1>4. Fits(t)
  <2> HIDE DEF t
  <2>1. CASE tx[d].pc \in CustomerPcs /\ pc \in CustomerPcs
    BY <1>1, <1>2, <1>3, <2>1, TxFits, BillingNoneAssumption
       DEF Fits, CustomerPcs, SubPcs
  <2>2. CASE tx[d].pc \in SubPcs /\ pc \in SubPcs /\ Of(d).kind = "upsert"
    BY <1>1, <1>2, <1>3, <2>2, TxFits, BillingNoneAssumption
       DEF Fits, CustomerPcs, SubPcs
  <2>3. CASE tx[d].pc \in SubPcs /\ pc = "mark" /\ Of(d).kind = "none"
    <3>1. SubWritten(t)
      BY <1>2, <1>3, <2>3, TxFits DEF Fits, SubWritten
    <3>2. QED
      BY <1>1, <1>2, <1>3, <2>3, <3>1, TxFits, BillingNoneAssumption
         DEF Fits, CustomerPcs, SubPcs
  <2>4. CASE tx[d].pc = "mark" /\ pc = "commit"
    BY <1>1, <1>2, <1>3, <2>4, TxFits, BillingNoneAssumption
       DEF Fits, CustomerPcs, SubPcs
  <2>5. QED
    BY <2>1, <2>2, <2>3, <2>4
<1> HIDE DEF t
<1>5. QED
  BY <1>4, GotoStep DEF t

-----------------------------------------------------------------------------
(* The actions.                                                             *)

\* The steps of set_stripe_customer.
LEMMA CustomerSteps ==
    ASSUME BillingInv, NEW d \in Deliveries,
           ReadCustomer(d) \/ InsertCustomer(d) \/ RereadCustomer(d) \/ UpdateCustomer(d)
    PROVE  BillingInv'
<1>1. /\ tx[d].pc \in CustomerPcs /\ UNCHANGED tables
      /\ \/ Rollback(d)
         \/ \E pc \in CustomerPcs : Goto(d, pc)
         \/ ~CustomerHeld(d) /\ ~LinkedToOther(d) /\ WriteCustomer(d, "sub")
  BY DEF ReadCustomer, InsertCustomer, RereadCustomer, UpdateCustomer, At,
         CustomerPcs, AfterCustomer
<1>2. CustomerPcs \subseteq Pcs
  BY DEF Pcs
<1>3. QED
  BY <1>1, <1>2, RollbackStep, MoveStep, CustomerStep

\* The steps of upsert_subscription and of mark_subscription_canceled.
LEMMA SubSteps ==
    ASSUME BillingInv, NEW d \in Deliveries,
           \/ ReadSub(d) \/ InsertSub(d) \/ UpdateSub(d)
           \/ CancelSub(d) \/ SkipSub(d) \/ MarkProcessed(d)
    PROVE  BillingInv'
<1>1. /\ SubPcs \subseteq Pcs /\ "mark" \in Pcs /\ "commit" \in Pcs
      /\ {"sub", "insert_sub", "update_sub"} \subseteq SubPcs
  BY DEF Pcs, SubPcs
<1>2. tx[d].pc \in {"insert_sub", "update_sub"} => Of(d).kind = "upsert"
  BY TxFits DEF Fits, Of
<1>3. CASE ReadSub(d)
  BY <1>1, <1>3, MoveStep DEF ReadSub, At
<1>4. CASE InsertSub(d)
  <2>1. /\ tx[d].pc \in SubPcs /\ ~SubHeld(d) /\ UNCHANGED tables
        /\ Of(d).kind = "upsert"
        /\ Goto(d, "update_sub") \/ WriteSub(d, Values(d))
    BY <1>1, <1>2, <1>4 DEF InsertSub, At
  <2>2. QED
    BY <1>1, <2>1, MoveStep, SubStep
<1>5. CASE UpdateSub(d)
  BY <1>1, <1>2, <1>5, SubStep DEF UpdateSub, At
<1>6. CASE CancelSub(d)
  BY <1>1, <1>6, RollbackStep, SubStep DEF CancelSub, At
<1>7. CASE SkipSub(d)
  BY <1>1, <1>7, MoveStep DEF SkipSub, At
<1>8. CASE MarkProcessed(d)
  BY <1>1, <1>8, MoveStep DEF MarkProcessed, At
<1>9. QED
  BY <1>3, <1>4, <1>5, <1>6, <1>7, <1>8

\* What a commit does: the transaction ends, its writes become the tables'.
LEMMA CommitEffect ==
    ASSUME BillingInv, NEW d \in Deliveries, Commit(d)
    PROVE  /\ tx' \in [Deliveries -> Tx]
           /\ \A o \in Deliveries \ {d} : tx'[o] = tx[o]
           /\ tx'[d].pc = "done" /\ tx'[d].writes = NoWrites
           /\ tx'[d].event = tx[d].event
           /\ \/ Begun(tx[d]) /\ CustomerWritten(tx[d]) /\ SubWritten(tx[d])
              \/ tx[d].writes = NoWrites /\ tx[d].event \in applied
<1>1. PICK answer \in {"ok", "lost"} : Close(d, answer)
  BY DEF Commit
<1> DEFINE t == [tx[d] EXCEPT !.pc = "done", !.writes = NoWrites, !.answer = answer]
<1>2. tx' = [tx EXCEPT ![d] = t]
  BY <1>1 DEF Close
<1>3. t \in Tx /\ t.pc = "done" /\ t.writes = NoWrites /\ t.event = tx[d].event
  <2>1. NoWrites \in Writes
    BY DEF NoWrites, Writes
  <2>2. QED
    BY <2>1, TxFits DEF Tx, Pcs
<1> HIDE DEF t
<1>4. QED
  BY <1>2, <1>3, TxFits DEF BillingInv, Commit, At, Fits

LEMMA CommitTables ==
    ASSUME BillingInv, NEW d \in Deliveries, Commit(d)
    PROVE  /\ Tables' /\ applied \subseteq applied'
           /\ tx[d].event \in applied'
<1> DEFINE w == tx[d].writes
<1>1. w \in Writes
  BY TxFits
<1>2. customers' \in [Users -> Customer \cup {None}]
  BY <1>1 DEF Commit, BillingInv, Tables, Writes
<1>3. subs' \in [Subs -> Rows \cup {None}]
  BY <1>1 DEF Commit, BillingInv, Tables, Writes
<1>4. /\ events' \in [Events -> {"none", "processed"}]
      /\ applied' = {e \in Events : events'[e] # "none"}
  BY <1>1, BillingNoneAssumption DEF Commit, BillingInv, Tables, Writes
<1>5. applied \subseteq applied' /\ tx[d].event \in applied'
  BY CommitEffect, BillingNoneAssumption DEF Commit, Begun
<1>6. QED
  BY <1>2, <1>3, <1>4, <1>5 DEF Tables

LEMMA CommitStep ==
    ASSUME BillingInv, NEW d \in Deliveries, Commit(d)
    PROVE  BillingInv'
<1>1. ASSUME NEW o \in Deliveries \ {d}
      PROVE  Fits(tx[o])'
  <2> DEFINE t == tx[o]
             w == tx[d].writes
  <2>1. t \in Tx /\ t.writes \in Writes /\ Fits(t) /\ Apart(t.writes, w) /\ w \in Writes
    BY TxFits
  <2>2. tx'[o] = t
    BY CommitEffect
  <2>3. ASSUME Begun(t)
        PROVE  t.event \notin applied'
    BY <2>1, <2>3, BillingNoneAssumption DEF Begun, Commit, Apart
  <2>4. ASSUME CustomerWritten(t), t.event \in Events
        PROVE  CustomerWritten(t)'
    <3>1. CASE ~Effect[t.event].links
      BY <2>2, <2>4, <3>1 DEF CustomerWritten, NoCustomer
    <3>2. CASE Effect[t.event].links
      <4>1. t.writes.user \in Users /\ t.writes.user # None
        BY <2>4, <3>2, EffectAssumption, BillingNoneAssumption DEF CustomerWritten
      <4>2. w.cus # t.writes.cus
        BY <2>1, <4>1 DEF Apart
      <4>3. \A u \in Users \ {t.writes.user} : customers'[u] # t.writes.cus
        BY <2>4, <3>2, <4>2 DEF Commit, CustomerWritten
      <4>4. QED
        BY <2>2, <2>4, <3>2, <4>3 DEF CustomerWritten
    <3>3. QED
      BY <3>1, <3>2
  <2>5. ASSUME SubWritten(t), t.event \in Events
        PROVE  SubWritten(t)'
    <3>1. CASE Effect[t.event].kind # "cancel"
      BY <2>2, <2>5, <3>1 DEF SubWritten, NoSub
    <3>2. CASE Effect[t.event].kind = "cancel"
      <4>1. t.writes.sub = Effect[t.event].sub /\ t.writes.sub \in Subs
        BY <2>5, <3>2, EffectAssumption DEF SubWritten
      <4>2. w.sub # t.writes.sub
        BY <2>1, <4>1, BillingNoneAssumption DEF Apart
      <4>3. subs'[t.writes.sub] = subs[t.writes.sub]
        BY <4>1, <4>2 DEF Commit
      <4>4. QED
        BY <2>2, <2>5, <3>2, <4>1, <4>3 DEF SubWritten
    <3>3. QED
      BY <3>1, <3>2
  <2>6. Begun(t) => t.event \in Events
    BY DEF Begun
  <2>7. /\ Begun(t) => Begun(tx[o])'
        /\ NoCustomer(t) => NoCustomer(tx[o])'
        /\ NoSub(t) => NoSub(tx[o])'
    BY <2>2, <2>3 DEF Begun, NoCustomer, NoSub
  <2>8. applied \subseteq applied'
    BY CommitTables
  <2>9. QED
    BY <2>1, <2>2, <2>4, <2>5, <2>6, <2>7, <2>8 DEF Fits
<1>2. Fits(tx[d])'
  BY CommitEffect, CommitTables DEF Fits, NoWrites, CustomerPcs, SubPcs
<1>3. \A c, o \in Deliveries : c # o => Apart(tx'[c].writes, tx'[o].writes)
  BY CommitEffect DEF BillingInv, Apart, NoWrites, Fits
<1>4. QED
  BY <1>1, <1>2, <1>3, CommitEffect, CommitTables DEF BillingInv

-----------------------------------------------------------------------------
LEMMA BillingInvInit == BillingInit => BillingInv
BY BillingNoneAssumption
   DEF BillingInit, BillingInv, Tables, NewTx, NoWrites, Tx, Writes, Pcs, Fits,
       Apart, CustomerPcs, SubPcs

LEMMA BillingInvStep == BillingInv /\ [BillingNext]_billingVars => BillingInv'
<1> SUFFICES ASSUME BillingInv, [BillingNext]_billingVars
             PROVE  BillingInv'
  OBVIOUS
<1>1. CASE UNCHANGED billingVars
  BY <1>1 DEF billingVars, BillingInv, Tables, Fits, Begun, NoCustomer, NoSub,
              CustomerWritten, SubWritten
<1>2. ASSUME NEW d \in Deliveries, Deliver(d) \/ Handle(d) \/ Fail(d)
      PROVE  BillingInv'
  BY <1>2, DeliverStep, FailStep, RecordStep, CustomerSteps, SubSteps, CommitStep
     DEF Handle
<1>3. QED
  BY <1>1, <1>2 DEF BillingNext

\* The invariant holds of every state.
THEOREM BillingInvHolds == BillingSpec => []BillingInv
BY BillingInvInit, BillingInvStep, PTL DEF BillingSpec

\* An event that was answered with success is applied: no repetition is
\* answered while the first delivery can still be rolled back
\* (record_billing_event).
THEOREM AnsweredIsAppliedAlways == BillingSpec => []AnsweredIsApplied
<1>1. BillingInv => AnsweredIsApplied
  BY DEF BillingInv, Fits, AnsweredIsApplied
<1>2. QED
  BY <1>1, BillingInvHolds, PTL

\* A commit is the application of its event, or of nothing.
LEMMA CommitApplies ==
    ASSUME BillingInv, NEW d \in Deliveries, Commit(d)
    PROVE  \/ \E e \in Events : Abstract!Apply(e)
           \/ UNCHANGED <<customers, subs, applied>>
<1> DEFINE w == tx[d].writes
           e == tx[d].event
<1>1. CASE w = NoWrites /\ e \in applied
  <2>1. w.user = None /\ w.sub = None /\ w.event = None
    BY <1>1 DEF NoWrites
  <2>2. customers' = customers
    BY <2>1, BillingNoneAssumption DEF Commit, BillingInv, Tables
  <2>3. subs' = subs
    BY <2>1, BillingNoneAssumption DEF Commit, BillingInv, Tables
  <2>4. applied' = applied
    BY <2>1 DEF Commit
  <2>5. QED
    BY <2>2, <2>3, <2>4
<1>2. CASE Begun(tx[d]) /\ CustomerWritten(tx[d]) /\ SubWritten(tx[d])
  <2>1. e \in Events /\ e \notin applied /\ applied' = applied \cup {e}
    BY <1>2, BillingNoneAssumption DEF Begun, Commit
  <2>2. IF Effect[e].links
        THEN /\ Abstract!Free(Effect[e].cus, Effect[e].user)
             /\ customers' = [customers EXCEPT ![Effect[e].user] = Effect[e].cus]
        ELSE customers' = customers
    <3>1. CASE Effect[e].links
      <4>1. /\ w.user = Effect[e].user /\ w.cus = Effect[e].cus
            /\ \A u \in Users \ {w.user} : customers[u] # w.cus
        BY <1>2, <3>1 DEF CustomerWritten
      <4>2. customers' = [customers EXCEPT ![Effect[e].user] = Effect[e].cus]
        BY <4>1 DEF Commit, BillingInv, Tables
      <4>3. QED
        BY <3>1, <4>1, <4>2 DEF Abstract!Free
    <3>2. CASE ~Effect[e].links
      <4>1. w.user = None
        BY <1>2, <3>2 DEF CustomerWritten, NoCustomer
      <4>2. customers' = customers
        BY <4>1, BillingNoneAssumption DEF Commit, BillingInv, Tables
      <4>3. QED
        BY <3>2, <4>2
    <3>3. QED
      BY <3>1, <3>2, <2>1, EffectAssumption
  <2>3. CASE Effect[e].kind = "upsert"
    <3>1. w.sub = Effect[e].sub /\ w.row = Abstract!Row(e)
      BY <1>2, <2>3 DEF SubWritten, Abstract!Row
    <3>2. subs' = [subs EXCEPT ![Effect[e].sub] = Abstract!Row(e)]
      BY <3>1 DEF Commit, BillingInv, Tables
    <3>3. QED
      BY <2>1, <2>2, <2>3, <3>2 DEF Abstract!Apply
  <2>4. CASE Effect[e].kind = "cancel"
    <3>1. /\ w.sub = Effect[e].sub /\ subs[Effect[e].sub] # None
          /\ w.row = Abstract!Canceled(subs[Effect[e].sub])
      BY <1>2, <2>4 DEF SubWritten, Abstract!Canceled
    <3>2. subs' = [subs EXCEPT ![Effect[e].sub] = Abstract!Canceled(subs[Effect[e].sub])]
      BY <3>1 DEF Commit, BillingInv, Tables
    <3>3. QED
      BY <2>1, <2>2, <2>4, <3>1, <3>2 DEF Abstract!Apply
  <2>5. CASE Effect[e].kind = "none"
    <3>1. w.sub = None
      BY <1>2, <2>5 DEF SubWritten, NoSub
    <3>2. subs' = subs
      BY <3>1, BillingNoneAssumption DEF Commit, BillingInv, Tables
    <3>3. QED
      BY <2>1, <2>2, <2>5, <3>2 DEF Abstract!Apply
  <2>6. QED
    BY <2>1, <2>3, <2>4, <2>5, EffectAssumption
<1>3. QED
  BY <1>1, <1>2, CommitEffect

\* Every event takes effect at most once and as a whole, for any number of
\* deliveries, repetitions and faults: the store implements BillingEvents.
THEOREM BillingImplementsEvents == BillingSpec => ImplementsEvents
<1>1. BillingInit => Abstract!EventsInit
  BY DEF BillingInit, Abstract!EventsInit
<1>2. ASSUME BillingInv, [BillingNext]_billingVars
      PROVE  [\E e \in Events : Abstract!Apply(e)]_Abstract!eventVars
  <2>1. CASE UNCHANGED billingVars
    BY <2>1 DEF billingVars, Abstract!eventVars
  <2>2. ASSUME NEW d \in Deliveries, Deliver(d) \/ Handle(d) \/ Fail(d)
        PROVE  [\E e \in Events : Abstract!Apply(e)]_Abstract!eventVars
    <3>1. CASE Commit(d)
      BY <1>2, <3>1, CommitApplies DEF Abstract!eventVars
    <3>2. ASSUME Deliver(d) \/ Fail(d) PROVE UNCHANGED tables
      BY <3>2 DEF Deliver, Fail
    <3>3. ASSUME Handle(d), ~Commit(d) PROVE UNCHANGED tables
      <4>1. CASE Record(d)
        BY <4>1 DEF Record
      <4>2. CASE ReadCustomer(d) \/ InsertCustomer(d) \/ RereadCustomer(d)
        BY <4>2 DEF ReadCustomer, InsertCustomer, RereadCustomer
      <4>3. CASE UpdateCustomer(d) \/ ReadSub(d) \/ InsertSub(d)
        BY <4>3 DEF UpdateCustomer, ReadSub, InsertSub
      <4>4. CASE UpdateSub(d) \/ CancelSub(d) \/ SkipSub(d) \/ MarkProcessed(d)
        BY <4>4 DEF UpdateSub, CancelSub, SkipSub, MarkProcessed
      <4>5. QED
        BY <3>3, <4>1, <4>2, <4>3, <4>4 DEF Handle
    <3>4. CASE UNCHANGED tables
      BY <3>4 DEF tables, Abstract!eventVars
    <3>5. QED
      BY <2>2, <3>1, <3>2, <3>3, <3>4
  <2>3. QED
    BY <1>2, <2>1, <2>2 DEF BillingNext
<1>3. QED
  BY <1>1, <1>2, BillingInvHolds, PTL DEF BillingSpec, ImplementsEvents, Abstract!EventsSpec
=============================================================================
