------------------------- MODULE IdempotencyProofs --------------------------
(***************************************************************************)
(* What holds of Idempotency for every set of requests, accounts, keys and *)
(* bodies.                                                                 *)
(*                                                                         *)
(* Part 1, under FaultySpec (any query may fail, any process may stop):    *)
(* type correctness, exclusive execution, ownership of the row and the     *)
(* origin of every response.                                               *)
(* Part 2, under Spec (processes may stop, the database answers): one      *)
(* response and one resource per key, and the refinement of OncePerKey.    *)
(***************************************************************************)
EXTENDS Idempotency, TLAPS

-----------------------------------------------------------------------------
(* Lemmas on the operators *)

\* The coordinates of a request with an admissible key are those of a row.
LEMMA SlotOfType ==
    ASSUME sent \in [Requests -> Menu], NEW q \in Requests, Keyed(q)
    PROVE  SlotOf(q) \in Slots
BY MenuAssumption DEF Slots, SlotOf, Keyed

\* A fingerprint is a canonical form.
LEMMA FingerprintType ==
    ASSUME sent \in [Requests -> Menu], NEW q \in Requests
    PROVE  FingerprintOf(q) \in Forms
BY MenuAssumption DEF FingerprintOf

\* Every row gets one of four verdicts, and only an answered row with the
\* right fingerprint is replayed.
LEMMA VerdictCases ==
    ASSUME NEW q, NEW row \in Rows
    PROVE  \/ Verdict(q, row) \in {Refusal("conflict"), Refusal("mismatch")}
           \/ /\ row.state = "answered"
              /\ row.fingerprint = FingerprintOf(q)
              /\ Verdict(q, row) = Created(row.body)
<1>1. row.state \in {"absent", "reserved", "answered"}
  BY DEF Rows
<1>2. QED
  BY <1>1 DEF Verdict

\* The four things a step may do to the table: nothing, reserve the key it was
\* waiting for, attach its response, delete the row.
LEMMA LedgerEffect ==
    ASSUME NEW q \in Requests, Step(q) \/ Delete(q) \/ Rename(q) \/ Crash(q) \/ Fault(q)
    PROVE  \/ ledger' = ledger
           \/ /\ pc[q] = "reserving"
              /\ ledger[SlotOf(q)].state = "absent"
              /\ ledger' = [ledger EXCEPT ![SlotOf(q)] = ReservedRow(q)]
           \/ /\ pc[q] = "completing"
              /\ ledger[SlotOf(q)].state # "absent"
              /\ ledger' = [ledger EXCEPT ![SlotOf(q)] =
                              [ledger[SlotOf(q)] EXCEPT !.state = "answered", !.body = Response(q, shown[q])]]
           \/ /\ pc[q] = "releasing"
              /\ ledger' = [ledger EXCEPT ![SlotOf(q)] = AbsentRow]
              /\ pc' = [pc EXCEPT ![q] = "done"]
<1>1. CASE Reserve(q) \/ ReserveFault(q)
  BY <1>1 DEF Reserve, ReserveFault, SetRow
<1>2. CASE Complete(q) \/ CompleteFault(q)
  BY <1>2 DEF Complete, CompleteFault, SetRow
<1>3. CASE Release(q) \/ ReleaseFault(q)
  BY <1>3 DEF Release, ReleaseFault, SetRow, Reply, Goto
<1>4. CASE Receive(q) \/ Inspect(q) \/ Refuse(q) \/ Write(q) \/ Reread(q)
           \/ Delete(q) \/ Rename(q) \/ Crash(q) \/ InspectFault(q) \/ WriteFault(q) \/ RereadFault(q)
  BY <1>4 DEF Receive, Inspect, Refuse, Write, Reread, Delete, Rename, Crash, InspectFault,
       WriteFault, RereadFault
<1>5. QED
  BY <1>1, <1>2, <1>3, <1>4 DEF Step, Fault

-----------------------------------------------------------------------------
(* Part 1 *)

\* Only a request with a key reaches the steps that use it.
KeyedStages ==
    \A q \in Requests :
        pc[q] \in {"reserving", "inspecting", "completing", "releasing"} => Keyed(q)

\* A request that has not written has read nothing back; what it completes
\* with it has written and read back.
WrittenFirst ==
    \A q \in Requests :
        /\ pc[q] \in {"idle", "reserving", "inspecting", "handling"} => issued[q] = None
        /\ pc[q] \in {"idle", "reserving", "inspecting", "handling", "rereading"}
             => shown[q] = None
        /\ pc[q] \in {"rereading", "completing"} => Written(q)
        /\ pc[q] = "completing" => shown[q] # None

\* Only what was written has a place, and the place named after a request is
\* its own.
OwnPlaces ==
    \A q \in Requests :
        /\ address[q] # None => Written(q)
        /\ address[q] \in Requests => address[q] = q
        /\ issued[q] \in Requests => issued[q] = q

\* What the execution of e may show: what it wrote, or what had its slug.
Shows(e, r) == Written(e) /\ Written(r) /\ (r # e => issued[e] \in Slugs)

ShownGenuine == \A q \in Requests : shown[q] # None => Shows(q, shown[q])

\* The body of an answered row was made under the key of that row.
RowsGenuine ==
    \A s \in Slots :
        ledger[s].state = "answered" =>
            /\ ledger[s].body \in Responses
            /\ Shows(ledger[s].body.by, ledger[s].body.shows)
            /\ Keyed(ledger[s].body.by)
            /\ SlotOf(ledger[s].body.by) = s
            /\ FingerprintOf(ledger[s].body.by) = ledger[s].fingerprint

FaultyInv ==
    /\ TypeOK
    /\ KeyedStages
    /\ WrittenFirst
    /\ OwnPlaces
    /\ ShownGenuine
    /\ ExclusiveExecution
    /\ HolderOwnsRow
    /\ RowsGenuine

LEMMA InitFaultyInv == Init => FaultyInv
BY NoneAssumption
   DEF Init, FaultyInv, TypeOK, KeyedStages, WrittenFirst, OwnPlaces, ShownGenuine,
       Written, ExclusiveExecution, HolderOwnsRow, RowsGenuine, Stages, InProgress, Executing, Rows, AbsentRow,
       Answers, Pending, Holds

\* What a step may do to the resources: nothing, create the one of q at a free
\* place of its own, read it back, move it or delete it.
LEMMA ResourceEffect ==
    ASSUME NEW q \in Requests, Step(q) \/ Delete(q) \/ Rename(q) \/ Crash(q) \/ Fault(q)
    PROVE  \/ UNCHANGED <<issued, address, shown>>
           \/ /\ pc[q] = "handling"
              /\ UNCHANGED shown
              /\ \E a \in Places(q) : /\ issued' = [issued EXCEPT ![q] = a]
                                      /\ address' = [address EXCEPT ![q] = a]
           \/ /\ pc[q] = "rereading"
              /\ UNCHANGED <<issued, address>>
              /\ \E r \in Requests : /\ address[r] = issued[q]
                                     /\ shown' = [shown EXCEPT ![q] = r]
           \/ /\ address[q] # None
              /\ UNCHANGED <<issued, shown>>
              /\ \E a \in Places(q) \union {None} : address' = [address EXCEPT ![q] = a]
<1>1. CASE Write(q) \/ WriteFault(q)
  BY <1>1 DEF Write, WriteFault, Insert, FreePlaces
<1>2. CASE Reread(q)
  BY <1>2 DEF Reread
<1>3. CASE Delete(q) \/ Rename(q)
  BY <1>3 DEF Delete, Rename, FreePlaces
<1>4. CASE Receive(q) \/ Reserve(q) \/ Inspect(q) \/ Refuse(q) \/ Complete(q) \/ Release(q)
           \/ Crash(q) \/ ReserveFault(q) \/ InspectFault(q) \/ RereadFault(q)
           \/ CompleteFault(q) \/ ReleaseFault(q)
  BY <1>4 DEF Receive, Reserve, Inspect, Refuse, Complete, Release, Crash, ReserveFault,
     InspectFault, RereadFault, CompleteFault, ReleaseFault
<1>5. QED
  BY <1>1, <1>2, <1>3, <1>4 DEF Step, Fault

\* The resources keep to their types and to the places that are theirs, and a
\* request shows what it wrote or what has its slug.
LEMMA ResourceStep ==
    ASSUME FaultyInv, NEW q \in Requests,
           Step(q) \/ Delete(q) \/ Rename(q) \/ Crash(q) \/ Fault(q)
    PROVE  /\ issued' \in [Requests -> Requests \union Slugs \union {None}]
           /\ address' \in [Requests -> Requests \union Slugs \union {None}]
           /\ shown' \in [Requests -> Requests \union {None}]
           /\ \A h \in Requests : Written(h) => issued'[h] = issued[h]
           /\ OwnPlaces'
           /\ ShownGenuine'
<1>1. /\ issued \in [Requests -> Requests \union Slugs \union {None}]
      /\ address \in [Requests -> Requests \union Slugs \union {None}]
      /\ shown \in [Requests -> Requests \union {None}]
      /\ WrittenFirst /\ OwnPlaces /\ ShownGenuine
  BY DEF FaultyInv, TypeOK
<1>2. Places(q) \subseteq {q} \union Slugs
  BY DEF Places
<1>3. None \notin Requests /\ None \notin Slugs /\ Slugs \intersect Requests = {}
  BY NoneAssumption, MenuAssumption
<1>4. CASE UNCHANGED <<issued, address, shown>>
  BY <1>1, <1>4 DEF OwnPlaces, ShownGenuine, Shows, Written
<1>5. ASSUME pc[q] = "handling", UNCHANGED shown, NEW a \in Places(q),
             issued' = [issued EXCEPT ![q] = a], address' = [address EXCEPT ![q] = a]
      PROVE  /\ issued' \in [Requests -> Requests \union Slugs \union {None}]
             /\ address' \in [Requests -> Requests \union Slugs \union {None}]
             /\ \A h \in Requests : Written(h) => issued'[h] = issued[h]
             /\ OwnPlaces'
             /\ ShownGenuine'
  <2>1. ~Written(q)
    BY <1>1, <1>5 DEF WrittenFirst, Written
  <2>2. a # None /\ (a \in Requests => a = q) /\ a \in Requests \union Slugs
    BY <1>2, <1>3, <1>5
  <2>3. \A h \in Requests : Written(h) => issued'[h] = issued[h]
    BY <1>1, <1>5, <2>1
  <2>4. OwnPlaces'
    BY <1>1, <1>5, <2>2 DEF OwnPlaces, Written
  <2>5. ShownGenuine'
    <3>1. \A h \in Requests : shown[h] # None => shown[h] \in Requests
      BY <1>1
    <3>2. QED
      BY <1>1, <1>5, <2>3, <3>1 DEF ShownGenuine, Shows, Written
  <2>6. QED
    BY <1>1, <1>5, <2>2, <2>3, <2>4, <2>5
<1>6. ASSUME pc[q] = "rereading", UNCHANGED <<issued, address>>, NEW r \in Requests,
             address[r] = issued[q], shown' = [shown EXCEPT ![q] = r]
      PROVE  shown' \in [Requests -> Requests \union {None}] /\ OwnPlaces' /\ ShownGenuine'
  <2>1. Written(q) /\ Written(r)
    BY <1>1, <1>6 DEF WrittenFirst, OwnPlaces, Written
  <2>2. r # q => issued[q] \in Slugs
    BY <1>1, <1>6, <2>1 DEF OwnPlaces, Written
  <2>3. QED
    BY <1>1, <1>6, <2>1, <2>2 DEF OwnPlaces, ShownGenuine, Shows, Written
<1>7. ASSUME address[q] # None, UNCHANGED <<issued, shown>>, NEW a \in Places(q) \union {None},
             address' = [address EXCEPT ![q] = a]
      PROVE  /\ address' \in [Requests -> Requests \union Slugs \union {None}]
             /\ OwnPlaces' /\ ShownGenuine'
  <2>1. (a \in Requests => a = q) /\ a \in Requests \union Slugs \union {None}
    BY <1>2, <1>3, <1>7
  <2>2. QED
    BY <1>1, <1>7, <2>1 DEF OwnPlaces, ShownGenuine, Shows, Written
<1>8. QED
  BY <1>1, <1>4, <1>5, <1>6, <1>7, ResourceEffect

\* The conjuncts of FaultyInv that speak of types, of stages and of resources.
LEMMA FaultyTypeStep ==
    ASSUME FaultyInv, [FaultyNext]_vars
    PROVE  TypeOK' /\ KeyedStages' /\ WrittenFirst' /\ OwnPlaces' /\ ShownGenuine'
<1> USE DEF Stages, InProgress, Executing, Goto
<1>1. CASE UNCHANGED vars
  BY <1>1 DEF FaultyInv, TypeOK, KeyedStages, WrittenFirst, OwnPlaces, ShownGenuine, Shows,
     Written, Keyed, vars
<1>2. ASSUME NEW q \in Requests, Step(q) \/ Delete(q) \/ Rename(q) \/ Crash(q) \/ Fault(q)
      PROVE  TypeOK' /\ KeyedStages' /\ WrittenFirst' /\ OwnPlaces' /\ ShownGenuine'
  <2>1. /\ sent \in [Requests -> Menu] /\ pc \in [Requests -> Stages]
        /\ ledger \in [Slots -> Rows] /\ answer \in [Requests -> Answers]
        /\ issued \in [Requests -> Requests \union Slugs \union {None}]
        /\ shown \in [Requests -> Requests \union {None}]
        /\ KeyedStages /\ WrittenFirst
    BY DEF FaultyInv, TypeOK
  <2>2. sent' = sent
    BY <1>2 DEF Step, Fault, Receive, Reserve, Inspect, Refuse, Write, Reread, Complete,
         Release, Delete, Rename, Crash, ReserveFault, InspectFault, WriteFault, RereadFault,
         CompleteFault, ReleaseFault
  <2>3. AbsentRow \in Rows /\ ReservedRow(q) \in Rows
    BY <2>1, FingerprintType DEF AbsentRow, ReservedRow, Rows
  <2>4. pc[q] = "completing" => Response(q, shown[q]) \in Responses
    BY <2>1 DEF WrittenFirst, Response, Responses
  <2>5. \A row \in Rows : \A b1 \in Responses :
          [row EXCEPT !.state = "answered", !.body = b1] \in Rows
    BY DEF Rows
  <2>6. /\ \A k \in Refusals : Refusal(k) \in Answers
        /\ \A b1 \in Responses : Created(b1) \in Answers
    BY DEF Refusal, Created, Answers
  <2>7. pc[q] = "inspecting" => Verdict(q, ledger[SlotOf(q)]) \in Answers
    <3> SUFFICES ASSUME pc[q] = "inspecting" PROVE Verdict(q, ledger[SlotOf(q)]) \in Answers
      OBVIOUS
    <3>1. SlotOf(q) \in Slots
      BY <2>1, SlotOfType DEF KeyedStages
    <3>2. ledger[SlotOf(q)].state = "answered" => ledger[SlotOf(q)].body \in Responses
      BY <3>1 DEF FaultyInv, RowsGenuine
    <3>3. ledger[SlotOf(q)] \in Rows
      BY <2>1, <3>1
    <3>4. QED
      BY <2>6, <3>2, <3>3, VerdictCases DEF Refusals
  <2>8. ledger' \in [Slots -> Rows]
    <3>1. Keyed(q) => SlotOf(q) \in Slots
      BY <2>1, SlotOfType
    <3>2. pc[q] = "completing" /\ SlotOf(q) \in Slots =>
            [ledger[SlotOf(q)] EXCEPT !.state = "answered", !.body = Response(q, shown[q])] \in Rows
      BY <2>1, <2>4, <2>5
    <3>3. QED
      BY <1>2, <2>1, <2>3, <3>1, <3>2, LedgerEffect DEF KeyedStages
  <2>9. answer' \in [Requests -> Answers]
    <3>1. CASE Reread(q)
      <4>1. \A r \in Requests : Created(Response(q, r)) \in Answers
        BY <2>6 DEF Response, Responses
      <4>2. QED
        BY <2>1, <2>6, <3>1, <4>1 DEF Reread, Reply, Throw, Refusals
    <3>2. CASE Complete(q)
      BY <2>1, <2>4, <2>6, <3>2 DEF Complete, Reply
    <3>3. CASE Inspect(q)
      BY <2>1, <2>7, <3>3 DEF Inspect, Reply
    <3>4. CASE Receive(q) \/ Reserve(q) \/ Refuse(q) \/ Write(q) \/ Release(q)
               \/ Delete(q) \/ Rename(q) \/ Crash(q) \/ Fault(q)
      BY <2>1, <2>6, <3>4
         DEF Fault, Receive, Reserve, Refuse, Write, Release, Delete, Rename, Crash,
           ReserveFault, InspectFault, WriteFault, RereadFault, CompleteFault, ReleaseFault,
           Reply, Throw, Refusals
    <3>5. QED
      BY <1>2, <3>1, <3>2, <3>3, <3>4 DEF Step
  <2>10. pc' \in [Requests -> Stages]
    BY <1>2, <2>1
       DEF Step, Fault, Receive, Reserve, Inspect, Refuse, Write, Reread, Complete,
         Release, Delete, Rename, Crash, ReserveFault, InspectFault, WriteFault, RereadFault,
         CompleteFault, ReleaseFault, Reply, Throw
  <2>11. /\ issued' \in [Requests -> Requests \union Slugs \union {None}]
         /\ address' \in [Requests -> Requests \union Slugs \union {None}]
         /\ shown' \in [Requests -> Requests \union {None}]
         /\ OwnPlaces'
         /\ ShownGenuine'
    BY <1>2, ResourceStep
  <2>12. KeyedStages'
    BY <1>2, <2>1, <2>2
       DEF Step, Fault, Receive, Reserve, Inspect, Refuse, Write, Reread, Complete,
         Release, Delete, Rename, Crash, ReserveFault, InspectFault, WriteFault, RereadFault,
         CompleteFault, ReleaseFault, Reply, Throw, KeyedStages, Keyed
  <2>13. WrittenFirst'
    <3>1. \A h \in Requests : h # q =>
            pc'[h] = pc[h] /\ issued'[h] = issued[h] /\ shown'[h] = shown[h]
      BY <1>2, <2>1
         DEF Step, Fault, Receive, Reserve, Inspect, Refuse, Write, Reread, Complete,
         Release, Delete, Rename, Crash, ReserveFault, InspectFault, WriteFault, RereadFault,
         CompleteFault, ReleaseFault, Reply, Throw, Insert
    <3>2. CASE Write(q)
      <4>1. \A a \in Places(q) : a # None
        BY NoneAssumption DEF Places
      <4>2. QED
        BY <2>1, <3>1, <3>2, <4>1 DEF Write, Insert, FreePlaces, WrittenFirst, Written
    <3>3. CASE Reread(q)
      BY <2>1, <3>1, <3>3, NoneAssumption DEF Reread, Throw, Reply, WrittenFirst, Written
    <3>4. CASE Receive(q) \/ Reserve(q) \/ Inspect(q) \/ Refuse(q) \/ Complete(q) \/ Release(q)
               \/ Delete(q) \/ Rename(q) \/ Crash(q) \/ Fault(q)
      BY <2>1, <3>1, <3>4
         DEF Fault, Receive, Reserve, Inspect, Refuse, Complete, Release, Delete, Rename, Crash,
           ReserveFault, InspectFault, WriteFault, RereadFault, CompleteFault, ReleaseFault,
           Reply, Throw, WrittenFirst, Written
    <3>5. QED
      BY <1>2, <3>2, <3>3, <3>4 DEF Step
  <2>14. QED
    BY <2>1, <2>2, <2>8, <2>9, <2>10, <2>11, <2>12, <2>13 DEF TypeOK
<1>3. QED
  BY <1>1, <1>2 DEF FaultyNext, Next

\* A step moves one request, whose contents it does not touch; it holds its
\* key after the step only if it did before or has just reserved it.
LEMMA HoldsEffect ==
    ASSUME FaultyInv, NEW q \in Requests, Step(q) \/ Delete(q) \/ Rename(q) \/ Crash(q) \/ Fault(q)
    PROVE  /\ sent' = sent
           /\ \A h \in Requests : Written(h) => issued'[h] = issued[h]
           /\ \A h \in Requests : h # q => pc'[h] = pc[h]
           /\ Holds(q)' => \/ Holds(q)
                           \/ /\ pc[q] = "reserving"
                              /\ ledger[SlotOf(q)].state = "absent"
                              /\ ledger' = [ledger EXCEPT ![SlotOf(q)] = ReservedRow(q)]
<1>1. pc \in [Requests -> Stages]
  BY DEF FaultyInv, TypeOK
<1>2. /\ sent' = sent
      /\ \A h \in Requests : Written(h) => issued'[h] = issued[h]
  BY ResourceStep
     DEF Step, Fault, Receive, Reserve, Inspect, Refuse, Write, Reread, Complete,
     Release, Delete, Rename, Crash, ReserveFault, InspectFault, WriteFault, RereadFault,
     CompleteFault, ReleaseFault
<1>3. \A h \in Requests : h # q => pc'[h] = pc[h]
  BY <1>1 DEF Step, Fault, Receive, Reserve, Inspect, Refuse, Write, Reread, Complete,
     Release, Delete, Rename, Crash, ReserveFault, InspectFault, WriteFault, RereadFault,
     CompleteFault, ReleaseFault, Reply, Throw, Goto
<1>4. Holds(q)' => Keyed(q)
  BY <1>2 DEF Holds, Keyed
<1>5. CASE Reserve(q)
  <2>1. CASE ledger[SlotOf(q)].state = "absent"
    BY <1>2, <1>3, <1>5, <2>1 DEF Reserve, SetRow
  <2>2. CASE ledger[SlotOf(q)].state # "absent"
    <3>1. pc'[q] = "inspecting"
      BY <1>1, <1>5, <2>2 DEF Reserve, Goto
    <3>2. QED
      BY <1>2, <1>3, <3>1 DEF Holds, Executing
  <2>3. QED
    BY <2>1, <2>2
<1>6. CASE Receive(q) \/ Inspect(q) \/ Refuse(q) \/ Write(q) \/ Reread(q)
           \/ Complete(q) \/ Release(q) \/ Delete(q) \/ Rename(q) \/ Crash(q) \/ Fault(q)
  <2>1. Holds(q)' => Holds(q)
    BY <1>1, <1>4, <1>6, NoneAssumption
       DEF Receive, Inspect, Refuse, Write, Reread, Complete, Release, Delete, Rename, Crash,
         Fault, ReserveFault, InspectFault, WriteFault, RereadFault, CompleteFault,
         ReleaseFault, Reply, Throw, Goto, Holds, Keyed, Executing
  <2>2. QED
    BY <1>2, <1>3, <2>1
<1>7. QED
  BY <1>5, <1>6 DEF Step

LEMMA FaultyStep == FaultyInv /\ [FaultyNext]_vars => FaultyInv'
<1> SUFFICES ASSUME FaultyInv, [FaultyNext]_vars PROVE FaultyInv'
  OBVIOUS
<1>1. TypeOK' /\ KeyedStages' /\ WrittenFirst' /\ OwnPlaces' /\ ShownGenuine'
  BY FaultyTypeStep
<1>2. CASE UNCHANGED vars
  BY <1>1, <1>2 DEF FaultyInv, ExclusiveExecution, HolderOwnsRow, RowsGenuine, Holds,
     Shows, Written, Keyed, SlotOf, FingerprintOf, vars
<1>3. ASSUME NEW q \in Requests, Step(q) \/ Delete(q) \/ Rename(q) \/ Crash(q) \/ Fault(q)
      PROVE  ExclusiveExecution' /\ HolderOwnsRow' /\ RowsGenuine'
  <2>1. /\ TypeOK /\ KeyedStages /\ WrittenFirst
        /\ ExclusiveExecution /\ HolderOwnsRow /\ RowsGenuine
    BY DEF FaultyInv
  <2>2. /\ sent' = sent
        /\ \A h \in Requests : Written(h) => issued'[h] = issued[h]
        /\ \A h \in Requests : h # q => pc'[h] = pc[h]
        /\ Holds(q)' => \/ Holds(q)
                        \/ /\ pc[q] = "reserving"
                           /\ ledger[SlotOf(q)].state = "absent"
                           /\ ledger' = [ledger EXCEPT ![SlotOf(q)] = ReservedRow(q)]
    BY <1>3, HoldsEffect
  <2>3. \A h \in Requests : /\ Keyed(h)' <=> Keyed(h)
                            /\ SlotOf(h)' = SlotOf(h)
                            /\ FingerprintOf(h)' = FingerprintOf(h)
                            /\ Keyed(h) => SlotOf(h) \in Slots
    BY <2>1, <2>2, SlotOfType DEF Keyed, SlotOf, FingerprintOf, TypeOK
  <2>4. \A h \in Requests : h # q => (Holds(h)' <=> Holds(h))
    BY <2>2, <2>3 DEF Holds
  <2>5. pc[q] \in {"completing", "releasing"} => Holds(q)
    BY <2>1 DEF KeyedStages, Holds, Executing
  <2>6. \A h \in Requests : Holds(h)' /\ h # q =>
             /\ Holds(h)
             /\ ledger'[SlotOf(h)] = ledger[SlotOf(h)]
    <3> SUFFICES ASSUME NEW h \in Requests, Holds(h), h # q
                 PROVE  ledger'[SlotOf(h)] = ledger[SlotOf(h)]
      BY <2>4
    <3>1. ledger[SlotOf(h)].state # "absent"
      BY <2>1 DEF HolderOwnsRow
    <3>2. Holds(q) => SlotOf(h) # SlotOf(q)
      BY <2>1 DEF ExclusiveExecution
    <3>3. SlotOf(h) \in Slots /\ ledger \in [Slots -> Rows]
      BY <2>1, <2>3 DEF Holds, TypeOK
    <3>4. QED
      BY <1>3, <2>5, <3>1, <3>2, <3>3, LedgerEffect
  <2>7. ExclusiveExecution'
    <3> SUFFICES ASSUME NEW q1 \in Requests, NEW q2 \in Requests, q1 # q2,
                        Holds(q1)', Holds(q2)', SlotOf(q1) = SlotOf(q2)
                 PROVE  FALSE
      BY <2>3 DEF ExclusiveExecution
    <3>1. ASSUME NEW h \in Requests, h # q, Holds(h)', Holds(q)', SlotOf(h) = SlotOf(q)
          PROVE  FALSE
      <4>1. Holds(h) /\ ledger[SlotOf(h)].state # "absent"
        BY <2>1, <2>6, <3>1 DEF HolderOwnsRow
      <4>2. QED
        BY <2>1, <2>2, <3>1, <4>1 DEF ExclusiveExecution
    <3>2. CASE q1 # q /\ q2 # q
      BY <2>1, <2>6, <3>2 DEF ExclusiveExecution
    <3>3. QED
      BY <3>1, <3>2
  <2>8. HolderOwnsRow'
    <3> SUFFICES ASSUME NEW h \in Requests, Holds(h)'
                 PROVE  /\ ledger'[SlotOf(h)].state # "absent"
                        /\ ledger'[SlotOf(h)].fingerprint = FingerprintOf(h)
      BY <2>3 DEF HolderOwnsRow
    <3>1. CASE h # q
      BY <2>1, <2>6, <3>1 DEF HolderOwnsRow
    <3>2. CASE h = q /\ ~Holds(q)
      <4>1. SlotOf(q) \in Slots /\ ledger \in [Slots -> Rows]
        BY <2>1, <2>3, <3>2 DEF Holds, TypeOK
      <4>2. QED
        BY <2>2, <3>2, <4>1 DEF ReservedRow
    <3>3. CASE h = q /\ Holds(q)
      <4>1. SlotOf(q) \in Slots /\ ledger \in [Slots -> Rows]
        BY <2>1, <2>3, <3>3 DEF Holds, TypeOK
      <4>2. /\ ledger[SlotOf(q)].state # "absent"
            /\ ledger[SlotOf(q)].fingerprint = FingerprintOf(q)
        BY <2>1, <3>3 DEF HolderOwnsRow
      <4>3. pc'[q] # "done" /\ pc \in [Requests -> Stages]
        BY <2>1, <3>3 DEF Holds, Executing, TypeOK
      <4>4. pc[q] # "reserving"
        BY <3>3 DEF Holds, Executing
      <4>5. [ledger[SlotOf(q)] EXCEPT !.state = "answered", !.body = Response(q, shown[q])].state = "answered"
            /\ [ledger[SlotOf(q)] EXCEPT !.state = "answered", !.body = Response(q, shown[q])].fingerprint
                 = ledger[SlotOf(q)].fingerprint
        BY <4>1 DEF Rows
      <4>6. QED
        BY <1>3, <3>3, <4>1, <4>2, <4>3, <4>4, <4>5, LedgerEffect
    <3>4. QED
      BY <3>1, <3>2, <3>3
  <2>9. RowsGenuine'
    <3> SUFFICES ASSUME NEW s \in Slots, ledger'[s].state = "answered"
                 PROVE  /\ ledger'[s].body \in Responses
                        /\ Shows(ledger'[s].body.by, ledger'[s].body.shows)
                        /\ Keyed(ledger'[s].body.by)
                        /\ SlotOf(ledger'[s].body.by) = s
                        /\ FingerprintOf(ledger'[s].body.by) = ledger'[s].fingerprint
      <4>1. \A b1 \in Responses : b1.by \in Requests /\ b1.shows \in Requests
        BY DEF Responses
      <4>2. QED
        BY <2>2, <4>1 DEF RowsGenuine, Shows, Written, Keyed, SlotOf, FingerprintOf
    <3>1. CASE ledger'[s] = ledger[s]
      BY <2>1, <3>1 DEF RowsGenuine
    <3>2. CASE ledger'[s] # ledger[s]
      <4>0. ledger \in [Slots -> Rows]
        BY <2>1 DEF TypeOK
      <4>1. /\ pc[q] = "completing"
            /\ s = SlotOf(q)
            /\ ledger'[s] = [ledger[s] EXCEPT !.state = "answered", !.body = Response(q, shown[q])]
        <5>1. ReservedRow(q).state # "answered" /\ AbsentRow.state # "answered"
          BY DEF ReservedRow, AbsentRow
        <5>2. \A row : ledger' = [ledger EXCEPT ![SlotOf(q)] = row]
                 => s = SlotOf(q) /\ ledger'[s] = row
          BY <3>2, <4>0
        <5>3. QED
          BY <1>3, <3>2, <5>1, <5>2, LedgerEffect
      <4>2. /\ ledger'[s].body = Response(q, shown[q])
            /\ ledger'[s].fingerprint = ledger[s].fingerprint
        BY <4>0, <4>1 DEF Rows
      <4>3. Keyed(q) /\ FingerprintOf(q) = ledger[s].fingerprint
        BY <2>1, <2>5, <4>1 DEF HolderOwnsRow, Holds
      <4>4. shown[q] \in Requests /\ Shows(q, shown[q])
        BY <4>1 DEF FaultyInv, TypeOK, WrittenFirst, ShownGenuine
      <4>5. QED
        BY <4>1, <4>2, <4>3, <4>4 DEF Response, Responses
    <3>3. QED
      BY <3>1, <3>2
  <2>10. QED
    BY <2>7, <2>8, <2>9
<1>4. QED
  BY <1>1, <1>2, <1>3 DEF FaultyInv, FaultyNext, Next

\* What the properties below rest on, whatever crashes and whatever query fails.
THEOREM FaultyInvariance == FaultySpec => []FaultyInv
<1>1. QED
  BY InitFaultyInv, FaultyStep, PTL DEF FaultySpec

\* Every variable keeps to its type, whatever fails.
THEOREM TypeCorrectness == FaultySpec => []TypeOK
<1>1. FaultyInv => TypeOK
  BY DEF FaultyInv
<1>2. QED
  BY <1>1, FaultyInvariance, PTL

\* AC-4 of REQ-IDEM-001 for any number of requests: two executions under one
\* key never overlap, whatever crashes and whatever query fails.
THEOREM ExclusiveExecutionHolds == FaultySpec => []ExclusiveExecution
<1>1. FaultyInv => ExclusiveExecution
  BY DEF FaultyInv
<1>2. QED
  BY <1>1, FaultyInvariance, PTL

\* complete and release always act on the row of the request that runs them.
THEOREM HolderOwnsRowHolds == FaultySpec => []HolderOwnsRow
<1>1. FaultyInv => HolderOwnsRow
  BY DEF FaultyInv
<1>2. QED
  BY <1>1, FaultyInvariance, PTL

-----------------------------------------------------------------------------
(* The origin of every response *)

\* The four things a step may do to the answers: nothing, refuse, say what the
\* row found says, or return what the request itself wrote.
LEMMA AnswerEffect ==
    ASSUME NEW q \in Requests, Step(q) \/ Delete(q) \/ Rename(q) \/ Crash(q) \/ Fault(q)
    PROVE  \/ answer' = answer
           \/ /\ pc' = [pc EXCEPT ![q] = "done"]
              /\ \E k \in Refusals : answer' = [answer EXCEPT ![q] = Refusal(k)]
           \/ /\ pc[q] = "inspecting"
              /\ pc' = [pc EXCEPT ![q] = "done"]
              /\ ledger' = ledger
              /\ answer' = [answer EXCEPT ![q] = Verdict(q, ledger[SlotOf(q)])]
           \/ /\ pc[q] = "rereading"
              /\ ~Keyed(q)
              /\ pc' = [pc EXCEPT ![q] = "done"]
              /\ ledger' = ledger
              /\ \E r \in Requests :
                   /\ shown' = [shown EXCEPT ![q] = r]
                   /\ answer' = [answer EXCEPT ![q] = Created(Response(q, r))]
           \/ /\ pc[q] = "completing"
              /\ UNCHANGED shown
              /\ pc' = [pc EXCEPT ![q] = "done"]
              /\ ledger' = [ledger EXCEPT ![SlotOf(q)] =
                              [ledger[SlotOf(q)] EXCEPT !.state = "answered", !.body = Response(q, shown[q])]]
              /\ answer' = [answer EXCEPT ![q] = Created(Response(q, shown[q]))]
<1> USE DEF Refusals, Reply, Goto
<1>1. CASE Inspect(q)
  BY <1>1 DEF Inspect
<1>2. CASE Complete(q)
  BY <1>2 DEF Complete, SetRow
<1>3. CASE Reread(q)
  BY <1>3 DEF Reread, Throw
<1>4. CASE Receive(q)
  BY <1>4 DEF Receive
<1>5. CASE Reserve(q) \/ Refuse(q) \/ Write(q) \/ Release(q) \/ Delete(q) \/ Rename(q) \/ Crash(q)
  BY <1>5 DEF Reserve, Refuse, Write, Release, Delete, Rename, Crash, Throw
<1>6. CASE Fault(q)
  BY <1>6 DEF Fault, ReserveFault, InspectFault, WriteFault, RereadFault, CompleteFault,
     ReleaseFault, Throw
<1>7. QED
  BY <1>1, <1>2, <1>3, <1>4, <1>5, <1>6 DEF Step

\* A response under a key has the coordinates and the fingerprint of its key.
OwnKey(q, e) ==
    e # q => Keyed(q) /\ SlotOf(e) = SlotOf(q) /\ FingerprintOf(e) = FingerprintOf(q)

Genuine ==
    \A q \in Requests :
        answer[q].status = "created" =>
            /\ OwnKey(q, answer[q].body.by)
            /\ Shows(answer[q].body.by, answer[q].body.shows)

LEMMA GenuineServed == FaultyInv /\ Genuine => ServedFromOwnKey
BY DEF FaultyInv, TypeOK, Genuine, OwnKey, Shows, ServedFromOwnKey, Keyed, SlotOf,
   FingerprintOf

LEMMA GenuineInit == Init => Genuine
BY DEF Init, Genuine, Pending

LEMMA GenuineStep ==
    ASSUME FaultyInv, Genuine, [FaultyNext]_vars
    PROVE  Genuine'
<1>1. CASE UNCHANGED vars
  BY <1>1 DEF Genuine, OwnKey, Shows, Written, Keyed, SlotOf, FingerprintOf, vars
<1>2. ASSUME NEW q \in Requests, Step(q) \/ Delete(q) \/ Rename(q) \/ Crash(q) \/ Fault(q)
      PROVE  Genuine'
  <2>1. sent' = sent /\ \A h \in Requests : Written(h) => issued'[h] = issued[h]
    BY <1>2, HoldsEffect
  <2>2. SUFFICES ASSUME NEW h \in Requests, answer'[h].status = "created"
                 PROVE  \E e, r \in Requests :
                          answer'[h].body = Response(e, r) /\ OwnKey(h, e) /\ Shows(e, r)'
    <3> SUFFICES ASSUME NEW h \in Requests, NEW e \in Requests, NEW r \in Requests,
                        answer'[h].body = Response(e, r), OwnKey(h, e), Shows(e, r)'
                 PROVE  OwnKey(h, answer[h].body.by)' /\ Shows(answer[h].body.by, answer[h].body.shows)'
      BY DEF Genuine
    <3>1. answer'[h].body.by = e /\ answer'[h].body.shows = r
      BY DEF Response
    <3>2. QED
      BY <2>1, <3>1 DEF OwnKey, Shows, Written, Keyed, SlotOf, FingerprintOf
  <2>3. \A e, r \in Requests : Shows(e, r) => Shows(e, r)'
    BY <2>1 DEF Shows, Written
  <2>4. \A b1 \in Responses : /\ b1.by \in Requests /\ b1.shows \in Requests
                               /\ b1 = Response(b1.by, b1.shows)
    BY DEF Responses, Response
  <2>5. CASE answer'[h] = answer[h]
    <3>1. answer[h] \in Answers /\ answer[h].status = "created"
      BY <2>2, <2>5 DEF FaultyInv, TypeOK
    <3>2. answer[h].body \in Responses
      BY <3>1 DEF Answers, Refusals
    <3>3. OwnKey(h, answer[h].body.by) /\ Shows(answer[h].body.by, answer[h].body.shows)
      BY <3>1 DEF Genuine
    <3>4. QED
      BY <2>5, <2>3, <2>4, <3>2, <3>3
  <2>6. CASE answer'[h] # answer[h]
    <3>1. answer \in [Requests -> Answers] /\ ledger \in [Slots -> Rows]
      BY DEF FaultyInv, TypeOK
    <3>2. \A k \in Refusals : Refusal(k).status # "created"
      BY DEF Refusal, Refusals
    <3>3. \A a : answer' = [answer EXCEPT ![q] = a] => h = q /\ answer'[h] = a
      BY <2>6, <3>1
    <3>4. CASE pc[q] = "inspecting" /\ answer' = [answer EXCEPT ![q] = Verdict(q, ledger[SlotOf(q)])]
      <4>1. Keyed(q) /\ SlotOf(q) \in Slots
        BY <3>4, SlotOfType DEF FaultyInv, KeyedStages, TypeOK
      <4>2. \/ Verdict(q, ledger[SlotOf(q)]).status # "created"
            \/ /\ ledger[SlotOf(q)].state = "answered"
               /\ ledger[SlotOf(q)].fingerprint = FingerprintOf(q)
               /\ Verdict(q, ledger[SlotOf(q)]).body = ledger[SlotOf(q)].body
        <5>1. ledger[SlotOf(q)] \in Rows
          BY <3>1, <4>1
        <5>2. QED
          BY <5>1, VerdictCases DEF Refusal, Created
      <4>3. QED
        <5>1. h = q /\ answer'[h].body = ledger[SlotOf(q)].body
              /\ ledger[SlotOf(q)].state = "answered"
              /\ ledger[SlotOf(q)].fingerprint = FingerprintOf(q)
          BY <2>2, <3>3, <3>4, <4>2
        <5>2. /\ ledger[SlotOf(q)].body \in Responses
              /\ Shows(ledger[SlotOf(q)].body.by, ledger[SlotOf(q)].body.shows)
              /\ OwnKey(q, ledger[SlotOf(q)].body.by)
          BY <4>1, <5>1 DEF FaultyInv, RowsGenuine, OwnKey
        <5>3. QED
          BY <2>3, <2>4, <5>1, <5>2
    <3>5. ASSUME NEW r \in Requests, shown'[q] = r,
                 answer' = [answer EXCEPT ![q] = Created(Response(q, r))]
          PROVE  answer'[h].body = Response(q, r) /\ OwnKey(h, q) /\ Shows(q, r)'
      <4>1. Shows(q, r)'
        <5>1. ShownGenuine'
          BY <1>2, ResourceStep
        <5>2. QED
          BY <3>5, <5>1, NoneAssumption DEF ShownGenuine
      <4>2. h = q /\ answer'[h].body = Response(q, r)
        BY <3>3, <3>5 DEF Created
      <4>3. QED
        BY <4>1, <4>2 DEF OwnKey
    <3>6. CASE pc[q] = "completing" /\ UNCHANGED shown
               /\ answer' = [answer EXCEPT ![q] = Created(Response(q, shown[q]))]
      <4>1. shown[q] \in Requests
        BY <3>6 DEF FaultyInv, TypeOK, WrittenFirst
      <4>2. QED
        BY <3>5, <3>6, <4>1
    <3>7. CASE \E r \in Requests :
                 /\ shown' = [shown EXCEPT ![q] = r]
                 /\ answer' = [answer EXCEPT ![q] = Created(Response(q, r))]
      <4>1. shown \in [Requests -> Requests \union {None}]
        BY DEF FaultyInv, TypeOK
      <4>2. QED
        BY <3>5, <3>7, <4>1
    <3>8. CASE \E k \in Refusals : answer' = [answer EXCEPT ![q] = Refusal(k)]
      BY <2>2, <3>2, <3>3, <3>8
    <3>9. QED
      BY <1>2, <2>6, <3>4, <3>8, <3>6, <3>7, AnswerEffect
  <2>7. QED
    BY <2>5, <2>6
<1>3. QED
  BY <1>1, <1>2 DEF FaultyNext, Next

\* AC-2, AC-3 and AC-5 for any number of accounts, keys and bodies: whatever
\* crashes and whatever query fails, a 201 is the response of an execution for
\* the same account, route, key and body, which wrote; what it shows, if it is
\* not what that execution wrote, had an article's slug that others may take.
THEOREM ServedFromOwnKeyHolds == FaultySpec => []ServedFromOwnKey
<1>1. FaultySpec => []Genuine
  <2>1. FaultyInv /\ Genuine /\ [FaultyNext]_vars => Genuine'
    BY GenuineStep
  <2>2. QED
    BY <2>1, GenuineInit, FaultyInvariance, PTL DEF FaultySpec
<1>2. QED
  BY <1>1, FaultyInvariance, GenuineServed, PTL

-----------------------------------------------------------------------------
(* Part 2: the database answers *)

\* A request is answered when it is done, and not before.
PendingUntilDone == \A q \in Requests : pc[q] # "done" => answer[q] = Pending

\* The row of a running execution has no response yet.
HolderReserved == \A q \in Requests : Holds(q) => ledger[SlotOf(q)].state = "reserved"

\* A row without a response has no body either.
BlankRows == \A s \in Slots : ledger[s].state # "answered" => ledger[s].body = None

\* No request runs under the key of s.
Unheld(s) == \A h \in Requests : Holds(h) => SlotOf(h) # s

\* Where a request that leaves a resource behind stands: about to attach it to
\* its key, stopped with the key reserved for good, or done.
Accounted(q) ==
    \/ pc[q] \in {"rereading", "completing"}
    \/ ledger[SlotOf(q)].state = "reserved" /\ Unheld(SlotOf(q))
    \/ ledger[SlotOf(q)].state = "answered" /\ ledger[SlotOf(q)].body.by = q

ResourcesAccounted ==
    \A q \in Requests : Keyed(q) /\ LeavesResource(q) => Accounted(q)

SafeInv ==
    /\ FaultyInv
    /\ PendingUntilDone
    /\ HolderReserved
    /\ BlankRows
    /\ AnsweredBeforeReply
    /\ ResourcesAccounted
    /\ NoSecondResource

LEMMA InitSafeInv == Init => SafeInv
BY InitFaultyInv
   DEF Init, SafeInv, PendingUntilDone, HolderReserved, BlankRows, AnsweredBeforeReply,
       ResourcesAccounted, NoSecondResource, LeavesResource, Written, Pending, Holds,
       Executing, AbsentRow

\* The four things a step may do to the table when no query fails: those of
\* LedgerEffect, and where they leave the request.
LEMMA SafeLedgerEffect ==
    ASSUME NEW q \in Requests, Step(q) \/ Delete(q) \/ Rename(q) \/ Crash(q)
    PROVE  \/ ledger' = ledger
           \/ /\ pc[q] = "reserving"
              /\ ledger[SlotOf(q)].state = "absent"
              /\ pc' = [pc EXCEPT ![q] = "handling"]
              /\ ledger' = [ledger EXCEPT ![SlotOf(q)] = ReservedRow(q)]
           \/ /\ pc[q] = "completing"
              /\ ledger[SlotOf(q)].state # "absent"
              /\ pc' = [pc EXCEPT ![q] = "done"]
              /\ answer' = [answer EXCEPT ![q] = Created(Response(q, shown[q]))]
              /\ ledger' = [ledger EXCEPT ![SlotOf(q)] =
                              [ledger[SlotOf(q)] EXCEPT !.state = "answered", !.body = Response(q, shown[q])]]
           \/ /\ pc[q] = "releasing"
              /\ pc' = [pc EXCEPT ![q] = "done"]
              /\ answer' = [answer EXCEPT ![q] = Refusal("failed")]
              /\ ledger' = [ledger EXCEPT ![SlotOf(q)] = AbsentRow]
<1> USE DEF Goto, Reply, SetRow
<1>1. CASE Reserve(q)
  BY <1>1 DEF Reserve
<1>2. CASE Complete(q)
  BY <1>2 DEF Complete
<1>3. CASE Release(q)
  BY <1>3 DEF Release
<1>4. CASE Receive(q) \/ Inspect(q) \/ Refuse(q) \/ Write(q) \/ Reread(q)
           \/ Delete(q) \/ Rename(q) \/ Crash(q)
  BY <1>4 DEF Receive, Inspect, Refuse, Write, Reread, Delete, Rename, Crash
<1>5. QED
  BY <1>1, <1>2, <1>3, <1>4 DEF Step

LEMMA PendingStep ==
    ASSUME SafeInv, NEW q \in Requests, Step(q) \/ Delete(q) \/ Rename(q) \/ Crash(q)
    PROVE  PendingUntilDone'
<1>1. pc \in [Requests -> Stages] /\ answer \in [Requests -> Answers] /\ PendingUntilDone
  BY DEF SafeInv, FaultyInv, TypeOK
<1>2. /\ \A h \in Requests : h # q => pc'[h] = pc[h]
      /\ \A h \in Requests : h # q => answer'[h] = answer[h]
      /\ pc'[q] # "done" => answer'[q] = answer[q] /\ pc[q] # "done"
  BY <1>1 DEF Step, Receive, Reserve, Inspect, Refuse, Write, Reread, Complete, Release,
     Delete, Rename, Crash, Reply, Throw, Goto, InProgress, Executing
<1>3. QED
  BY <1>1, <1>2 DEF PendingUntilDone

LEMMA SafeStep == SafeInv /\ [Next]_vars => SafeInv'
<1> SUFFICES ASSUME SafeInv, [Next]_vars PROVE SafeInv'
  OBVIOUS
<1>1. FaultyInv'
  BY FaultyStep DEF SafeInv, FaultyNext
<1>2. CASE UNCHANGED vars
  BY <1>1, <1>2 DEF SafeInv, PendingUntilDone, HolderReserved, BlankRows,
     AnsweredBeforeReply, ResourcesAccounted, Accounted, Unheld, NoSecondResource,
     LeavesResource, Refused, Written, Holds, Keyed, SlotOf, vars
<1>3. ASSUME NEW q \in Requests, Step(q) \/ Delete(q) \/ Rename(q) \/ Crash(q)
      PROVE  SafeInv'
  <2>1. /\ FaultyInv /\ PendingUntilDone /\ HolderReserved /\ AnsweredBeforeReply
        /\ ResourcesAccounted /\ NoSecondResource /\ BlankRows
        /\ KeyedStages /\ WrittenFirst /\ ExclusiveExecution /\ HolderOwnsRow
    BY DEF SafeInv, FaultyInv
  <2>2. /\ pc \in [Requests -> Stages] /\ ledger \in [Slots -> Rows]
        /\ answer \in [Requests -> Answers]
    BY <2>1 DEF FaultyInv, TypeOK
  <2>3. /\ sent' = sent
        /\ \A h \in Requests : h # q => pc'[h] = pc[h]
        /\ Holds(q)' => \/ Holds(q)
                        \/ /\ pc[q] = "reserving"
                           /\ ledger[SlotOf(q)].state = "absent"
                           /\ ledger' = [ledger EXCEPT ![SlotOf(q)] = ReservedRow(q)]
    BY <1>3, <2>1, HoldsEffect
  <2>4. \A h \in Requests : /\ Keyed(h)' <=> Keyed(h)
                            /\ SlotOf(h)' = SlotOf(h)
                            /\ Keyed(h) => SlotOf(h) \in Slots
                            /\ h # q => (Holds(h)' <=> Holds(h))
    BY <2>1, <2>3, SlotOfType DEF FaultyInv, TypeOK, Keyed, SlotOf, Holds
  <2>5. pc[q] \in {"completing", "releasing"} => Holds(q)
    BY <2>1 DEF KeyedStages, Holds, Executing
  <2>6. \A s \in Slots : ledger'[s] # ledger[s] => s = SlotOf(q)
    BY <1>3, <2>2, SafeLedgerEffect
  <2>7. PendingUntilDone'
    BY <1>3, PendingStep
  <2>8. HolderReserved'
    <3> SUFFICES ASSUME NEW h \in Requests, Holds(h)'
                 PROVE  ledger'[SlotOf(h)].state = "reserved"
      BY <2>4 DEF HolderReserved
    <3>0. SlotOf(h) \in Slots
      BY <2>4 DEF Holds
    <3>1. CASE h # q
      <4>1. Holds(h) /\ ledger[SlotOf(h)].state = "reserved"
        BY <2>1, <2>4, <3>1 DEF HolderReserved
      <4>2. CASE Holds(q)
        BY <2>1, <2>6, <3>0, <3>1, <4>1, <4>2 DEF ExclusiveExecution
      <4>3. CASE ~Holds(q)
        BY <1>3, <2>2, <2>5, <3>0, <4>1, <4>3, SafeLedgerEffect
      <4>4. QED
        BY <4>2, <4>3
    <3>2. CASE h = q /\ ~Holds(q)
      BY <2>2, <2>3, <3>0, <3>2 DEF ReservedRow
    <3>3. CASE h = q /\ Holds(q)
      <4>1. ledger[SlotOf(q)].state = "reserved"
        BY <2>1, <3>3 DEF HolderReserved
      <4>2. pc'[q] # "done" /\ pc[q] # "reserving"
        BY <3>3 DEF Holds, Executing
      <4>3. QED
        BY <1>3, <2>2, <3>3, <4>1, <4>2, SafeLedgerEffect
    <3>4. QED
      BY <3>1, <3>2, <3>3
  <2>9. \A s \in Slots : ledger[s].state = "answered" => ledger'[s] = ledger[s]
    <3> SUFFICES ASSUME NEW s \in Slots, ledger[s].state = "answered", ledger'[s] # ledger[s]
                 PROVE  FALSE
      OBVIOUS
    <3>1. s = SlotOf(q)
      BY <2>6
    <3>2. QED
      BY <1>3, <2>1, <2>5, <3>1, SafeLedgerEffect DEF HolderReserved
  <2>10. AnsweredBeforeReply'
    <3> SUFFICES ASSUME NEW h \in Requests, Keyed(h), answer'[h].status = "created"
                 PROVE  /\ ledger'[SlotOf(h)].state = "answered"
                        /\ ledger'[SlotOf(h)].body = answer'[h].body
      BY <2>4 DEF AnsweredBeforeReply
    <3>1. SlotOf(h) \in Slots
      BY <2>4
    <3>2. CASE answer'[h] = answer[h]
      BY <2>1, <2>9, <3>1, <3>2 DEF AnsweredBeforeReply
    <3>3. CASE answer'[h] # answer[h]
      <4>1. \A a : answer' = [answer EXCEPT ![q] = a] => h = q /\ answer'[h] = a
        BY <2>2, <3>3
      <4>2. \A k \in Refusals : Refusal(k).status # "created"
        BY DEF Refusal, Refusals
      <4>3. CASE /\ pc[q] = "inspecting"
                 /\ ledger' = ledger
                 /\ answer' = [answer EXCEPT ![q] = Verdict(q, ledger[SlotOf(q)])]
        <5>1. h = q /\ ledger[SlotOf(q)] \in Rows
          BY <2>2, <3>1, <4>1, <4>3
        <5>2. \/ Verdict(q, ledger[SlotOf(q)]).status # "created"
              \/ /\ ledger[SlotOf(q)].state = "answered"
                 /\ Verdict(q, ledger[SlotOf(q)]).body = ledger[SlotOf(q)].body
          BY <5>1, VerdictCases DEF Refusal, Created
        <5>3. QED
          BY <4>1, <4>3, <5>1, <5>2
      <4>4. CASE /\ ledger' = [ledger EXCEPT ![SlotOf(q)] =
                                 [ledger[SlotOf(q)] EXCEPT !.state = "answered", !.body = Response(q, shown[q])]]
                 /\ answer' = [answer EXCEPT ![q] = Created(Response(q, shown[q]))]
        <5>1. h = q /\ answer'[h].body = Response(q, shown[q])
          BY <4>1, <4>4 DEF Created
        <5>2. ledger'[SlotOf(q)] = [ledger[SlotOf(q)] EXCEPT !.state = "answered", !.body = Response(q, shown[q])]
          BY <2>2, <3>1, <4>4, <5>1
        <5>3. QED
          BY <2>2, <3>1, <5>1, <5>2 DEF Rows
      <4>5. CASE \E k \in Refusals : answer' = [answer EXCEPT ![q] = Refusal(k)]
        BY <4>1, <4>2, <4>5
      <4>6. CASE ~Keyed(q)
        BY <1>3, <3>3, <4>1, <4>3, <4>5, <4>6, AnswerEffect, <2>1 DEF KeyedStages
      <4>7. QED
        BY <1>3, <3>3, <4>3, <4>4, <4>5, <4>6, AnswerEffect
    <3>4. QED
      BY <3>2, <3>3
  <2>11. \A h \in Requests : LeavesResource(h)' =>
           \/ LeavesResource(h)
           \/ h = q /\ pc[q] = "handling" /\ pc'[q] = "rereading"
           \/ h = q /\ pc[q] = "releasing" /\ Crash(q)
    <3>1. \A h \in Requests : h # q => /\ issued'[h] = issued[h] /\ shown'[h] = shown[h]
                                       /\ answer'[h] = answer[h]
      <4>1. \A h \in Requests : h # q => issued'[h] = issued[h] /\ shown'[h] = shown[h]
        BY <1>3, <2>1, ResourceEffect DEF FaultyInv, TypeOK
      <4>2. \A h \in Requests : h # q => answer'[h] = answer[h]
        BY <1>3, <2>2 DEF Step, Receive, Reserve, Inspect, Refuse, Write, Reread, Complete,
           Release, Delete, Rename, Crash, Reply, Throw
      <4>3. QED
        BY <4>1, <4>2
    <3>2. \A h \in Requests : h # q /\ LeavesResource(h)' => LeavesResource(h)
      BY <2>3, <3>1 DEF LeavesResource, Refused, Written
    <3>3. ASSUME LeavesResource(q)', ~LeavesResource(q)
          PROVE  \/ pc[q] = "handling" /\ pc'[q] = "rereading"
                 \/ pc[q] = "releasing" /\ Crash(q)
      <4>1. CASE Write(q)
        BY <2>2, <4>1 DEF Write, Goto, Stages, InProgress, Executing
      <4>2. CASE Crash(q)
        <5>1. pc[q] # "done"
          BY <4>2 DEF Crash, InProgress, Executing
        <5>2. answer[q].status # "failed"
          BY <2>1, <5>1 DEF PendingUntilDone, Pending
        <5>3. QED
          BY <2>2, <3>3, <4>2, <5>2 DEF Crash, LeavesResource, Refused, Written
      <4>3. CASE Release(q)
        <5>1. shown[q] # None /\ Written(q)
          BY <2>2, <3>3, <4>3 DEF Release, Reply, Refusal, LeavesResource, Refused, Written
        <5>2. QED
          BY <3>3, <5>1 DEF LeavesResource
      <4>4. CASE Reread(q)
        <5>1. Written(q) /\ pc[q] = "rereading" /\ answer[q].status # "failed"
          BY <2>1, <4>4 DEF Reread, WrittenFirst, PendingUntilDone, Pending
        <5>2. QED
          BY <3>3, <5>1 DEF LeavesResource, Refused
      <4>5. CASE Complete(q)
        <5>1. Written(q) /\ pc[q] = "completing" /\ answer[q].status # "failed"
          BY <2>1, <4>5 DEF Complete, WrittenFirst, PendingUntilDone, Pending
        <5>2. QED
          BY <3>3, <5>1 DEF LeavesResource, Refused
      <4>6. CASE Receive(q) \/ Reserve(q) \/ Inspect(q) \/ Refuse(q)
        <5>1. ~Written(q) /\ issued' = issued
          BY <2>1, <4>6 DEF Receive, Reserve, Inspect, Refuse, WrittenFirst, Written
        <5>2. QED
          BY <3>3, <5>1 DEF LeavesResource, Written
      <4>7. CASE Delete(q) \/ Rename(q)
        BY <3>3, <4>7 DEF Delete, Rename, LeavesResource, Refused, Written
      <4>8. QED
        BY <1>3, <4>1, <4>2, <4>3, <4>4, <4>5, <4>6, <4>7 DEF Step
    <3>4. QED
      BY <3>2, <3>3
  <2>12. ResourcesAccounted'
    <3> SUFFICES ASSUME NEW h \in Requests, LeavesResource(h)', Keyed(h)
                 PROVE  Accounted(h)'
      BY <2>4 DEF ResourcesAccounted
    <3> DEFINE s == SlotOf(h)
    <3>1. s \in Slots /\ SlotOf(h)' = s
      BY <2>4
    <3>2. CASE pc'[h] \in {"rereading", "completing"}
      BY <3>2 DEF Accounted
    <3>3. CASE ledger[s].state = "answered" /\ ledger[s].body.by = h
      BY <2>9, <3>1, <3>3 DEF Accounted
    <3>4. CASE ledger[s].state = "reserved" /\ Unheld(s)
      <4>1. Holds(q) => SlotOf(q) # s
        BY <3>4 DEF Unheld
      <4>2. ledger'[s] = ledger[s]
        BY <1>3, <2>2, <2>5, <2>6, <3>1, <3>4, <4>1, SafeLedgerEffect
      <4>3. Unheld(s)'
        BY <2>3, <2>4, <3>4, <4>1 DEF Unheld
      <4>4. QED
        BY <3>1, <3>4, <4>2, <4>3 DEF Accounted
    <3>5. CASE h = q /\ Holds(q) /\ Crash(q)
      <4>1. ledger'[s].state = "reserved"
        BY <2>1, <3>5 DEF HolderReserved, Crash
      <4>2. pc'[q] = "lost"
        BY <2>2, <3>5 DEF Crash, Goto
      <4>3. Unheld(s)'
        BY <2>1, <2>4, <3>5, <4>2 DEF Unheld, ExclusiveExecution, Holds, Executing
      <4>4. QED
        BY <3>1, <4>1, <4>3 DEF Accounted
    <3>6. CASE /\ LeavesResource(h)
               /\ pc[h] \in {"rereading", "completing"}
               /\ pc'[h] \notin {"rereading", "completing"}
      <4>1. h = q /\ Holds(q)
        BY <2>3, <3>6 DEF Holds, Executing
      <4>2. CASE Complete(q)
        <5>1. ledger[s] \in Rows /\ ledger[s].state # "absent"
          BY <2>1, <2>2, <3>1, <4>1 DEF HolderOwnsRow
        <5>2. ledger'[s] = [ledger[s] EXCEPT !.state = "answered", !.body = Response(q, shown[q])]
          BY <2>2, <3>1, <4>1, <4>2, <5>1 DEF Complete, SetRow
        <5>3. ledger'[s].state = "answered" /\ ledger'[s].body.by = h
          BY <4>1, <5>1, <5>2 DEF Rows, Response
        <5>4. QED
          BY <3>1, <5>3 DEF Accounted
      <4>3. CASE Crash(q)
        BY <3>5, <4>1, <4>3
      <4>4. CASE Reread(q)
        <5>1. CASE pc'[q] = "completing"
          BY <3>6, <4>1, <5>1
        <5>2. CASE Throw(q) /\ UNCHANGED shown
          <6>1. pc'[q] = "releasing" /\ shown'[q] = None
            BY <2>1, <2>2, <4>1, <4>4, <5>2 DEF Throw, Goto, Reread, WrittenFirst, Holds
          <6>2. QED
            BY <4>1, <6>1 DEF LeavesResource, Refused
        <5>3. QED
          BY <2>2, <4>1, <4>4, <5>1, <5>2 DEF Reread, Goto, Holds
      <4>5. QED
        BY <1>3, <3>6, <4>1, <4>2, <4>3, <4>4 DEF Step, Receive, Reserve, Inspect, Refuse,
           Write, Release, Delete, Rename
    <3>7. CASE h = q /\ pc[q] = "releasing" /\ Crash(q)
      BY <2>5, <3>5, <3>7
    <3>8. LeavesResource(h) \/ pc'[h] = "rereading" \/ (h = q /\ pc[q] = "releasing" /\ Crash(q))
      BY <2>11
    <3>9. QED
      BY <2>1, <3>2, <3>3, <3>4, <3>6, <3>7, <3>8 DEF ResourcesAccounted, Accounted
  <2>13. NoSecondResource'
    <3>1. ASSUME NEW h \in Requests, LeavesResource(h), Keyed(h), Keyed(q),
                 SlotOf(h) = SlotOf(q), pc[q] \in {"handling", "releasing"}
          PROVE  h = q
      <4>1. Holds(q) /\ ledger[SlotOf(q)].state = "reserved"
        BY <2>1, <3>1 DEF Holds, Executing, HolderReserved
      <4>2. CASE pc[h] \in {"rereading", "completing"}
        BY <2>1, <2>2, <3>1, <4>1, <4>2 DEF Holds, Executing, ExclusiveExecution
      <4>3. QED
        BY <2>1, <3>1, <4>1, <4>2 DEF ResourcesAccounted, Accounted, Unheld
    <3>2. QED
      BY <2>1, <2>2, <2>4, <2>11, <3>1 DEF NoSecondResource
  <2>14. BlankRows'
    <3> SUFFICES ASSUME NEW s \in Slots, ledger'[s] # ledger[s], ledger'[s].state # "answered"
                 PROVE  ledger'[s].body = None
      BY <2>1 DEF BlankRows
    <3>1. s = SlotOf(q) /\ ledger[s] \in Rows
      BY <2>2, <2>6
    <3>2. [ledger[s] EXCEPT !.state = "answered", !.body = Response(q, shown[q])].state = "answered"
      BY <3>1 DEF Rows
    <3>3. \A row : ledger' = [ledger EXCEPT ![SlotOf(q)] = row] => ledger'[s] = row
      BY <2>2, <3>1
    <3>4. ledger'[s] \in {ReservedRow(q), AbsentRow}
      BY <1>3, <3>1, <3>2, <3>3, SafeLedgerEffect
    <3>5. QED
      BY <3>4 DEF ReservedRow, AbsentRow
  <2>15. QED
    BY <1>1, <2>7, <2>8, <2>10, <2>12, <2>13, <2>14 DEF SafeInv
<1>4. QED
  BY <1>2, <1>3 DEF Next

\* What they rest on besides, as long as the database answers.
THEOREM SafeInvariance == Spec => []SafeInv
BY InitSafeInv, SafeStep, PTL DEF Spec

\* The comment of executeAndRecord: when a 201 leaves, its row holds it.
THEOREM AnsweredBeforeReplyHolds == Spec => []AnsweredBeforeReply
<1>1. SafeInv => AnsweredBeforeReply
  BY DEF SafeInv
<1>2. QED
  BY <1>1, SafeInvariance, PTL

\* AC-2: all the requests that got a 201 under one key got the same response.
THEOREM OneResponsePerKeyHolds == Spec => []OneResponsePerKey
<1>1. SafeInv => OneResponsePerKey
  <2> SUFFICES ASSUME SafeInv, NEW q1 \in Requests, NEW q2 \in Requests,
                      Keyed(q1), Keyed(q2), SlotOf(q1) = SlotOf(q2),
                      answer[q1].status = "created", answer[q2].status = "created"
               PROVE  answer[q1] = answer[q2]
    BY DEF OneResponsePerKey
  <2>1. answer[q1].body = answer[q2].body
    BY DEF SafeInv, AnsweredBeforeReply
  <2>2. answer[q1] \in Answers /\ answer[q2] \in Answers
    BY DEF SafeInv, FaultyInv, TypeOK
  <2>3. QED
    BY <2>1, <2>2 DEF Answers
<1>2. QED
  BY <1>1, SafeInvariance, PTL

\* AC-4: two requests under one key never leave two resources behind, a request
\* apart that found nothing where its INSERT had put one.
THEOREM NoSecondResourceHolds == Spec => []NoSecondResource
<1>1. SafeInv => NoSecondResource
  BY DEF SafeInv
<1>2. QED
  BY <1>1, SafeInvariance, PTL

\* An execution that ends without completing or releasing has been interrupted.
LEMMA HolderEnds ==
    ASSUME SafeInv, NEW q \in Requests, Step(q) \/ Delete(q) \/ Rename(q) \/ Crash(q), Holds(q)
    PROVE  \/ Holds(q)'
           \/ pc'[q] = "lost"
           \/ ledger'[SlotOf(q)].state # "reserved"
<1> USE DEF Goto, Reply, SetRow
<1>1. /\ pc \in [Requests -> Stages] /\ ledger \in [Slots -> Rows]
      /\ SlotOf(q) \in Slots /\ sent' = sent
  BY HoldsEffect, SlotOfType DEF SafeInv, FaultyInv, TypeOK, Holds
<1>2. Keyed(q) /\ Keyed(q)' /\ pc[q] \in Executing
  BY <1>1 DEF Holds, Keyed
<1>3. CASE Complete(q)
  <2>1. ledger[SlotOf(q)] \in Rows
    BY <1>1
  <2>2. [ledger[SlotOf(q)] EXCEPT !.state = "answered", !.body = Response(q, shown[q])].state = "answered"
    BY <2>1 DEF Rows
  <2>3. QED
    BY <1>1, <1>2, <1>3, <2>2 DEF Complete, Holds, Executing
<1>4. CASE Release(q)
  BY <1>1, <1>4 DEF Release, AbsentRow
<1>5. CASE Refuse(q) \/ Write(q) \/ Reread(q) \/ Delete(q) \/ Rename(q) \/ Crash(q)
  BY <1>1, <1>2, <1>5 DEF Refuse, Write, Reread, Delete, Rename, Crash, Throw, Holds, Executing
<1>6. ~Receive(q) /\ ~Reserve(q) /\ ~Inspect(q)
  BY <1>2 DEF Receive, Reserve, Inspect, Executing
<1>7. QED
  BY <1>3, <1>4, <1>5, <1>6 DEF Step

LEMMA ReservedStep ==
    ASSUME SafeInv, ReservedMeansInProgress, [Next]_vars
    PROVE  ReservedMeansInProgress'
<1>1. CASE UNCHANGED vars
  BY <1>1 DEF ReservedMeansInProgress, Interrupted, Holds, Keyed, SlotOf, vars
<1>2. ASSUME NEW q \in Requests, Step(q) \/ Delete(q) \/ Rename(q) \/ Crash(q),
             NEW s \in Slots, ledger'[s].state = "reserved"
      PROVE  \/ \E h \in Requests : Holds(h)' /\ SlotOf(h)' = s
             \/ Interrupted(s)'
  <2>1. /\ pc \in [Requests -> Stages] /\ ledger \in [Slots -> Rows] /\ KeyedStages
    BY DEF SafeInv, FaultyInv, TypeOK
  <2>2. /\ sent' = sent
        /\ \A h \in Requests : h # q => pc'[h] = pc[h]
    BY <1>2, HoldsEffect DEF SafeInv
  <2>3. \A h \in Requests : /\ Keyed(h)' <=> Keyed(h)
                            /\ SlotOf(h)' = SlotOf(h)
                            /\ h # q => (Holds(h)' <=> Holds(h))
    BY <2>2 DEF Keyed, SlotOf, Holds
  <2>4. CASE ledger[s].state = "reserved"
    <3>1. CASE Interrupted(s)
      <4>1. PICK h \in Requests : pc[h] = "lost" /\ Keyed(h) /\ SlotOf(h) = s
        BY <3>1 DEF Interrupted
      <4>2. pc[q] = "lost" => pc'[q] = "lost"
        BY <1>2 DEF Step, Receive, Reserve, Inspect, Refuse, Write, Reread, Complete, Release,
           Delete, Rename, Crash, InProgress, Executing
      <4>3. QED
        BY <2>2, <2>3, <4>1, <4>2 DEF Interrupted
    <3>2. CASE \E h \in Requests : Holds(h) /\ SlotOf(h) = s
      <4>1. PICK h \in Requests : Holds(h) /\ SlotOf(h) = s
        BY <3>2
      <4>2. CASE h # q
        BY <2>3, <4>1, <4>2
      <4>3. CASE h = q
        <5>1. Holds(q)' \/ pc'[q] = "lost"
          BY <1>2, <4>1, <4>3, HolderEnds
        <5>2. Keyed(q)' /\ SlotOf(q)' = s
          BY <2>3, <4>1, <4>3 DEF Holds
        <5>3. QED
          BY <5>1, <5>2 DEF Interrupted
      <4>4. QED
        BY <4>2, <4>3
    <3>3. QED
      BY <2>4, <3>1, <3>2 DEF ReservedMeansInProgress
  <2>5. CASE ledger[s].state # "reserved"
    <3>1. s = SlotOf(q) /\ pc[q] \in {"reserving", "completing", "releasing"}
      BY <1>2, <2>1, <2>5, SafeLedgerEffect
    <3>2. pc[q] = "reserving"
      BY <2>5, <3>1 DEF SafeInv, FaultyInv, KeyedStages, HolderReserved, Holds, Executing
    <3>3. pc'[q] = "handling" /\ Keyed(q)
      BY <1>2, <2>1, <2>5, <3>1, <3>2, SafeLedgerEffect DEF KeyedStages
    <3>4. QED
      BY <2>3, <3>1, <3>3 DEF Holds, Executing
  <2>6. QED
    BY <2>4, <2>5
<1>3. QED
  BY <1>1, <1>2 DEF Next, ReservedMeansInProgress

\* schema.prisma: as long as the database answers, a row without a response
\* means that a request is in progress, or that its process has stopped.
THEOREM ReservedMeansInProgressHolds == Spec => []ReservedMeansInProgress
<1>1. Init => ReservedMeansInProgress
  BY DEF Init, ReservedMeansInProgress, AbsentRow
<1>2. SafeInv /\ ReservedMeansInProgress /\ [Next]_vars => ReservedMeansInProgress'
  BY ReservedStep
<1>3. QED
  BY <1>1, <1>2, SafeInvariance, PTL DEF Spec

\* A response attached to a key is neither rewritten nor removed.
LEMMA AnsweredStaysStep ==
    ASSUME SafeInv, [Next]_vars, NEW s \in Slots, ledger[s].state = "answered"
    PROVE  ledger'[s] = ledger[s]
<1>1. CASE UNCHANGED vars
  BY <1>1 DEF vars
<1>2. ASSUME NEW q \in Requests, Step(q) \/ Delete(q) \/ Rename(q) \/ Crash(q), ledger'[s] # ledger[s]
      PROVE  FALSE
  <2>1. ledger \in [Slots -> Rows] /\ KeyedStages /\ HolderReserved
    BY DEF SafeInv, FaultyInv, TypeOK
  <2>2. s = SlotOf(q) /\ pc[q] \in {"reserving", "completing", "releasing"}
    BY <1>2, <2>1, SafeLedgerEffect
  <2>3. pc[q] \in {"completing", "releasing"} => ledger[s].state = "reserved"
    BY <2>1, <2>2 DEF KeyedStages, HolderReserved, Holds, Executing
  <2>4. QED
    BY <1>2, <2>2, <2>3, SafeLedgerEffect
<1>3. QED
  BY <1>1, <1>2 DEF Next

\* complete is the last write to a row: a response, once attached, stays.
THEOREM AnsweredIsFinalHolds == Spec => AnsweredIsFinal
<1>1. SafeInv /\ [Next]_vars
        => [\A s \in Slots : ledger[s].state = "answered" => ledger'[s] = ledger[s]]_vars
  BY AnsweredStaysStep
<1>2. QED
  BY <1>1, SafeInvariance, PTL DEF Spec, AnsweredIsFinal

-----------------------------------------------------------------------------
(* Refinement *)

Phase == [s \in Slots |-> PhaseOf(ledger[s])]
Result == [s \in Slots |-> ledger[s].body]
ServedTo(q) == IF Keyed(q) /\ answer[q].status = "created"
                 THEN <<SlotOf(q), answer[q].body>> ELSE None
Served == [q \in Requests |-> ServedTo(q)]

LEMMA RefinementInit == Init => Once!Init
BY DEF Init, Once!Init, PhaseOf, AbsentRow, Pending

\* Changing one row, or one answer, changes one entry of the abstract state.
LEMMA RowToPhase ==
    ASSUME NEW t \in Slots, NEW row, ledger \in [Slots -> Rows],
           ledger' = [ledger EXCEPT ![t] = row]
    PROVE  /\ Phase' = [Phase EXCEPT ![t] = PhaseOf(row)]
           /\ Result' = [Result EXCEPT ![t] = row.body]
BY DEF Phase, Result

LEMMA AnswerToServed ==
    ASSUME NEW q \in Requests, NEW a, answer \in [Requests -> Answers],
           sent' = sent, answer' = [answer EXCEPT ![q] = a]
    PROVE  Served' = [Served EXCEPT ![q] =
                        IF Keyed(q) /\ a.status = "created" THEN <<SlotOf(q), a.body>> ELSE None]
<1>1. \A h \in Requests : (Keyed(h)' <=> Keyed(h)) /\ SlotOf(h)' = SlotOf(h)
  BY DEF Keyed, SlotOf
<1>2. \A h \in Requests : ServedTo(h)' = IF h = q
          THEN IF Keyed(q) /\ a.status = "created" THEN <<SlotOf(q), a.body>> ELSE None
          ELSE ServedTo(h)
  BY <1>1 DEF ServedTo
<1>3. QED
  BY <1>2 DEF Served

LEMMA PhaseCases ==
    ASSUME NEW row
    PROVE  /\ row.state = "absent" => PhaseOf(row) = "free"
           /\ row.state = "reserved" => PhaseOf(row) = "taken"
           /\ row.state = "answered" => PhaseOf(row) = "settled"
BY DEF PhaseOf

LEMMA RefinementStep ==
    ASSUME SafeInv, NEW q \in Requests, Step(q) \/ Delete(q) \/ Rename(q) \/ Crash(q)
    PROVE  Once!Next \/ UNCHANGED Once!vars
<1> DEFINE s == SlotOf(q)
<1>1. /\ ledger \in [Slots -> Rows] /\ answer \in [Requests -> Answers]
      /\ KeyedStages /\ HolderReserved /\ PendingUntilDone /\ BlankRows
  BY DEF SafeInv, FaultyInv, TypeOK
<1>2. sent' = sent
  BY HoldsEffect DEF SafeInv
<1>3. /\ pc[q] \in {"reserving", "inspecting", "completing", "releasing"} => s \in Slots
      /\ pc[q] \in {"completing", "releasing"} => ledger[s].state = "reserved"
  BY <1>1, SlotOfType DEF SafeInv, FaultyInv, TypeOK, KeyedStages, HolderReserved, Holds, Executing
<1>4. pc[q] # "done" => Served[q] = None
  BY <1>1 DEF Served, ServedTo, PendingUntilDone, Pending
<1>5. \A t \in Slots : Phase[t] = PhaseOf(ledger[t]) /\ Result[t] = ledger[t].body
  BY DEF Phase, Result
<1>6. UNCHANGED ledger => UNCHANGED <<Phase, Result>>
  BY DEF Phase, Result
<1>7. UNCHANGED answer => UNCHANGED Served
  BY <1>2 DEF Served, ServedTo, Keyed, SlotOf
<1>8. ASSUME NEW a, answer' = [answer EXCEPT ![q] = a], pc[q] # "done",
              Keyed(q) => a.status # "created"
       PROVE  UNCHANGED Served
  <2>1. Served' = [Served EXCEPT ![q] =
                     IF Keyed(q) /\ a.status = "created" THEN <<SlotOf(q), a.body>> ELSE None]
    BY <1>1, <1>2, <1>8, AnswerToServed
  <2>2. QED
    BY <1>4, <1>8, <2>1 DEF Served
<1>9. ASSUME NEW a, answer' = [answer EXCEPT ![q] = a], Keyed(q), a.status = "created"
       PROVE  Served' = [Served EXCEPT ![q] = <<s, a.body>>]
  BY <1>1, <1>2, <1>9, AnswerToServed
<1>10. CASE Reserve(q) /\ ledger[s].state = "absent"
  <2>1. /\ s \in Slots /\ ledger' = [ledger EXCEPT ![s] = ReservedRow(q)] /\ UNCHANGED answer
    BY <1>3, <1>10 DEF Reserve, SetRow
  <2>2. /\ Phase[s] = "free"
        /\ Phase' = [Phase EXCEPT ![s] = "taken"]
    <3>1. PhaseOf(ReservedRow(q)) = "taken"
      BY PhaseCases DEF ReservedRow
    <3>2. Phase' = [Phase EXCEPT ![s] = PhaseOf(ReservedRow(q))]
      BY <1>1, <2>1, RowToPhase
    <3>3. Phase[s] = "free"
      BY <1>5, <1>10, <2>1, PhaseCases
    <3>4. QED
      BY <3>1, <3>2, <3>3
  <2>3. UNCHANGED Result
    BY <1>1, <1>10, <2>1 DEF Result, BlankRows, ReservedRow
  <2>4. QED
    BY <1>7, <2>1, <2>2, <2>3 DEF Once!Next, Once!Take, Phase, Result, Served, ServedTo
<1>11. CASE Release(q)
  <2>1. /\ s \in Slots /\ ledger' = [ledger EXCEPT ![s] = AbsentRow]
        /\ ledger[s].state = "reserved"
        /\ answer' = [answer EXCEPT ![q] = Refusal("failed")]
        /\ pc[q] # "done"
    BY <1>3, <1>11 DEF Release, SetRow, Reply
  <2>2. /\ Phase[s] = "taken"
        /\ Phase' = [Phase EXCEPT ![s] = "free"]
    <3>1. PhaseOf(AbsentRow) = "free"
      BY PhaseCases DEF AbsentRow
    <3>2. Phase' = [Phase EXCEPT ![s] = PhaseOf(AbsentRow)]
      BY <1>1, <2>1, RowToPhase
    <3>3. Phase[s] = "taken"
      BY <1>5, <2>1, PhaseCases
    <3>4. QED
      BY <3>1, <3>2, <3>3
  <2>3. UNCHANGED Result
    BY <1>1, <2>1 DEF Result, BlankRows, AbsentRow
  <2>4. UNCHANGED Served
    <3>1. Refusal("failed").status # "created"
      BY DEF Refusal
    <3>2. QED
      BY <1>8, <2>1, <3>1
  <2>5. QED
    BY <2>1, <2>2, <2>3, <2>4 DEF Once!Next, Once!GiveBack, Phase, Result, Served, ServedTo
<1>12. CASE Complete(q)
  <2> DEFINE row == [ledger[s] EXCEPT !.state = "answered", !.body = Response(q, shown[q])]
  <2>1. /\ s \in Slots /\ ledger' = [ledger EXCEPT ![s] = row]
        /\ ledger[s].state = "reserved" /\ Keyed(q)
        /\ answer' = [answer EXCEPT ![q] = Created(Response(q, shown[q]))]
        /\ pc[q] # "done"
    BY <1>1, <1>3, <1>12 DEF Complete, SetRow, Reply, KeyedStages
  <2>2. row.state = "answered" /\ row.body = Response(q, shown[q])
    BY <1>1, <2>1 DEF Rows
  <2>3. /\ Phase[s] = "taken"
        /\ Phase' = [Phase EXCEPT ![s] = "settled"]
        /\ Result' = [Result EXCEPT ![s] = Response(q, shown[q])]
    <3>1. PhaseOf(row) = "settled"
      BY <2>2, PhaseCases
    <3>2. Phase' = [Phase EXCEPT ![s] = PhaseOf(row)] /\ Result' = [Result EXCEPT ![s] = row.body]
      BY <1>1, <2>1, RowToPhase
    <3>3. Phase[s] = "taken"
      BY <1>5, <2>1, PhaseCases
    <3>4. QED
      BY <2>2, <3>1, <3>2, <3>3
  <2>4. Served[q] = None /\ Served' = [Served EXCEPT ![q] = <<s, Response(q, shown[q])>>]
    <3>1. Created(Response(q, shown[q])).status = "created" /\ Created(Response(q, shown[q])).body = Response(q, shown[q])
      BY DEF Created
    <3>2. QED
      BY <1>4, <1>9, <2>1, <3>1
  <2>5. QED
    <3>1. PICK r \in Requests : r = shown[q]
      BY <1>12 DEF SafeInv, FaultyInv, TypeOK, WrittenFirst, Complete
    <3>2. Once!Settle(q, s, r)
      BY <1>1, <2>1, <2>3, <2>4, <3>1 DEF Once!Settle, Phase, Result, Served, ServedTo, Response
    <3>3. QED
      BY <2>1, <3>2 DEF Once!Next
<1>13. CASE Inspect(q)
  <2>1. /\ s \in Slots /\ UNCHANGED ledger /\ Keyed(q) /\ pc[q] # "done"
        /\ answer' = [answer EXCEPT ![q] = Verdict(q, ledger[s])]
    BY <1>1, <1>3, <1>13 DEF Inspect, Reply, KeyedStages
  <2>2. CASE Verdict(q, ledger[s]).status # "created"
    <3>1. UNCHANGED Served
      BY <1>8, <2>1, <2>2
    <3>2. QED
      BY <1>6, <2>1, <3>1 DEF Once!vars, Phase, Result, Served, ServedTo
  <2>3. CASE /\ ledger[s].state = "answered"
             /\ Verdict(q, ledger[s]) = Created(ledger[s].body)
    <3>1. Phase[s] = "settled" /\ Served[q] = None
      BY <1>4, <1>5, <2>1, <2>3, PhaseCases
    <3>2. Served' = [Served EXCEPT ![q] = <<s, Result[s]>>]
      <4>1. /\ Verdict(q, ledger[s]).status = "created"
            /\ Verdict(q, ledger[s]).body = ledger[s].body
        BY <2>3 DEF Created
      <4>2. Served' = [Served EXCEPT ![q] = <<s, Verdict(q, ledger[s]).body>>]
        BY <1>9, <2>1, <4>1
      <4>3. QED
        BY <1>5, <2>1, <4>1, <4>2
    <3>3. QED
      BY <1>6, <2>1, <3>1, <3>2 DEF Once!Next, Once!Replay, Phase, Result, Served, ServedTo
  <2>4. QED
    <3>1. ledger[s] \in Rows
      BY <1>1, <2>1
    <3>2. QED
      BY <2>2, <2>3, <3>1, VerdictCases DEF Refusal
<1>14. ASSUME UNCHANGED ledger, UNCHANGED Served
       PROVE  Once!Next \/ UNCHANGED Once!vars
  BY <1>6, <1>14 DEF Once!vars, Phase, Result, Served, ServedTo
<1>15. \A k : Refusal(k).status = k
  BY DEF Refusal
<1>16. ASSUME UNCHANGED ledger, UNCHANGED answer
       PROVE  Once!Next \/ UNCHANGED Once!vars
  BY <1>7, <1>14, <1>16
<1>17. ASSUME NEW kind, kind # "created", UNCHANGED ledger, pc[q] # "done",
              answer' = [answer EXCEPT ![q] = Refusal(kind)]
       PROVE  Once!Next \/ UNCHANGED Once!vars
  <2>1. Refusal(kind).status # "created"
    BY <1>15, <1>17
  <2>2. UNCHANGED Served
    BY <1>8, <1>17, <2>1
  <2>3. QED
    BY <1>14, <1>17, <2>2
<1>18. ASSUME Throw(q), UNCHANGED ledger, pc[q] # "done"
       PROVE  Once!Next \/ UNCHANGED Once!vars
  <2>1. CASE UNCHANGED answer
    BY <1>16, <1>18, <2>1
  <2>2. CASE answer' = [answer EXCEPT ![q] = Refusal("failed")]
    <3>1. "failed" # "created"
      OBVIOUS
    <3>2. QED
      BY <1>17, <1>18, <2>2, <3>1
  <2>3. QED
    BY <1>18, <2>1, <2>2 DEF Throw, Reply
<1>19. CASE Receive(q)
  <2>1. UNCHANGED ledger /\ pc[q] # "done"
    BY <1>19 DEF Receive
  <2>2. CASE UNCHANGED answer
    BY <1>16, <2>1, <2>2
  <2>3. CASE answer' = [answer EXCEPT ![q] = Refusal("invalidKey")]
    <3>1. "invalidKey" # "created"
      OBVIOUS
    <3>2. QED
      BY <1>17, <2>1, <2>3, <3>1
  <2>4. QED
    BY <1>19, <2>2, <2>3 DEF Receive, Reply
<1>20. CASE Reserve(q) /\ ledger[s].state # "absent"
  <2>1. UNCHANGED ledger /\ UNCHANGED answer
    BY <1>20 DEF Reserve
  <2>2. QED
    BY <1>16, <2>1
<1>21. CASE Refuse(q)
  <2>1. Throw(q) /\ UNCHANGED ledger /\ pc[q] # "done"
    BY <1>21 DEF Refuse
  <2>2. QED
    BY <1>18, <2>1
<1>22. CASE Reread(q)
  <2>1. UNCHANGED ledger /\ pc[q] # "done"
    BY <1>22 DEF Reread
  <2>2. CASE Throw(q)
    BY <1>18, <2>1, <2>2
  <2>3. CASE UNCHANGED answer
    BY <1>16, <2>1, <2>3
  <2>4. CASE ~Keyed(q) /\ \E r : answer' = [answer EXCEPT ![q] = Created(r)]
    <3>1. UNCHANGED Served
      BY <1>8, <2>1, <2>4
    <3>2. QED
      BY <1>14, <2>1, <3>1
  <2>5. QED
    BY <1>22, <2>2, <2>3, <2>4 DEF Reread, Reply
<1>23. CASE Write(q) \/ Delete(q) \/ Rename(q) \/ Crash(q)
  <2>1. UNCHANGED ledger /\ UNCHANGED answer
    BY <1>23 DEF Write, Delete, Rename, Crash
  <2>2. QED
    BY <1>16, <2>1
<1>24. QED
  BY <1>10, <1>11, <1>12, <1>13, <1>19, <1>20, <1>21, <1>22, <1>23 DEF Step

\* As long as the database answers, and whatever crashes, the interceptor and
\* its store implement OncePerKey: an execution that succeeds settles its key
\* for good, and everyone served under a key is served what settled it.
THEOREM Refinement == Spec => KeepsOncePerKey
<1>1. SafeInv /\ [Next]_vars => [Once!Next]_Once!vars
  <2>1. UNCHANGED vars => UNCHANGED Once!vars
    BY DEF vars, Once!vars, Keyed, SlotOf
  <2>2. QED
    BY <2>1, RefinementStep DEF Next
<1>2. QED
  BY <1>1, RefinementInit, SafeInvariance, PTL DEF Spec, KeepsOncePerKey, Once!Spec

=============================================================================
