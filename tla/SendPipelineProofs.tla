------------------------- MODULE SendPipelineProofs -------------------------
(***************************************************************************)
(* The three layers of SendPipeline implement MessageDelivery, for every   *)
(* number of requests, of retries and of rows a save may insert.           *)
(***************************************************************************)
EXTENDS SendPipeline, TLAPS

Calls == Reqs \X GAttempts
Saves == Reqs \X GAttempts \X LAttempts
LogicPcs == {"none", "check", "call", "wait", "done"}
LogicRec == [pc : LogicPcs, attempt : LAttempts, answer : Nat]
SavePcs == {"none", "running", "done"}
SaveRec == [pc : SavePcs, last : Nat, inserts : 0..Copies, answer : Nat]

(* TypeOK with names for its sets. *)
Typed ==
    /\ cur \in 1..(N + 1)
    /\ gPc \in {"read", "call", "wait", "dead"}
    /\ gAttempt \in GAttempts
    /\ logic \in [Calls -> LogicRec]
    /\ save \in [Saves -> SaveRec]
    /\ rows \subseteq [req : Reqs, id : Nat \ {0}]
    /\ nextId \in Nat \ {0}
    /\ outcome \in [Reqs -> {"pending", "acked", "refused", "abandoned"}]
    /\ seq \in [Reqs -> Nat]

(* A call is for a request the connection has reached, past the validation *)
(* for one that is accepted, and answers with the number of a row of it.   *)
LogicOk(i, l) ==
    /\ l.pc # "none" => i[1] <= cur
    /\ l.pc \in {"call", "wait"} => Accepted(i[1])
    /\ l.answer # 0 => [req |-> i[1], id |-> l.answer] \in rows

(* A save is for an accepted request, and holds numbers of its rows. *)
SaveOk(j, s) ==
    /\ s.pc # "none" => j[1] <= cur /\ Accepted(j[1])
    /\ s.last # 0 => [req |-> j[1], id |-> s.last] \in rows
    /\ s.answer # 0 => [req |-> j[1], id |-> s.answer] \in rows

HandlersOk ==
    /\ \A i \in Calls : LogicOk(i, logic[i])
    /\ \A j \in Saves : SaveOk(j, save[j])

(* The client has heard of the requests before the current one, and of     *)
(* none behind it.                                                         *)
Settled ==
    /\ gPc # "read" => cur \in Reqs
    /\ \A r \in Reqs : r < cur => outcome[r] \in {"acked", "refused"}
    /\ \A r \in Reqs : r > cur => outcome[r] = "pending"
    /\ cur \in Reqs /\ gPc # "dead" => outcome[cur] = "pending"
    /\ \A r \in Reqs : outcome[r] # "acked" => seq[r] = 0

(* Numbers grow: with the rows, and from a settled request to the rows of  *)
(* later ones, which do not exist before it is settled.                    *)
Growing ==
    /\ \A row \in rows : row.req <= cur /\ row.id < nextId
    /\ \A r \in Reqs : seq[r] < nextId
    /\ \A row \in rows : \A q \in Reqs : q < row.req => seq[q] < row.id

(* The inductive invariant. *)
PipelineInv == Typed /\ HandlersOk /\ Settled /\ Growing

-----------------------------------------------------------------------------
(* Typed is TypeOK. *)
LEMMA TypedIsTypeOK == Typed <=> TypeOK
BY DEF Typed, TypeOK, Calls, Saves, LogicRec, LogicPcs, SaveRec, SavePcs

(* Which save a call waits for, and which request a save is of. *)
LEMMA Indices ==
    /\ \A i \in Calls : i[1] \in Reqs /\ \A a \in LAttempts : <<i[1], i[2], a>> \in Saves
    /\ \A j \in Saves : j[1] \in Reqs
    /\ \A r \in Reqs, g \in GAttempts : <<r, g>> \in Calls
BY DEF Calls, Saves

(* Initially nothing is called and nothing stored. *)
LEMMA InitPipelineInv == Init => PipelineInv
<1> USE PipelineAssumption
<1> SUFFICES ASSUME Init PROVE PipelineInv
  OBVIOUS
<1>1. NoLogic \in LogicRec /\ NoSave \in SaveRec
  BY DEF NoLogic, NoSave, LogicRec, LogicPcs, SaveRec, SavePcs, LAttempts
<1>2. Typed
  BY <1>1 DEF Init, Typed, Calls, Saves, Reqs, GAttempts
<1>3. HandlersOk
  BY DEF Init, HandlersOk, LogicOk, SaveOk, Calls, Saves, NoLogic, NoSave
<1>4. Settled
  BY DEF Init, Settled, Reqs
<1>5. Growing
  BY DEF Init, Growing, Reqs
<1> QED
  BY <1>2, <1>3, <1>4, <1>5 DEF PipelineInv

-----------------------------------------------------------------------------
(* A step of the handler i of SendMessage leaves it at p with answer a. *)
Moved(i, p, a) ==
    /\ logic' \in [Calls -> LogicRec]
    /\ logic'[i].pc = p
    /\ logic'[i].answer = a
    /\ \A k \in Calls : k # i => logic'[k] = logic[k]

(* The assignments to a handler's fields, one lemma for each form. *)
LEMMA MovedPc ==
    ASSUME Typed, NEW i \in Calls, NEW p \in LogicPcs,
           logic' = [logic EXCEPT ![i].pc = p]
    PROVE  Moved(i, p, logic[i].answer)
<1>1. logic \in [Calls -> LogicRec] /\ logic[i] \in LogicRec
  BY DEF Typed
<1>2. [logic[i] EXCEPT !.pc = p] \in LogicRec
  BY <1>1 DEF LogicRec
<1>3. logic'[i] = [logic[i] EXCEPT !.pc = p] /\ \A k \in Calls : k # i => logic'[k] = logic[k]
  BY <1>1
<1>4. logic' \in [Calls -> LogicRec]
  BY <1>1, <1>2
<1>5. logic'[i].pc = p /\ logic'[i].answer = logic[i].answer
  BY <1>1, <1>3 DEF LogicRec
<1> QED
  BY <1>3, <1>4, <1>5 DEF Moved

LEMMA MovedReturns ==
    ASSUME Typed, NEW i \in Calls, NEW a \in Nat, LogicReturns(i, a)
    PROVE  Moved(i, "done", a)
<1> DEFINE new == [logic[i] EXCEPT !.pc = "done", !.answer = a]
<1>1. logic \in [Calls -> LogicRec] /\ logic[i] \in LogicRec
  BY DEF Typed
<1>2. new \in LogicRec /\ new.pc = "done" /\ new.answer = a
  BY <1>1 DEF LogicRec, LogicPcs
<1>3. logic' = [logic EXCEPT ![i] = new]
  BY <1>1 DEF LogicReturns
<1> HIDE DEF new
<1>4. logic'[i] = new /\ \A k \in Calls : k # i => logic'[k] = logic[k]
  BY <1>1, <1>3
<1>5. logic' \in [Calls -> LogicRec]
  BY <1>1, <1>2, <1>3
<1> QED
  BY <1>2, <1>4, <1>5 DEF Moved

LEMMA MovedThrows ==
    ASSUME Typed, NEW i \in Calls, LogicThrows(i)
    PROVE  \/ Moved(i, "call", logic[i].answer)
           \/ Moved(i, "done", 0)
<1> USE PipelineAssumption
<1> DEFINE new == [logic[i] EXCEPT !.pc = "call", !.attempt = @ + 1]
<1>1. logic \in [Calls -> LogicRec] /\ logic[i] \in LogicRec
  BY DEF Typed
<1>2. CASE logic[i].attempt < LMax /\ logic' = [logic EXCEPT ![i].pc = "call", ![i].attempt = @ + 1]
  <2>0. logic[i].attempt + 1 \in LAttempts
    BY <1>1, <1>2 DEF LogicRec, LAttempts
  <2>1. new \in LogicRec /\ new.pc = "call" /\ new.answer = logic[i].answer
    BY <1>1, <2>0 DEF LogicRec, LogicPcs
  <2>2. logic' = [logic EXCEPT ![i] = new]
    BY <1>1, <1>2 DEF LogicRec
  <2> HIDE DEF new
  <2>3. logic'[i] = new /\ \A k \in Calls : k # i => logic'[k] = logic[k]
    BY <1>1, <2>2
  <2>4. logic' \in [Calls -> LogicRec]
    BY <1>1, <2>1, <2>2
  <2> QED
    BY <2>1, <2>3, <2>4 DEF Moved
<1>3. CASE LogicReturns(i, 0)
  BY <1>3, MovedReturns
<1> QED
  BY <1>2, <1>3 DEF LogicThrows

(* A step of one handler of SendMessage keeps the invariant. *)
LEMMA LogicKeeps ==
    ASSUME PipelineInv, NEW i \in Calls, NEW p, NEW a, Moved(i, p, a),
           save' \in [Saves -> SaveRec], \A j \in Saves : SaveOk(j, save'[j]),
           UNCHANGED <<cur, rows, nextId, client>>, UNCHANGED gAttempt,
           gPc' = gPc \/ (gPc = "call" /\ gPc' = "wait"),
           p # "none" => i[1] <= cur,
           p \in {"call", "wait"} => Accepted(i[1]),
           a # 0 => [req |-> i[1], id |-> a] \in rows
    PROVE  PipelineInv'
<1>1. Typed'
  BY DEF PipelineInv, Typed, Moved, client
<1>2. HandlersOk'
  <2>1. \A k \in Calls : LogicOk(k, logic'[k])
    BY DEF PipelineInv, HandlersOk, LogicOk, Moved
  <2>2. cur' = cur /\ rows' = rows
    OBVIOUS
  <2>3. \A k \in Calls : LogicOk(k, logic[k])'
    BY <2>1, <2>2 DEF LogicOk, Accepted, SingleValid, GroupValid
  <2>4. \A j \in Saves : SaveOk(j, save[j])'
    BY <2>2 DEF SaveOk, Accepted, SingleValid, GroupValid
  <2> QED
    BY <2>3, <2>4 DEF HandlersOk
<1>3. Settled'
  BY DEF PipelineInv, Settled, client
<1>4. Growing'
  BY DEF PipelineInv, Growing, client
<1> QED
  BY <1>1, <1>2, <1>3, <1>4 DEF PipelineInv

-----------------------------------------------------------------------------
(* One step at a time.                                                     *)

LEMMA GatewayKeeps == PipelineInv /\ GatewayStep => PipelineInv'
<1> USE PipelineAssumption
<1> SUFFICES ASSUME PipelineInv, GatewayStep PROVE PipelineInv'
  OBVIOUS
<1>0. N \in Nat /\ cur \in 1..(N + 1) /\ \A r \in Reqs : r \in Nat /\ r <= N
  BY DEF PipelineInv, Typed, Reqs
<1>1. CASE Read
  <2>1. Typed' /\ Settled' /\ Growing'
    BY <1>1 DEF PipelineInv, Typed, Settled, Growing, Read, client, GAttempts
  <2>2. HandlersOk'
    BY <1>1 DEF PipelineInv, HandlersOk, LogicOk, SaveOk, Read, client,
                Accepted, SingleValid, GroupValid
  <2> QED
    BY <2>1, <2>2 DEF PipelineInv
<1>2. CASE GatewayCall
  <2> DEFINE i == <<cur, gAttempt>>
  <2>1. i \in Calls /\ i[1] = cur
    BY <1>2, Indices DEF PipelineInv, Typed, Settled, GatewayCall
  <2>2. save' \in [Saves -> SaveRec] /\ \A j \in Saves : SaveOk(j, save'[j])
    BY <1>2 DEF PipelineInv, Typed, HandlersOk, GatewayCall
  <2>3. UNCHANGED <<cur, rows, nextId, client>> /\ UNCHANGED gAttempt /\ gPc = "call" /\ gPc' = "wait"
    BY <1>2 DEF GatewayCall
  <2>4. LogicOk(i, logic[i]) /\ logic[i] \in LogicRec
    BY <2>1 DEF PipelineInv, HandlersOk, Typed
  <2> HIDE DEF i
  <2>5. CASE logic' = [logic EXCEPT ![i].pc = "check"]
    <3>1. Moved(i, "check", logic[i].answer)
      BY <2>1, <2>5, MovedPc DEF PipelineInv, LogicPcs
    <3>2. logic[i].answer # 0 => [req |-> i[1], id |-> logic[i].answer] \in rows
      BY <2>4 DEF LogicOk
    <3>3. i[1] <= cur
      BY <1>0, <2>1
    <3> QED
      BY <2>1, <2>2, <2>3, <3>1, <3>2, <3>3, LogicKeeps
  <2>6. CASE UNCHANGED logic
    <3>1. Moved(i, logic[i].pc, logic[i].answer)
      BY <2>1, <2>6 DEF Moved, PipelineInv, Typed
    <3> QED
      BY <2>1, <2>2, <2>3, <2>4, <3>1, LogicKeeps DEF LogicOk
  <2> QED
    BY <1>2, <2>5, <2>6 DEF GatewayCall, i
<1>3. CASE GatewayAnswered
  <2> DEFINE i == <<cur, gAttempt>>
             ans == logic[i].answer
  <2>1. cur \in Reqs /\ i \in Calls /\ i[1] = cur
    BY <1>3, Indices DEF PipelineInv, Typed, Settled, GatewayAnswered
  <2>2. ans \in Nat /\ (ans # 0 => [req |-> cur, id |-> ans] \in rows)
    BY <2>1 DEF PipelineInv, Typed, HandlersOk, LogicOk, LogicRec
  <2>3. /\ outcome' = [outcome EXCEPT ![cur] = IF ans = 0 THEN "refused" ELSE "acked"]
        /\ seq' = [seq EXCEPT ![cur] = ans]
        /\ cur' = cur + 1
        /\ gPc' = "read"
        /\ UNCHANGED <<gAttempt, logic, save, rows, nextId>>
    BY <1>3 DEF GatewayAnswered
  <2> HIDE DEF i, ans
  <2>4. Typed'
    <3>1. cur' \in 1..(N + 1)
      BY <1>0, <2>1, <2>3
    <3>2. /\ outcome' \in [Reqs -> {"pending", "acked", "refused", "abandoned"}]
          /\ seq' \in [Reqs -> Nat]
      BY <2>1, <2>2, <2>3 DEF PipelineInv, Typed
    <3> QED
      BY <2>3, <3>1, <3>2 DEF PipelineInv, Typed
  <2>5. HandlersOk'
    <3>1. \A k \in Calls : LogicOk(k, logic[k])'
      BY <1>0, <2>3, Indices DEF PipelineInv, HandlersOk, LogicOk, Accepted, SingleValid, GroupValid, Reqs
    <3>2. ASSUME NEW j \in Saves PROVE SaveOk(j, save[j])'
      <4>1. SaveOk(j, save[j]) /\ j[1] \in Nat
        BY <1>0, Indices DEF PipelineInv, HandlersOk
      <4>2. j[1] <= cur => j[1] <= cur'
        BY <1>0, <2>3, <4>1
      <4> QED
        BY <2>3, <4>1, <4>2 DEF SaveOk, Accepted, SingleValid, GroupValid
    <3> QED
      BY <3>1, <3>2 DEF HandlersOk
  <2>6. Settled'
    BY <1>0, <2>1, <2>2, <2>3 DEF PipelineInv, Typed, Settled
  <2>7. Growing'
    <3>1. ans < nextId
      BY <2>2 DEF PipelineInv, Growing, Typed
    <3>2. \A row \in rows : row.req \in Nat /\ row.id \in Nat /\ row.req <= cur
      BY <1>0 DEF PipelineInv, Growing, Typed, Reqs
    <3>3. \A r \in Reqs : seq'[r] = IF r = cur THEN ans ELSE seq[r]
      BY <2>3 DEF PipelineInv, Typed
    <3> QED
      BY <1>0, <2>1, <2>3, <3>1, <3>2, <3>3 DEF PipelineInv, Growing
  <2> QED
    BY <2>4, <2>5, <2>6, <2>7 DEF PipelineInv
<1>4. CASE GatewayGivesUp
  <2>1. cur \in Reqs /\ gAttempt \in Nat
    BY <1>4 DEF PipelineInv, Settled, GatewayGivesUp, Typed, GAttempts
  <2>2. Typed'
    BY <1>4, <2>1 DEF PipelineInv, Typed, GatewayGivesUp, GAttempts
  <2>3. HandlersOk'
    BY <1>4 DEF PipelineInv, HandlersOk, LogicOk, SaveOk, GatewayGivesUp,
                Accepted, SingleValid, GroupValid
  <2>4. Settled' /\ Growing'
    BY <1>0, <1>4, <2>1 DEF PipelineInv, Typed, Settled, Growing, GatewayGivesUp
  <2> QED
    BY <2>2, <2>3, <2>4 DEF PipelineInv
<1> QED
  BY <1>1, <1>2, <1>3, <1>4 DEF GatewayStep

(* The handlers of SendMessage. *)
LEMMA LogicStepKeeps ==
    ASSUME PipelineInv, NEW i \in Calls, LogicStep(i)
    PROVE  PipelineInv'
<1> USE PipelineAssumption
<1>0. /\ Typed /\ logic[i] \in LogicRec /\ LogicOk(i, logic[i])
      /\ save \in [Saves -> SaveRec] /\ \A j \in Saves : SaveOk(j, save[j])
      /\ logic[i].answer \in Nat /\ logic[i].attempt \in LAttempts
  BY DEF PipelineInv, Typed, HandlersOk, LogicRec
<1> DEFINE j == <<i[1], i[2], logic[i].attempt>>
<1>1. j \in Saves /\ j[1] = i[1]
  BY <1>0, Indices
<1>2. save[j] \in SaveRec /\ SaveOk(j, save[j]) /\ save[j].answer \in Nat
  BY <1>0, <1>1 DEF SaveRec
<1> HIDE DEF j
<1>3. CASE LogicCheck(i)
  <2>1. /\ UNCHANGED <<cur, rows, nextId, client>> /\ UNCHANGED gAttempt /\ gPc' = gPc
        /\ save' \in [Saves -> SaveRec] /\ \A k \in Saves : SaveOk(k, save'[k])
        /\ i[1] <= cur
    BY <1>0, <1>3 DEF LogicCheck, gateway, LogicOk
  <2>2. CASE LogicReturns(i, 0)
    <3>1. Moved(i, "done", 0)
      BY <1>0, <2>2, MovedReturns
    <3> QED
      BY <2>1, <3>1, LogicKeeps
  <2>3. CASE Accepted(i[1]) /\ logic' = [logic EXCEPT ![i].pc = "call"]
    <3>1. Moved(i, "call", logic[i].answer)
      BY <1>0, <2>3, MovedPc DEF LogicPcs
    <3>2. logic[i].answer # 0 => [req |-> i[1], id |-> logic[i].answer] \in rows
      BY <1>0 DEF LogicOk
    <3> QED
      BY <2>1, <2>3, <3>1, <3>2, LogicKeeps
  <2> QED
    BY <1>3, <2>2, <2>3 DEF LogicCheck
<1>4. CASE LogicCall(i)
  <2>1. /\ UNCHANGED <<cur, rows, nextId, client>> /\ UNCHANGED gAttempt /\ gPc' = gPc
        /\ i[1] <= cur /\ Accepted(i[1])
    BY <1>0, <1>4 DEF LogicCall, gateway, LogicOk
  <2>2. Moved(i, "wait", logic[i].answer)
    BY <1>0, <1>4, MovedPc DEF LogicCall, LogicPcs
  <2>3. logic[i].answer # 0 => [req |-> i[1], id |-> logic[i].answer] \in rows
    BY <1>0 DEF LogicOk
  <2>4. save' \in [Saves -> SaveRec] /\ \A k \in Saves : SaveOk(k, save'[k])
    <3>1. CASE UNCHANGED save
      BY <1>0, <3>1
    <3>2. CASE save' = [save EXCEPT ![j].pc = "running"]
      <4> DEFINE new == [save[j] EXCEPT !.pc = "running"]
      <4>1. new \in SaveRec /\ new.pc = "running" /\ new.last = save[j].last /\ new.answer = save[j].answer
        BY <1>2 DEF SaveRec, SavePcs
      <4>2. SaveOk(j, new)
        BY <1>1, <1>2, <2>1, <4>1 DEF SaveOk
      <4>3. save' = [save EXCEPT ![j] = new]
        BY <3>2
      <4> HIDE DEF new
      <4> QED
        BY <1>0, <1>1, <4>1, <4>2, <4>3
    <3> QED
      BY <1>4, <3>1, <3>2 DEF LogicCall, j
  <2> QED
    BY <2>1, <2>2, <2>3, <2>4, LogicKeeps
<1>5. CASE LogicAnswered(i) \/ LogicGivesUp(i)
  <2>1. /\ UNCHANGED <<cur, rows, nextId, client>> /\ UNCHANGED gAttempt /\ gPc' = gPc
        /\ save' \in [Saves -> SaveRec] /\ \A k \in Saves : SaveOk(k, save'[k])
        /\ i[1] <= cur /\ Accepted(i[1])
    BY <1>0, <1>5 DEF LogicAnswered, LogicGivesUp, gateway, LogicOk
  <2>2. CASE LogicReturns(i, save[j].answer) /\ save[j].answer # 0
    <3>1. Moved(i, "done", save[j].answer)
      BY <1>0, <1>2, <2>2, MovedReturns
    <3>2. [req |-> i[1], id |-> save[j].answer] \in rows
      BY <1>1, <1>2, <2>2 DEF SaveOk
    <3> QED
      BY <2>1, <3>1, <3>2, LogicKeeps
  <2>3. CASE LogicThrows(i)
    <3>1. Moved(i, "call", logic[i].answer) \/ Moved(i, "done", 0)
      BY <1>0, <2>3, MovedThrows
    <3>2. logic[i].answer # 0 => [req |-> i[1], id |-> logic[i].answer] \in rows
      BY <1>0 DEF LogicOk
    <3>3. CASE Moved(i, "call", logic[i].answer)
      BY <2>1, <3>2, <3>3, LogicKeeps
    <3>4. CASE Moved(i, "done", 0)
      BY <2>1, <3>4, LogicKeeps
    <3> QED
      BY <3>1, <3>3, <3>4
  <2> QED
    BY <1>5, <2>2, <2>3 DEF LogicAnswered, LogicGivesUp, SaveOf, j
<1> QED
  BY <1>3, <1>4, <1>5 DEF LogicStep

(* The handlers of SaveMsg. *)
LEMMA SaveStepKeeps ==
    ASSUME PipelineInv, NEW j \in Saves, SaveStep(j)
    PROVE  PipelineInv'
<1> USE PipelineAssumption
<1>0. /\ Typed /\ save \in [Saves -> SaveRec] /\ save[j] \in SaveRec /\ SaveOk(j, save[j])
      /\ save[j].last \in Nat /\ save[j].inserts \in 0..Copies /\ nextId \in Nat \ {0}
      /\ j[1] \in Reqs
  BY Indices DEF PipelineInv, Typed, HandlersOk, SaveRec
<1>1. CASE SaveInserts(j)
  <2> DEFINE row == [req |-> j[1], id |-> nextId]
             new == [save[j] EXCEPT !.inserts = @ + 1, !.last = nextId]
  <2>1. /\ UNCHANGED <<cur, gPc, gAttempt, logic, outcome, seq>>
        /\ rows' = rows \union {row} /\ nextId' = nextId + 1
        /\ save[j].pc = "running" /\ save[j].inserts < Copies
    BY <1>1 DEF SaveInserts, gateway, client
  <2>2. new \in SaveRec /\ new.pc = "running" /\ new.last = nextId /\ new.answer = save[j].answer
    <3>1. save[j].inserts + 1 \in 0..Copies
      BY <1>0, <2>1
    <3> QED
      BY <1>0, <2>1, <3>1 DEF SaveRec
  <2>3. save' = [save EXCEPT ![j] = new]
    BY <1>0, <1>1 DEF SaveInserts, SaveRec
  <2>4. j[1] <= cur /\ Accepted(j[1])
    BY <1>0, <2>1 DEF SaveOk
  <2>5. row \in [req : Reqs, id : Nat \ {0}] /\ row.req = j[1] /\ row.id = nextId
    BY <1>0
  <2> HIDE DEF row, new
  <2>6. Typed'
    BY <1>0, <2>1, <2>2, <2>3, <2>5 DEF Typed
  <2>7. HandlersOk'
    <3>1. \A i \in Calls : LogicOk(i, logic[i])'
      BY <2>1 DEF PipelineInv, HandlersOk, LogicOk, Accepted, SingleValid, GroupValid
    <3>2. ASSUME NEW k \in Saves PROVE SaveOk(k, save[k])'
      <4>1. SaveOk(k, save[k]) /\ (k # j => save'[k] = save[k]) /\ (k = j => save'[k] = new)
        BY <1>0, <2>3 DEF PipelineInv, HandlersOk
      <4>2. CASE k = j
        BY <1>0, <2>1, <2>2, <2>4, <4>1, <4>2 DEF SaveOk, row, Accepted, SingleValid, GroupValid
      <4>3. CASE k # j
        BY <2>1, <4>1, <4>3 DEF SaveOk, Accepted, SingleValid, GroupValid
      <4> QED
        BY <4>2, <4>3
    <3> QED
      BY <3>1, <3>2 DEF HandlersOk
  <2>8. Settled'
    BY <2>1 DEF PipelineInv, Settled
  <2>9. Growing'
    <3>1. \A o \in rows : o.id \in Nat /\ o.req \in Reqs
      BY <1>0 DEF Typed
    <3>2. \A r \in Reqs : seq[r] \in Nat
      BY <1>0 DEF Typed
    <3> QED
      BY <1>0, <2>1, <2>4, <2>5, <3>1, <3>2 DEF PipelineInv, Growing
  <2> QED
    BY <2>6, <2>7, <2>8, <2>9 DEF PipelineInv
<1>2. CASE SaveReturns(j)
  <2>1. PICK ans \in {save[j].last, 0} : save' = [save EXCEPT ![j].pc = "done", ![j].answer = ans]
    BY <1>2 DEF SaveReturns
  <2> DEFINE new == [save[j] EXCEPT !.pc = "done", !.answer = ans]
  <2>2. UNCHANGED <<cur, gPc, gAttempt, logic, rows, nextId, outcome, seq>> /\ save[j].pc = "running"
    BY <1>2 DEF SaveReturns, gateway, client
  <2>3. new \in SaveRec /\ new.pc = "done" /\ new.last = save[j].last /\ new.answer = ans
    <3>1. ans \in Nat
      BY <1>0
    <3> QED
      BY <1>0, <3>1 DEF SaveRec, SavePcs
  <2>4. save' = [save EXCEPT ![j] = new]
    BY <1>0, <2>1 DEF SaveRec
  <2>5. SaveOk(j, new)
    BY <1>0, <2>2, <2>3 DEF SaveOk
  <2> HIDE DEF new
  <2>6. Typed'
    BY <1>0, <2>2, <2>3, <2>4 DEF Typed
  <2>7. \A k \in Saves : SaveOk(k, save'[k])
    BY <1>0, <2>4, <2>5 DEF PipelineInv, HandlersOk
  <2>8. HandlersOk'
    <3>1. \A k \in Saves : SaveOk(k, save[k])'
      BY <2>2, <2>7 DEF SaveOk, Accepted, SingleValid, GroupValid
    <3>2. \A i \in Calls : LogicOk(i, logic[i])'
      BY <2>2 DEF PipelineInv, HandlersOk, LogicOk, Accepted, SingleValid, GroupValid
    <3> QED
      BY <3>1, <3>2 DEF HandlersOk
  <2>9. Settled' /\ Growing'
    BY <2>2 DEF PipelineInv, Settled, Growing
  <2> QED
    BY <2>6, <2>8, <2>9 DEF PipelineInv
<1> QED
  BY <1>1, <1>2 DEF SaveStep

(* The invariant is inductive. *)
LEMMA NextKeeps == PipelineInv /\ [Next]_vars => PipelineInv'
<1> SUFFICES ASSUME PipelineInv, [Next]_vars PROVE PipelineInv'
  OBVIOUS
<1>1. CASE GatewayStep
  BY <1>1, GatewayKeeps
<1>2. ASSUME NEW i \in DOMAIN logic, LogicStep(i) PROVE PipelineInv'
  <2>1. i \in Calls
    BY DEF PipelineInv, Typed
  <2> QED
    BY <1>2, <2>1, LogicStepKeeps
<1>3. ASSUME NEW j \in DOMAIN save, SaveStep(j) PROVE PipelineInv'
  <2>1. j \in Saves
    BY DEF PipelineInv, Typed
  <2> QED
    BY <1>3, <2>1, SaveStepKeeps
<1>4. CASE UNCHANGED vars
  <2>1. UNCHANGED <<cur, gPc, gAttempt, logic, save, rows, nextId, outcome, seq>>
    BY <1>4 DEF vars, gateway, client
  <2>2. Typed' /\ Settled' /\ Growing'
    BY <2>1 DEF PipelineInv, Typed, Settled, Growing
  <2>3. HandlersOk'
    BY <2>1 DEF PipelineInv, HandlersOk, LogicOk, SaveOk, Accepted, SingleValid, GroupValid
  <2> QED
    BY <2>2, <2>3 DEF PipelineInv
<1> QED
  BY <1>1, <1>2, <1>3, <1>4 DEF Next

-----------------------------------------------------------------------------
(* A request that SendMessage accepts is one that may be stored. *)
LEMMA AcceptedIsSendable ==
    ASSUME NEW r \in Reqs, Accepted(r)
    PROVE  r \notin Unsendable
BY DEF Accepted, SingleValid, GroupValid, Unsendable

(* Every step is a step of MessageDelivery or changes nothing of it: a row *)
(* is stored by SaveMsg, and the gateway alone tells the client.           *)
LEMMA StepRefines ==
    PipelineInv /\ [Next]_vars => [Delivery!Next]_<<rows, outcome, seq>>
<1> USE PipelineAssumption
<1> SUFFICES ASSUME PipelineInv, [Next]_vars
             PROVE  Delivery!Next \/ UNCHANGED <<rows, outcome, seq>>
  OBVIOUS
<1> USE DEF Delivery!Reqs
<1>0. N \in Nat /\ cur \in 1..(N + 1)
  BY DEF PipelineInv, Typed
<1>1. CASE Read \/ GatewayCall
  BY <1>1 DEF Read, GatewayCall, client
<1>2. CASE GatewayAnswered
  <2> DEFINE i == <<cur, gAttempt>>
             ans == logic[i].answer
  <2>1. cur \in Reqs /\ i \in Calls /\ i[1] = cur
    BY <1>2, Indices DEF PipelineInv, Typed, Settled, GatewayAnswered
  <2>2. ans \in Nat /\ (ans # 0 => [req |-> cur, id |-> ans] \in rows)
    BY <2>1 DEF PipelineInv, Typed, HandlersOk, LogicOk, LogicRec
  <2>3. /\ outcome' = [outcome EXCEPT ![cur] = IF ans = 0 THEN "refused" ELSE "acked"]
        /\ seq' = [seq EXCEPT ![cur] = ans]
        /\ UNCHANGED rows
    BY <1>2 DEF GatewayAnswered
  <2>4. /\ outcome[cur] = "pending" /\ seq[cur] = 0
        /\ \A q \in Reqs : q < cur => outcome[q] \in {"acked", "refused"}
    BY <1>2, <2>1 DEF PipelineInv, Settled, GatewayAnswered
  <2> HIDE DEF i, ans
  <2>5. CASE ans = 0
    <3>1. seq' = seq
      BY <2>1, <2>3, <2>4, <2>5 DEF PipelineInv, Typed
    <3>2. Delivery!Fail(cur)
      BY <2>3, <2>4, <2>5, <3>1 DEF Delivery!Fail, Reqs
    <3> QED
      BY <2>1, <3>2 DEF Delivery!Next, Reqs
  <2>6. CASE ans # 0
    <3> DEFINE row == [req |-> cur, id |-> ans]
    <3>1. row \in rows /\ row.req = cur /\ row.id = ans
      BY <2>2, <2>6
    <3>2. \A q \in Reqs : q < cur => seq[q] < row.id
      BY <3>1 DEF PipelineInv, Growing
    <3> HIDE DEF row
    <3>3. Delivery!Ack(cur)
      BY <2>3, <2>4, <2>6, <3>1, <3>2 DEF Delivery!Ack, Reqs
    <3> QED
      BY <2>1, <3>3 DEF Delivery!Next, Reqs
  <2> QED
    BY <2>5, <2>6
<1>3. CASE GatewayGivesUp
  <2>1. cur \in Reqs /\ outcome[cur] = "pending"
        /\ \A q \in Reqs : q < cur => outcome[q] \in {"acked", "refused"}
    BY <1>3 DEF PipelineInv, Settled, GatewayGivesUp
  <2>2. CASE UNCHANGED outcome
    BY <1>3, <2>2 DEF GatewayGivesUp
  <2>3. CASE outcome' = [outcome EXCEPT ![cur] = "abandoned"]
    <3>1. Delivery!Fail(cur)
      BY <1>3, <2>1, <2>3 DEF GatewayGivesUp, Delivery!Fail, Reqs
    <3> QED
      BY <2>1, <3>1 DEF Delivery!Next, Reqs
  <2> QED
    BY <1>3, <2>2, <2>3 DEF GatewayGivesUp
<1>4. ASSUME NEW i \in DOMAIN logic, LogicStep(i) PROVE UNCHANGED <<rows, outcome, seq>>
  BY <1>4 DEF LogicStep, LogicCheck, LogicCall, LogicAnswered, LogicGivesUp, client
<1>5. ASSUME NEW j \in DOMAIN save, SaveInserts(j) PROVE Delivery!Next
  <2> DEFINE row == [req |-> j[1], id |-> nextId]
  <2>1. j \in Saves /\ j[1] \in Reqs
    BY Indices DEF PipelineInv, Typed
  <2>2. j[1] \notin Unsendable
    BY <1>5, <2>1, AcceptedIsSendable DEF PipelineInv, HandlersOk, SaveOk, SaveInserts
  <2>3. rows' = rows \union {row} /\ UNCHANGED <<outcome, seq>>
    BY <1>5 DEF SaveInserts, client
  <2>4. \A o \in rows : o.id < row.id
    BY DEF PipelineInv, Growing
  <2>5. row.req = j[1]
    OBVIOUS
  <2> HIDE DEF row
  <2>6. Delivery!Store(j[1])
    BY <2>2, <2>3, <2>4, <2>5 DEF Delivery!Store
  <2> QED
    BY <2>1, <2>6 DEF Delivery!Next, Reqs
<1>6. ASSUME NEW j \in DOMAIN save, SaveReturns(j) PROVE UNCHANGED <<rows, outcome, seq>>
  BY <1>6 DEF SaveReturns, client
<1>7. CASE UNCHANGED vars
  BY <1>7 DEF vars, client
<1> QED
  BY <1>1, <1>2, <1>3, <1>4, <1>5, <1>6, <1>7 DEF Next, GatewayStep, SaveStep

-----------------------------------------------------------------------------
(* The handlers of the three layers, the rows and what the client was told *)
(* have their types.                                                       *)
THEOREM PipelineTypeCorrect == Spec => []TypeOK
<1>1. Spec => []PipelineInv
  BY InitPipelineInv, NextKeeps, PTL DEF Spec
<1>2. PipelineInv => TypeOK
  BY TypedIsTypeOK DEF PipelineInv
<1> QED
  BY <1>1, <1>2, PTL

(* SendMessage and SaveMsg with their retries implement MessageDelivery:   *)
(* an acknowledged message is stored under the number the client got,      *)
(* numbers grow from request to request, and nothing invalid is stored.    *)
THEOREM PipelineImplementsDelivery == Spec => ImplementsDelivery
<1>1. Spec => []PipelineInv
  BY InitPipelineInv, NextKeeps, PTL DEF Spec
<1>2. Init => Delivery!Init
  BY DEF Init, Delivery!Init, Delivery!Reqs, Reqs
<1> QED
  BY <1>1, <1>2, StepRefines, PTL DEF Spec, ImplementsDelivery, Delivery!Spec

=============================================================================
