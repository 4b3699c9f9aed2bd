--------------------------- MODULE LiveOrdersProofs ---------------------------
(***************************************************************************)
(* The safety properties of LiveOrders and its refinement of LiveLifecycle, *)
(* for every number of orders, coordinators and crashes.                    *)
(***************************************************************************)
EXTENDS LiveOrders, TLAPS

(* What the status r of a row says of the exchange's side x of its order.   *)
OrderAgrees(r, x) ==
    /\ x.sent <= 1
    /\ x.position # "reversed"
    /\ x.sent = 0 => x = Untouched
    /\ ~x.entered => x.position = "flat" /\ ~x.guarded /\ x.flight \subseteq {"enter"}
    /\ "enter" \in x.flight => ~x.entered
    /\ r.status \in {"absent", "prepared"} => x = Untouched
    /\ r.status = "rejected" => ~x.entered /\ "enter" \notin x.flight
    /\ r.status = "submitting" => /\ x.flight \subseteq {"enter"} /\ ~x.guarded
                                  /\ x.entered => x.position = "open"
    /\ r.status = "unprotected" => x.entered
    /\ r.status = "protected" => x.entered /\ (x.position = "open" => x.guarded)
    /\ r.status = "emergency_closed" => x.entered /\ x.position = "flat"

(* A coordinator works on an order once it has claimed it.                  *)
Working(w) == w.pc \notin {"idle", "insert", "claim"}

(* What a working coordinator w may rely on.                                *)
WorkKnows(w, r, x) ==
    /\ w.pc \in {"leverage", "enter"} => r.status = "submitting" /\ x = Untouched
    /\ w.pc = "entering" => r.status = "submitting"
    /\ w.pc = "filled" => r.status = "submitting" /\ x.entered
    /\ w.pc \in {"protect", "protecting", "flatten", "flattening"} => r.status = "unprotected"
    /\ w.pc = "record" =>
         /\ w.verdict \in Verdicts
         /\ w.verdict = "rejected" =>
              r.status = "submitting" /\ ~x.entered /\ "enter" \notin x.flight
         /\ w.verdict = "uncertain" => r.status \in {"submitting", "unprotected"}
         /\ w.verdict = "protected" =>
              r.status = "unprotected" /\ (x.position = "open" => x.guarded)
         /\ w.verdict = "emergency_closed" => r.status = "unprotected" /\ x.position = "flat"

OrdersAgree == \A o \in Orders : OrderAgrees(row[o], exchange[o])

CoordinatorsKnow ==
    \A c \in Coordinators :
        /\ work[c].pc # "idle" => work[c].order \in Orders
        /\ Working(work[c]) => WorkKnows(work[c], row[work[c].order], exchange[work[c].order])

(* No two coordinators work on the same order.                              *)
OneEach ==
    \A c, d \in Coordinators :
        Working(work[c]) /\ Working(work[d]) /\ work[c].order = work[d].order => c = d

IInv ==
    /\ TypeOK
    /\ OrdersAgree
    /\ CoordinatorsKnow
    /\ OneEach

-----------------------------------------------------------------------------
(* What a step on one order has to show.                                    *)

(* A step that changes order o alone.                                       *)
LEMMA OneOrder ==
    ASSUME IInv, NEW o \in Orders, NEW r \in Row, NEW x \in Exchange,
           row' = [row EXCEPT ![o] = r], exchange' = [exchange EXCEPT ![o] = x],
           UNCHANGED <<work, crashes>>, OrderAgrees(r, x),
           \A d \in Coordinators : Working(work[d]) /\ work[d].order = o => WorkKnows(work[d], r, x)
    PROVE  IInv'
<1>1. TypeOK'
  BY DEF IInv, TypeOK
<1>2. OrdersAgree'
  BY DEF IInv, TypeOK, OrdersAgree
<1>3. CoordinatorsKnow'
  BY DEF IInv, TypeOK, CoordinatorsKnow, Working
<1>4. OneEach'
  BY DEF IInv, OneEach
<1> QED BY <1>1, <1>2, <1>3, <1>4 DEF IInv

(* A step of coordinator c on an order o no other works on.                  *)
LEMMA OneCoordinator ==
    ASSUME IInv, NEW c \in Coordinators, NEW o \in Orders,
           NEW w \in Work, NEW r \in Row, NEW x \in Exchange,
           row' = [row EXCEPT ![o] = r], exchange' = [exchange EXCEPT ![o] = x],
           work' = [work EXCEPT ![c] = w], crashes' \in 0..MaxCrashes,
           OrderAgrees(r, x),
           w.pc # "idle" => w.order = o,
           Working(w) => WorkKnows(w, r, x),
           \A d \in Coordinators : Working(work[d]) /\ work[d].order = o => d = c
    PROVE  IInv'
<1>1. TypeOK'
  BY DEF IInv, TypeOK
<1>2. OrdersAgree'
  BY DEF IInv, TypeOK, OrdersAgree
<1>3. CoordinatorsKnow'
  BY DEF IInv, TypeOK, CoordinatorsKnow, Working
<1>4. OneEach'
  BY DEF IInv, TypeOK, OneEach, Working
<1> QED BY <1>1, <1>2, <1>3, <1>4 DEF IInv

-----------------------------------------------------------------------------
(* Facts of one order and one coordinator in a state that satisfies IInv.   *)

(* The types of what a step reads, and what it may rely on.                 *)
LEMMA Reading ==
    ASSUME IInv, NEW c \in Coordinators, work[c].pc # "idle"
    PROVE  /\ work[c] \in Work
           /\ work[c].order \in Orders
           /\ row[work[c].order] \in Row
           /\ exchange[work[c].order] \in Exchange
           /\ OrderAgrees(row[work[c].order], exchange[work[c].order])
           /\ Working(work[c]) => WorkKnows(work[c], row[work[c].order], exchange[work[c].order])
           /\ \A d \in Coordinators \ {c} :
                Working(work[d]) /\ work[d].order = work[c].order
                  => /\ ~Working(work[c])
                     /\ WorkKnows(work[d], row[work[c].order], exchange[work[c].order])
BY DEF IInv, TypeOK, OrdersAgree, CoordinatorsKnow, OneEach

(* A step that leaves a function alone can be read as one that changes o.   *)
LEMMA Unchanged ==
    /\ TypeOK => /\ \A o \in Orders : row = [row EXCEPT ![o] = row[o]]
                 /\ \A o \in Orders : exchange = [exchange EXCEPT ![o] = exchange[o]]
BY DEF TypeOK

-----------------------------------------------------------------------------
(* One lemma for each kind of step.                                         *)

(* What the arrival or the loss of a request does to an order.              *)
LEMMA ArriveFacts ==
    ASSUME IInv, NEW o \in Orders, NEW request \in Requests, Arrive(o, request)
    PROVE  \E x \in Exchange :
             /\ request \in exchange[o].flight
             /\ exchange' = [exchange EXCEPT ![o] = x]
             /\ x.sent = exchange[o].sent /\ x.flight = exchange[o].flight \ {request}
             /\ \/ /\ x.entered = exchange[o].entered /\ x.position = exchange[o].position
                   /\ x.guarded = exchange[o].guarded
                \/ /\ x.entered <=> (request = "enter" \/ exchange[o].entered)
                   /\ x.position = IF request = "enter" THEN "open"
                                   ELSE IF request = "flatten" THEN Reduced(exchange[o].position)
                                   ELSE exchange[o].position
                   /\ x.guarded <=> (request = "protect" \/ exchange[o].guarded)
<1> DEFINE rest == [exchange[o] EXCEPT !.flight = @ \ {request}]
<1>1. PICK x \in {rest, Effect(rest, request)} :
        request \in exchange[o].flight /\ exchange' = [exchange EXCEPT ![o] = x]
  BY DEF Arrive
<1>2. exchange[o] \in Exchange
  BY DEF IInv, TypeOK
<1>3. /\ rest \in Exchange /\ rest.flight = exchange[o].flight \ {request}
      /\ rest.sent = exchange[o].sent /\ rest.entered = exchange[o].entered
      /\ rest.position = exchange[o].position /\ rest.guarded = exchange[o].guarded
  BY <1>2 DEF Exchange
<1> HIDE DEF rest
<1>4. /\ x \in Exchange /\ x.sent = rest.sent /\ x.flight = rest.flight
      /\ x = rest \/ /\ x.entered <=> (request = "enter" \/ rest.entered)
                     /\ x.position = IF request = "enter" THEN "open"
                                     ELSE IF request = "flatten" THEN Reduced(rest.position)
                                     ELSE rest.position
                     /\ x.guarded <=> (request = "protect" \/ rest.guarded)
  <2>1. x = rest \/ x = Effect(rest, request)
    BY <1>1
  <2>2. CASE x = rest
    BY <1>3, <2>2
  <2>3. CASE x = Effect(rest, request) /\ request = "enter"
    <3>1. x = [rest EXCEPT !.entered = TRUE, !.position = "open"]
      BY <2>3 DEF Effect
    <3> QED BY <1>3, <2>3, <3>1 DEF Exchange
  <2>4. CASE x = Effect(rest, request) /\ request = "protect"
    <3>1. x = [rest EXCEPT !.guarded = TRUE]
      BY <2>4 DEF Effect
    <3> QED BY <1>3, <2>4, <3>1 DEF Exchange
  <2>5. CASE x = Effect(rest, request) /\ request = "flatten"
    <3>1. x = [rest EXCEPT !.position = Reduced(@)]
      BY <2>5 DEF Effect
    <3>2. Reduced(rest.position) \in {"flat", "open", "reversed"}
      BY <1>3 DEF Exchange, Reduced
    <3> QED BY <1>3, <2>5, <3>1, <3>2 DEF Exchange
  <2> QED BY <2>1, <2>2, <2>3, <2>4, <2>5 DEF Requests
<1> QED BY <1>1, <1>3, <1>4

(* A request arrives or is lost: what working coordinators know is about    *)
(* requests that have left already.                                         *)
LEMMA ArriveStep ==
    ASSUME IInv, NEW o \in Orders, NEW request \in Requests, Arrive(o, request)
    PROVE  IInv'
<1>1. PICK x \in Exchange :
        /\ request \in exchange[o].flight
        /\ exchange' = [exchange EXCEPT ![o] = x]
        /\ x.sent = exchange[o].sent /\ x.flight = exchange[o].flight \ {request}
        /\ \/ /\ x.entered = exchange[o].entered /\ x.position = exchange[o].position
              /\ x.guarded = exchange[o].guarded
           \/ /\ x.entered <=> (request = "enter" \/ exchange[o].entered)
              /\ x.position = IF request = "enter" THEN "open"
                              ELSE IF request = "flatten" THEN Reduced(exchange[o].position)
                              ELSE exchange[o].position
              /\ x.guarded <=> (request = "protect" \/ exchange[o].guarded)
  BY ArriveFacts
<1>2. /\ row[o] \in Row /\ exchange[o] \in Exchange
      /\ OrderAgrees(row[o], exchange[o]) /\ UNCHANGED <<work, crashes>>
      /\ row' = [row EXCEPT ![o] = row[o]]
  BY Unchanged DEF Arrive, IInv, TypeOK, OrdersAgree
<1>3. OrderAgrees(row[o], x)
  BY <1>1, <1>2 DEF OrderAgrees, Exchange, Requests, Reduced, Untouched
<1>4. ASSUME NEW d \in Coordinators, Working(work[d]), work[d].order = o
      PROVE  WorkKnows(work[d], row[o], x)
  <2>1. WorkKnows(work[d], row[o], exchange[o])
    BY <1>4 DEF IInv, CoordinatorsKnow
  <2> QED BY <1>1, <1>2, <2>1 DEF WorkKnows, OrderAgrees, Exchange, Requests, Reduced, Untouched
<1> QED BY <1>1, <1>2, <1>3, <1>4, OneOrder

(* The stop or the target is reached.                                       *)
LEMMA FireStep ==
    ASSUME IInv, NEW o \in Orders, Fire(o)
    PROVE  IInv'
<1> DEFINE x == [exchange[o] EXCEPT !.guarded = FALSE, !.position = Reduced(@)]
<1>1. /\ exchange[o].guarded
      /\ exchange' = [exchange EXCEPT ![o] = x]
      /\ UNCHANGED <<row, work, crashes>>
  BY DEF Fire
<1>2. /\ row[o] \in Row /\ exchange[o] \in Exchange
      /\ OrderAgrees(row[o], exchange[o])
      /\ row' = [row EXCEPT ![o] = row[o]]
  BY <1>1, Unchanged DEF IInv, TypeOK, OrdersAgree
<1>3. /\ x \in Exchange /\ x.sent = exchange[o].sent /\ x.flight = exchange[o].flight
      /\ x.entered = exchange[o].entered /\ x.guarded = FALSE
      /\ x.position = Reduced(exchange[o].position)
  BY <1>2 DEF Exchange, Reduced
<1> HIDE DEF x
<1>4. OrderAgrees(row[o], x)
  BY <1>1, <1>2, <1>3 DEF OrderAgrees, Exchange, Reduced, Untouched
<1>5. ASSUME NEW d \in Coordinators, Working(work[d]), work[d].order = o
      PROVE  WorkKnows(work[d], row[o], x)
  <2>1. WorkKnows(work[d], row[o], exchange[o])
    BY <1>5 DEF IInv, CoordinatorsKnow
  <2> QED BY <1>1, <1>2, <1>3, <2>1 DEF WorkKnows, OrderAgrees, Exchange, Reduced, Untouched
<1> QED BY <1>1, <1>2, <1>3, <1>4, <1>5, OneOrder

(* Time passes.                                                             *)
LEMMA TimeStep ==
    ASSUME IInv, NEW o \in Orders, FifteenSecondsPass(o)
    PROVE  IInv'
<1> DEFINE r == [row[o] EXCEPT !.fresh = FALSE]
<1>1. /\ row' = [row EXCEPT ![o] = r]
      /\ UNCHANGED <<exchange, work, crashes>>
  BY DEF FifteenSecondsPass
<1>2. /\ row[o] \in Row /\ exchange[o] \in Exchange
      /\ OrderAgrees(row[o], exchange[o])
      /\ exchange' = [exchange EXCEPT ![o] = exchange[o]]
  BY <1>1, Unchanged DEF IInv, TypeOK, OrdersAgree
<1>3. r \in Row /\ r.status = row[o].status
  BY <1>2 DEF Row
<1> HIDE DEF r
<1>4. OrderAgrees(r, exchange[o])
  BY <1>2, <1>3 DEF OrderAgrees
<1>5. \A d \in Coordinators : Working(work[d]) /\ work[d].order = o
                                => WorkKnows(work[d], r, exchange[o])
  BY <1>3 DEF IInv, CoordinatorsKnow, WorkKnows
<1> QED BY <1>1, <1>2, <1>3, <1>4, <1>5, OneOrder


(* A coordinator that changes neither the row nor the exchange: it stops,   *)
(* or it looks at an order, or it goes on with its own to a state in which  *)
(* it knows what it has to.                                                 *)
LEMMA Thinks ==
    ASSUME IInv, NEW c \in Coordinators, NEW w \in Work,
           work' = [work EXCEPT ![c] = w], UNCHANGED <<row, exchange>>,
           crashes' \in 0..MaxCrashes,
           w.pc # "idle" => w.order \in Orders,
           Working(w) => /\ Working(work[c]) /\ w.order = work[c].order
                         /\ WorkKnows(w, row[w.order], exchange[w.order])
    PROVE  IInv'
<1>1. TypeOK'
  BY DEF IInv, TypeOK
<1>2. OrdersAgree'
  BY DEF IInv, OrdersAgree
<1>3. CoordinatorsKnow'
  BY DEF IInv, TypeOK, CoordinatorsKnow
<1>4. OneEach'
  BY DEF IInv, TypeOK, OneEach
<1> QED BY <1>1, <1>2, <1>3, <1>4 DEF IInv

(* prepare_entry passes its checks.                                         *)
LEMMA PrepareCheckStep ==
    ASSUME IInv, NEW c \in Coordinators, NEW o \in Orders, PrepareCheck(c, o)
    PROVE  IInv'
<1> DEFINE w == [work[c] EXCEPT !.pc = "insert", !.order = o]
<1>1. work' = [work EXCEPT ![c] = w] /\ UNCHANGED <<row, exchange, crashes>>
  BY DEF PrepareCheck
<1>2. work[c] \in Work /\ crashes' \in 0..MaxCrashes
  BY <1>1 DEF IInv, TypeOK
<1>3. w \in Work /\ w.order = o /\ ~Working(w)
  BY <1>2 DEF Work, Pcs, Working
<1> HIDE DEF w
<1> QED BY <1>1, <1>2, <1>3, Thinks

(* submit_prepared_entry reads the row.                                     *)
LEMMA SubmitReadStep ==
    ASSUME IInv, NEW c \in Coordinators, NEW o \in Orders, SubmitRead(c, o)
    PROVE  IInv'
<1> DEFINE w == [work[c] EXCEPT !.pc = "claim", !.order = o]
<1>1. work' = [work EXCEPT ![c] = w] /\ UNCHANGED <<row, exchange, crashes>>
  BY DEF SubmitRead
<1>2. work[c] \in Work /\ crashes' \in 0..MaxCrashes
  BY <1>1 DEF IInv, TypeOK
<1>3. w \in Work /\ w.order = o /\ ~Working(w)
  BY <1>2 DEF Work, Pcs, Working
<1> HIDE DEF w
<1> QED BY <1>1, <1>2, <1>3, Thinks

(* The three ways of moving on.                                             *)
LEMMA Moves ==
    ASSUME IInv, NEW c \in Coordinators
    PROVE  /\ Idle \in Work /\ Idle.pc = "idle"
           /\ \A pc \in Pcs : Goes(c, pc) =>
                \E w \in Work : /\ work' = [work EXCEPT ![c] = w]
                                /\ w.pc = pc /\ w.order = work[c].order
           /\ \A verdict \in Verdicts : Concludes(c, verdict) =>
                \E w \in Work : /\ work' = [work EXCEPT ![c] = w]
                                /\ w.pc = "record" /\ w.order = work[c].order
                                /\ w.verdict = verdict
<1>1. work[c] \in Work
  BY DEF IInv, TypeOK
<1>2. Idle \in Work /\ Idle.pc = "idle"
  BY DEF Idle, Work, Pcs
<1>3. ASSUME NEW pc \in Pcs, Goes(c, pc)
      PROVE  \E w \in Work : /\ work' = [work EXCEPT ![c] = w]
                             /\ w.pc = pc /\ w.order = work[c].order
  <2> DEFINE w == [work[c] EXCEPT !.pc = pc]
  <2>1. w \in Work /\ w.pc = pc /\ w.order = work[c].order
    BY <1>1 DEF Work
  <2>2. work' = [work EXCEPT ![c] = w]
    BY <1>3 DEF Goes
  <2> HIDE DEF w
  <2> QED BY <2>1, <2>2
<1>4. ASSUME NEW verdict \in Verdicts, Concludes(c, verdict)
      PROVE  \E w \in Work : /\ work' = [work EXCEPT ![c] = w]
                             /\ w.pc = "record" /\ w.order = work[c].order
                             /\ w.verdict = verdict
  <2> DEFINE w == [work[c] EXCEPT !.pc = "record", !.verdict = verdict]
  <2>1. w \in Work /\ w.pc = "record" /\ w.order = work[c].order /\ w.verdict = verdict
    BY <1>1 DEF Work, Pcs
  <2>2. work' = [work EXCEPT ![c] = w]
    BY <1>4 DEF Concludes
  <2> HIDE DEF w
  <2> QED BY <2>1, <2>2
<1> QED BY <1>2, <1>3, <1>4


(* A coordinator that stops, with or without a crash.                       *)
LEMMA StopStep ==
    ASSUME IInv, NEW c \in Coordinators, Stops(c), UNCHANGED <<row, exchange>>,
           crashes' \in 0..MaxCrashes
    PROVE  IInv'
<1>1. Idle \in Work /\ Idle.pc = "idle" /\ ~Working(Idle)
  BY DEF Idle, Work, Pcs, Working
<1>2. work' = [work EXCEPT ![c] = Idle]
  BY DEF Stops
<1> QED BY <1>1, <1>2, Thinks

(* The leverage is answered.                                                *)
LEMMA SetLeverageStep ==
    ASSUME IInv, NEW c \in Coordinators, SetLeverage(c)
    PROVE  IInv'
<1> DEFINE o == work[c].order
<1>1. /\ work[c].pc = "leverage" /\ o \in Orders /\ Working(work[c])
      /\ row[o].status = "submitting" /\ exchange[o] = Untouched
      /\ UNCHANGED <<row, exchange, crashes>> /\ crashes' \in 0..MaxCrashes
  BY Reading DEF SetLeverage, Working, WorkKnows, IInv, TypeOK
<1>2. PICK w \in Work :
        /\ work' = [work EXCEPT ![c] = w] /\ w.order = o
        /\ \/ w.pc = "enter"
           \/ w.pc = "record" /\ w.verdict \in {"rejected", "uncertain"}
  BY Moves DEF SetLeverage, Pcs, Verdicts
<1>3. WorkKnows(w, row[o], exchange[o])
  BY <1>1, <1>2 DEF WorkKnows, Untouched, Verdicts
<1> QED BY <1>1, <1>2, <1>3, Thinks DEF Working

(* The entry is answered.                                                   *)
LEMMA EnterAnswerStep ==
    ASSUME IInv, NEW c \in Coordinators, EnterAnswer(c)
    PROVE  IInv'
<1> DEFINE o == work[c].order
<1>1. /\ work[c].pc = "entering" /\ o \in Orders /\ Working(work[c])
      /\ row[o].status = "submitting"
      /\ UNCHANGED <<row, exchange, crashes>> /\ crashes' \in 0..MaxCrashes
  BY Reading DEF EnterAnswer, Working, WorkKnows, IInv, TypeOK
<1>2. PICK w \in Work :
        /\ work' = [work EXCEPT ![c] = w] /\ w.order = o
        /\ \/ w.pc = "filled" /\ exchange[o].entered
           \/ /\ w.pc = "record" /\ w.verdict = "rejected"
              /\ "enter" \notin exchange[o].flight /\ ~exchange[o].entered
           \/ w.pc = "record" /\ w.verdict = "uncertain"
  BY Moves DEF EnterAnswer, EntryUnclear, Pcs, Verdicts
<1>3. WorkKnows(w, row[o], exchange[o])
  BY <1>1, <1>2 DEF WorkKnows, Verdicts
<1> QED BY <1>1, <1>2, <1>3, Thinks DEF Working

(* The protections are answered.                                            *)
LEMMA ProtectAnswerStep ==
    ASSUME IInv, NEW c \in Coordinators, ProtectAnswer(c)
    PROVE  IInv'
<1> DEFINE o == work[c].order
<1>1. /\ work[c].pc = "protecting" /\ o \in Orders /\ Working(work[c])
      /\ row[o].status = "unprotected"
      /\ UNCHANGED <<row, exchange, crashes>> /\ crashes' \in 0..MaxCrashes
  BY Reading DEF ProtectAnswer, Working, WorkKnows, IInv, TypeOK
<1>2. PICK w \in Work :
        /\ work' = [work EXCEPT ![c] = w] /\ w.order = o
        /\ \/ w.pc = "record" /\ w.verdict = "protected" /\ exchange[o].guarded
           \/ w.pc = "flatten"
  BY Moves DEF ProtectAnswer, Pcs, Verdicts
<1>3. WorkKnows(w, row[o], exchange[o])
  BY <1>1, <1>2 DEF WorkKnows, Verdicts
<1> QED BY <1>1, <1>2, <1>3, Thinks DEF Working

(* The emergency exit is answered.                                          *)
LEMMA FlattenAnswerStep ==
    ASSUME IInv, NEW c \in Coordinators, FlattenAnswer(c)
    PROVE  IInv'
<1> DEFINE o == work[c].order
<1>1. /\ work[c].pc = "flattening" /\ o \in Orders /\ Working(work[c])
      /\ row[o].status = "unprotected"
      /\ UNCHANGED <<row, exchange, crashes>> /\ crashes' \in 0..MaxCrashes
  BY Reading DEF FlattenAnswer, Working, WorkKnows, IInv, TypeOK
<1>2. PICK w \in Work :
        /\ work' = [work EXCEPT ![c] = w] /\ w.order = o /\ w.pc = "record"
        /\ \/ w.verdict = "emergency_closed" /\ exchange[o].position = "flat"
           \/ w.verdict = "uncertain"
  BY Moves DEF FlattenAnswer, Pcs, Verdicts
<1>3. WorkKnows(w, row[o], exchange[o])
  BY <1>1, <1>2 DEF WorkKnows, Verdicts
<1> QED BY <1>1, <1>2, <1>3, Thinks DEF Working


(* The row of an order moves on in the hands of its coordinator, the        *)
(* exchange is left alone.                                                  *)
LEMMA Writes ==
    ASSUME IInv, NEW c \in Coordinators, Working(work[c]),
           NEW status \in Statuses, SetStatus(work[c].order, status),
           NEW w \in Work, work' = [work EXCEPT ![c] = w], UNCHANGED <<exchange, crashes>>,
           \A r \in Row : r.status = status =>
              /\ OrderAgrees(r, exchange[work[c].order])
              /\ Working(w) => WorkKnows(w, r, exchange[work[c].order]),
           w.pc # "idle" => w.order = work[c].order
    PROVE  IInv'
<1> DEFINE o == work[c].order
           r == [row[o] EXCEPT !.status = status]
           x == exchange[o]
<1>1. /\ o \in Orders /\ row[o] \in Row /\ x \in Exchange
      /\ \A d \in Coordinators : Working(work[d]) /\ work[d].order = o => d = c
  BY Reading DEF Working
<1>2. r \in Row /\ r.status = status
  BY <1>1 DEF Row
<1>3. row' = [row EXCEPT ![o] = r] /\ exchange' = [exchange EXCEPT ![o] = x]
  BY <1>1, Unchanged DEF SetStatus, IInv
<1>4. crashes' \in 0..MaxCrashes
  BY DEF IInv, TypeOK
<1>5. OrderAgrees(r, x) /\ (Working(w) => WorkKnows(w, r, x))
  BY <1>2
<1>6. w.pc # "idle" => w.order = o
  OBVIOUS
<1> HIDE DEF o, r, x
<1> QED BY <1>1, <1>2, <1>3, <1>4, <1>5, <1>6, OneCoordinator

(* The fill is written down.                                                *)
LEMMA RecordFillStep ==
    ASSUME IInv, NEW c \in Coordinators, RecordFill(c)
    PROVE  IInv'
<1> DEFINE o == work[c].order
           x == exchange[o]
<1>1. /\ work[c].pc = "filled" /\ Working(work[c]) /\ x.entered
      /\ row[o].status = "submitting" /\ OrderAgrees(row[o], x) /\ x \in Exchange
      /\ UNCHANGED <<exchange, crashes>> /\ SetStatus(o, "unprotected")
  BY Reading DEF RecordFill, StatusOfFill, Working, WorkKnows
<1>2. PICK w \in Work : work' = [work EXCEPT ![c] = w] /\ w.order = o /\ w.pc = "protect"
  BY Moves DEF RecordFill, Pcs
<1>3. ASSUME NEW r \in Row, r.status = "unprotected"
      PROVE  OrderAgrees(r, x) /\ WorkKnows(w, r, x)
  BY <1>1, <1>2, <1>3 DEF OrderAgrees, WorkKnows, Exchange, Untouched
<1>4. "unprotected" \in Statuses
  BY DEF Statuses, Unresolved
<1> QED BY <1>1, <1>2, <1>3, <1>4, Writes

(* The verdict is written down.                                             *)
LEMMA RecordStep ==
    ASSUME IInv, NEW c \in Coordinators, Record(c)
    PROVE  IInv'
<1> DEFINE o == work[c].order
           x == exchange[o]
           v == work[c].verdict
<1>1. /\ work[c].pc = "record" /\ Working(work[c]) /\ v \in Verdicts
      /\ WorkKnows(work[c], row[o], x) /\ OrderAgrees(row[o], x) /\ x \in Exchange
      /\ UNCHANGED <<exchange, crashes>> /\ SetStatus(o, v)
  BY Reading DEF Record, Working, WorkKnows
<1>2. Idle \in Work /\ ~Working(Idle) /\ Idle.pc = "idle" /\ work' = [work EXCEPT ![c] = Idle]
  BY Moves DEF Record, Stops, Working
<1>3. ASSUME NEW r \in Row, r.status = v
      PROVE  OrderAgrees(r, x)
  BY <1>1, <1>3 DEF OrderAgrees, WorkKnows, Verdicts, Exchange, Untouched
<1>4. v \in Statuses
  BY <1>1 DEF Statuses, Verdicts
<1> QED BY <1>1, <1>2, <1>3, <1>4, Writes


(* A request is sent: at most one entry, from an order nothing was done     *)
(* for.                                                                     *)
LEMMA SendStep ==
    ASSUME IInv, NEW c \in Coordinators, NEW request \in Requests, NEW pc \in Pcs,
           Send(c, request, pc), Working(work[c]),
           \/ request = "enter" /\ work[c].pc = "enter" /\ pc = "entering"
           \/ request = "protect" /\ work[c].pc = "protect" /\ pc = "protecting"
           \/ request = "flatten" /\ work[c].pc = "flatten" /\ pc = "flattening"
    PROVE  IInv'
<1> DEFINE o == work[c].order
           r == row[o]
           x == [exchange[o] EXCEPT !.flight = @ \cup {request},
                                    !.sent = @ + (IF request = "enter" THEN 1 ELSE 0)]
<1>1. /\ o \in Orders /\ r \in Row /\ exchange[o] \in Exchange
      /\ OrderAgrees(r, exchange[o]) /\ WorkKnows(work[c], r, exchange[o])
      /\ \A d \in Coordinators : Working(work[d]) /\ work[d].order = o => d = c
  BY Reading DEF Working
<1>2. /\ x \in Exchange /\ x.flight = exchange[o].flight \cup {request}
      /\ x.sent = IF request = "enter" THEN exchange[o].sent + 1 ELSE exchange[o].sent
      /\ x.entered = exchange[o].entered /\ x.position = exchange[o].position
      /\ x.guarded = exchange[o].guarded
  <2> DEFINE sent == exchange[o].sent + (IF request = "enter" THEN 1 ELSE 0)
             flight == exchange[o].flight \cup {request}
  <2>1. sent \in Nat /\ flight \in SUBSET Requests
    BY <1>1 DEF Exchange
  <2>2. sent = IF request = "enter" THEN exchange[o].sent + 1 ELSE exchange[o].sent
    BY <1>1 DEF Exchange
  <2>3. x = [exchange[o] EXCEPT !.flight = flight, !.sent = sent]
    OBVIOUS
  <2> HIDE DEF x, sent
  <2> QED BY <1>1, <2>1, <2>2, <2>3 DEF Exchange
<1>3. exchange' = [exchange EXCEPT ![o] = x]
  BY <1>1 DEF Send, IInv, TypeOK
<1>4. row' = [row EXCEPT ![o] = r] /\ crashes' \in 0..MaxCrashes
  BY <1>1, Unchanged DEF IInv, TypeOK, Send
<1>5. PICK w \in Work : work' = [work EXCEPT ![c] = w] /\ w.pc = pc /\ w.order = o
  BY Moves DEF Send
<1> HIDE DEF x
<1>6. OrderAgrees(r, x)
  BY <1>1, <1>2 DEF OrderAgrees, WorkKnows, Requests, Exchange, Untouched
<1>7. WorkKnows(w, r, x)
  BY <1>1, <1>2, <1>5 DEF WorkKnows
<1> HIDE DEF o, r
<1> QED BY <1>1, <1>2, <1>3, <1>4, <1>5, <1>6, <1>7, OneCoordinator

(* prepare_entry inserts its intent.                                        *)
LEMMA PrepareInsertStep ==
    ASSUME IInv, NEW c \in Coordinators, PrepareInsert(c)
    PROVE  IInv'
<1> DEFINE o == work[c].order
           x == exchange[o]
<1>1. /\ work[c].pc = "insert" /\ Stops(c) /\ UNCHANGED <<exchange, crashes>>
      /\ \/ UNCHANGED row
         \/ row[o].status = "absent" /\ row' = [row EXCEPT ![o] = Intent]
      /\ crashes' \in 0..MaxCrashes
  BY DEF PrepareInsert, IInv, TypeOK
<1>2. CASE UNCHANGED row
  BY <1>1, <1>2, StopStep
<1>3. CASE row[o].status = "absent" /\ row' = [row EXCEPT ![o] = Intent]
  <2>1. o \in Orders /\ row[o] \in Row /\ x \in Exchange /\ OrderAgrees(row[o], x)
    BY <1>1, Reading
  <2>2. \A d \in Coordinators : Working(work[d]) /\ work[d].order = o => d = c
    <3>1. ASSUME NEW d \in Coordinators, Working(work[d]), work[d].order = o PROVE FALSE
      <4>1. WorkKnows(work[d], row[o], x) /\ work[d] \in Work
        BY <3>1 DEF IInv, TypeOK, CoordinatorsKnow
      <4> QED BY <1>3, <3>1, <4>1 DEF WorkKnows, Working, Work, Pcs, Verdicts
    <3> QED BY <3>1
  <2>3. Idle \in Work /\ ~Working(Idle) /\ Idle.pc = "idle" /\ work' = [work EXCEPT ![c] = Idle]
    BY <1>1, Moves DEF Stops, Working
  <2>4. Intent \in Row /\ OrderAgrees(Intent, x)
    BY <1>3, <2>1 DEF Intent, Row, Statuses, Unresolved, OrderAgrees
  <2>5. exchange' = [exchange EXCEPT ![o] = x]
    BY <1>1, <2>1, Unchanged DEF IInv
  <2> HIDE DEF o, x
  <2> QED BY <1>1, <1>3, <2>1, <2>2, <2>3, <2>4, <2>5, OneCoordinator
<1> QED BY <1>1, <1>2, <1>3

(* submit_prepared_entry claims the row, unless it is no longer prepared.   *)
LEMMA SubmitClaimStep ==
    ASSUME IInv, NEW c \in Coordinators, SubmitClaim(c)
    PROVE  IInv'
<1> DEFINE o == work[c].order
           r == [row[o] EXCEPT !.status = "submitting"]
           x == exchange[o]
<1>1. /\ work[c].pc = "claim" /\ UNCHANGED <<exchange, crashes>>
      /\ crashes' \in 0..MaxCrashes
  BY DEF SubmitClaim, IInv, TypeOK
<1>2. CASE ~StillPrepared(o)
  BY <1>1, <1>2, StopStep DEF SubmitClaim
<1>3. CASE StillPrepared(o)
  <2>1. /\ o \in Orders /\ row[o] \in Row /\ x \in Exchange /\ OrderAgrees(row[o], x)
        /\ row[o].status = "prepared"
    BY <1>1, <1>3, Reading DEF StillPrepared
  <2>2. \A d \in Coordinators : Working(work[d]) /\ work[d].order = o => d = c
    <3>1. ASSUME NEW d \in Coordinators, Working(work[d]), work[d].order = o PROVE FALSE
      <4>1. WorkKnows(work[d], row[o], x) /\ work[d] \in Work
        BY <3>1 DEF IInv, TypeOK, CoordinatorsKnow
      <4> QED BY <2>1, <3>1, <4>1 DEF WorkKnows, Working, Work, Pcs, Verdicts
    <3> QED BY <3>1
  <2>3. r \in Row /\ r.status = "submitting"
    BY <2>1 DEF Row, Statuses, Unresolved
  <2>4. row' = [row EXCEPT ![o] = r] /\ exchange' = [exchange EXCEPT ![o] = x]
    BY <1>1, <1>3, <2>1, Unchanged DEF SubmitClaim, SetStatus, IInv
  <2>5. PICK w \in Work : work' = [work EXCEPT ![c] = w] /\ w.pc = "leverage" /\ w.order = o
    BY <1>1, <1>3, Moves DEF SubmitClaim, Pcs
  <2> HIDE DEF r
  <2>6. OrderAgrees(r, x) /\ WorkKnows(w, r, x)
    BY <2>1, <2>3, <2>5 DEF OrderAgrees, WorkKnows, Untouched
  <2> HIDE DEF o, x
  <2> QED BY <1>1, <2>1, <2>2, <2>3, <2>4, <2>5, <2>6, OneCoordinator
<1> QED BY <1>2, <1>3

(* Every step of a coordinator.                                             *)
LEMMA CoordinatorStep ==
    ASSUME IInv, NEW c \in Coordinators, Step(c) \/ Crash(c)
    PROVE  IInv'
<1>1. CASE PrepareInsert(c)
  BY <1>1, PrepareInsertStep
<1>2. CASE SubmitClaim(c)
  BY <1>2, SubmitClaimStep
<1>3. CASE SetLeverage(c)
  BY <1>3, SetLeverageStep
<1>4. CASE Enter(c)
  BY <1>4, SendStep DEF Enter, Working, Requests, Pcs
<1>5. CASE EnterAnswer(c)
  BY <1>5, EnterAnswerStep
<1>6. CASE RecordFill(c)
  BY <1>6, RecordFillStep
<1>7. CASE Protect(c)
  BY <1>7, SendStep DEF Protect, Working, Requests, Pcs
<1>8. CASE ProtectAnswer(c)
  BY <1>8, ProtectAnswerStep
<1>9. CASE Flatten(c)
  BY <1>9, SendStep DEF Flatten, Working, Requests, Pcs
<1>10. CASE FlattenAnswer(c)
  BY <1>10, FlattenAnswerStep
<1>11. CASE Record(c)
  BY <1>11, RecordStep
<1>12. CASE Crash(c)
  <2>1. crashes' \in 0..MaxCrashes
    BY <1>12, LiveAssumption DEF Crash, IInv, TypeOK
  <2> QED BY <1>12, <2>1, StopStep DEF Crash
<1> QED BY <1>1, <1>2, <1>3, <1>4, <1>5, <1>6, <1>7, <1>8, <1>9, <1>10, <1>11, <1>12 DEF Step

-----------------------------------------------------------------------------
(* The inductive invariant.                                                 *)

(* It holds at the start.                                                   *)
LEMMA InitIInv == Init => IInv
<1> SUFFICES ASSUME Init PROVE IInv
  OBVIOUS
<1>1. /\ NoRow \in Row /\ NoRow.status = "absent"
      /\ Untouched \in Exchange /\ OrderAgrees(NoRow, Untouched)
  BY DEF NoRow, Row, Statuses, Untouched, Exchange, OrderAgrees
<1>2. Idle \in Work /\ Idle.pc = "idle" /\ ~Working(Idle)
  BY DEF Idle, Work, Pcs, Working
<1>3. TypeOK
  BY <1>1, <1>2, LiveAssumption DEF Init, TypeOK
<1>4. OrdersAgree
  BY <1>1 DEF Init, OrdersAgree
<1>5. CoordinatorsKnow
  BY <1>2 DEF Init, CoordinatorsKnow
<1>6. OneEach
  BY <1>2 DEF Init, OneEach
<1> QED BY <1>3, <1>4, <1>5, <1>6 DEF IInv

(* Every step keeps it.                                                     *)
LEMMA NextIInv == IInv /\ [Next]_vars => IInv'
<1> SUFFICES ASSUME IInv, [Next]_vars PROVE IInv'
  OBVIOUS
<1>1. CASE UNCHANGED vars
  BY <1>1 DEF vars, IInv, TypeOK, OrdersAgree, CoordinatorsKnow, OneEach
<1>2. ASSUME NEW o \in Orders, NEW request \in Requests, Arrive(o, request) PROVE IInv'
  BY <1>2, ArriveStep
<1>3. ASSUME NEW o \in Orders, Fire(o) \/ FifteenSecondsPass(o) PROVE IInv'
  BY <1>3, FireStep, TimeStep
<1>4. ASSUME NEW c \in Coordinators, NEW o \in Orders, PrepareCheck(c, o) \/ SubmitRead(c, o)
      PROVE  IInv'
  BY <1>4, PrepareCheckStep, SubmitReadStep
<1>5. ASSUME NEW c \in Coordinators, Step(c) \/ Crash(c) PROVE IInv'
  BY <1>5, CoordinatorStep
<1> QED BY <1>1, <1>2, <1>3, <1>4, <1>5 DEF Next

(* The status of every order agrees with the exchange, and each claimed     *)
(* order has one coordinator, which knows where it stands.                  *)
THEOREM Invariance == Spec => []IInv
BY InitIInv, NextIInv, PTL DEF Spec

(* Every variable keeps its type.                                           *)
THEOREM TypeCorrect == Spec => []TypeOK
<1>1. IInv => TypeOK
  BY DEF IInv
<1> QED BY <1>1, Invariance, PTL

(* However many coordinators find an intent prepared, one enters.           *)
THEOREM OneEntry == Spec => []EnteredOnce
<1>1. IInv => EnteredOnce
  BY DEF IInv, OrdersAgree, OrderAgrees, EnteredOnce
<1> QED BY <1>1, Invariance, PTL

(* An order that may hold an unprotected position is unresolved in the      *)
(* database.                                                                *)
THEOREM ExposureIsKnown == Spec => []NothingForgotten
<1>1. ASSUME IInv PROVE NothingForgotten
  <2>1. ASSUME NEW o \in Orders,
               "enter" \in exchange[o].flight
                 \/ (exchange[o].position # "flat" /\ ~exchange[o].guarded)
        PROVE  row[o].status \in Unresolved
    <3>1. OrderAgrees(row[o], exchange[o]) /\ row[o] \in Row /\ exchange[o] \in Exchange
      BY <1>1 DEF IInv, TypeOK, OrdersAgree
    <3> QED BY <2>1, <3>1 DEF OrderAgrees, Row, Statuses, Unresolved, Verdicts, Exchange,
                              Untouched
  <2> QED BY <2>1 DEF NothingForgotten
<1> QED BY <1>1, Invariance, PTL

(* No exit opens the opposite position.                                     *)
THEOREM ExitsOnlyReduce == Spec => []NeverReversed
<1>1. IInv => NeverReversed
  BY DEF IInv, OrdersAgree, OrderAgrees, NeverReversed
<1> QED BY <1>1, Invariance, PTL


-----------------------------------------------------------------------------
(* The steps seen from outside: LiveLifecycle.                              *)

(* What changes of the view when one order changes.                         *)
LEMMA ViewOfStep ==
    ASSUME TypeOK, NEW o \in Orders
    PROVE  /\ row' = row => Status' = Status
           /\ exchange' = exchange => Exposure' = Exposure /\ Entered' = Entered
           /\ \A r \in Row : row' = [row EXCEPT ![o] = r]
                => Status' = [Status EXCEPT ![o] = r.status]
           /\ \A x \in Exchange : exchange' = [exchange EXCEPT ![o] = x]
                => /\ Exposure' = [Exposure EXCEPT ![o] = ExposureIn(x)]
                   /\ Entered' = [Entered EXCEPT ![o] = x.entered]
BY DEF TypeOK, Status, Exposure, Entered

(* What the view shows of an order.                                         *)
LEMMA ViewOfOrder ==
    ASSUME IInv, NEW o \in Orders
    PROVE  /\ Status[o] = row[o].status
           /\ Exposure[o] = ExposureIn(exchange[o])
           /\ Entered[o] = exchange[o].entered
           /\ Exposure = [Exposure EXCEPT ![o] = Exposure[o]]
           /\ Entered = [Entered EXCEPT ![o] = Entered[o]]
           /\ Status = [Status EXCEPT ![o] = Status[o]]
           /\ row[o] \in Row /\ exchange[o] \in Exchange
           /\ OrderAgrees(row[o], exchange[o])
BY DEF Status, Exposure, Entered, IInv, TypeOK, OrdersAgree

(* The exchange acts.                                                       *)
LEMMA ExchangeImplements ==
    ASSUME IInv, NEW o \in Orders, NEW x \in Exchange,
           UNCHANGED row, exchange' = [exchange EXCEPT ![o] = x],
           \/ ExposureIn(x) = ExposureIn(exchange[o]) /\ x.entered = exchange[o].entered
           \/ /\ row[o].status \in {"submitting", "uncertain"} /\ ~exchange[o].entered
              /\ ExposureIn(x) = "bare" /\ x.entered = TRUE
           \/ /\ row[o].status \in {"unprotected", "uncertain"}
              /\ ExposureIn(exchange[o]) = "bare"
              /\ ExposureIn(x) = "guarded" /\ x.entered = exchange[o].entered
           \/ /\ \/ ExposureIn(exchange[o]) = "guarded"
                 \/ row[o].status \in {"unprotected", "uncertain"}
              /\ ExposureIn(x) = "none" /\ x.entered = exchange[o].entered
    PROVE  [LC!Next]_LC!vars
<1>1. /\ Status' = Status
      /\ Exposure' = [Exposure EXCEPT ![o] = ExposureIn(x)]
      /\ Entered' = [Entered EXCEPT ![o] = x.entered]
  BY ViewOfStep DEF IInv
<1>2. CASE ExposureIn(x) = ExposureIn(exchange[o]) /\ x.entered = exchange[o].entered
  <2>1. Exposure' = Exposure /\ Entered' = Entered
    BY <1>1, <1>2, ViewOfOrder
  <2> QED BY <1>1, <2>1 DEF LC!vars
<1>3. CASE /\ row[o].status \in {"submitting", "uncertain"} /\ ~exchange[o].entered
           /\ ExposureIn(x) = "bare" /\ x.entered = TRUE
  <2>1. LC!Enter(o)
    BY <1>1, <1>3, ViewOfOrder DEF LC!Enter
  <2> QED BY <2>1 DEF LC!Next
<1>4. CASE /\ row[o].status \in {"unprotected", "uncertain"}
           /\ ExposureIn(exchange[o]) = "bare"
           /\ ExposureIn(x) = "guarded" /\ x.entered = exchange[o].entered
  <2>1. LC!Protect(o)
    BY <1>1, <1>4, ViewOfOrder DEF LC!Protect
  <2> QED BY <2>1 DEF LC!Next
<1>5. CASE /\ \/ ExposureIn(exchange[o]) = "guarded"
              \/ row[o].status \in {"unprotected", "uncertain"}
           /\ ExposureIn(x) = "none" /\ x.entered = exchange[o].entered
  <2>1. LC!Leave(o)
    BY <1>1, <1>5, ViewOfOrder DEF LC!Leave
  <2> QED BY <2>1 DEF LC!Next
<1> QED BY <1>2, <1>3, <1>4, <1>5

(* The database follows.                                                    *)
LEMMA RowImplements ==
    ASSUME IInv, NEW o \in Orders, NEW r \in Row,
           UNCHANGED exchange, row' = [row EXCEPT ![o] = r],
           \/ r.status = row[o].status
           \/ row[o].status = "absent" /\ r.status = "prepared"
           \/ row[o].status = "prepared" /\ r.status = "submitting"
           \/ /\ row[o].status = "submitting" /\ r.status = "rejected"
              /\ ~exchange[o].entered
           \/ row[o].status \in {"submitting", "unprotected"} /\ r.status = "uncertain"
           \/ /\ row[o].status = "submitting" /\ r.status = "unprotected"
              /\ ExposureIn(exchange[o]) = "bare"
           \/ /\ row[o].status = "unprotected" /\ r.status = "emergency_closed"
              /\ ExposureIn(exchange[o]) = "none"
           \/ /\ row[o].status = "unprotected" /\ r.status = "protected"
              /\ ExposureIn(exchange[o]) # "bare"
    PROVE  [LC!Next]_LC!vars
<1>1. /\ Status' = [Status EXCEPT ![o] = r.status]
      /\ Exposure' = Exposure /\ Entered' = Entered
  BY ViewOfStep DEF IInv
<1>2. CASE r.status = row[o].status
  <2>1. Status' = Status
    BY <1>1, <1>2, ViewOfOrder
  <2> QED BY <1>1, <2>1 DEF LC!vars
<1>3. CASE r.status # row[o].status
  <2>1. LC!Record(o)
    BY <1>1, <1>3, ViewOfOrder DEF LC!Record, LC!Becomes
  <2> QED BY <2>1 DEF LC!Next
<1> QED BY <1>2, <1>3


(* A request arrives.                                                       *)
LEMMA ArriveImplements ==
    ASSUME IInv, NEW o \in Orders, NEW request \in Requests, Arrive(o, request)
    PROVE  [LC!Next]_LC!vars
<1>1. PICK x \in Exchange :
        /\ request \in exchange[o].flight
        /\ exchange' = [exchange EXCEPT ![o] = x]
        /\ x.sent = exchange[o].sent /\ x.flight = exchange[o].flight \ {request}
        /\ \/ /\ x.entered = exchange[o].entered /\ x.position = exchange[o].position
              /\ x.guarded = exchange[o].guarded
           \/ /\ x.entered <=> (request = "enter" \/ exchange[o].entered)
              /\ x.position = IF request = "enter" THEN "open"
                              ELSE IF request = "flatten" THEN Reduced(exchange[o].position)
                              ELSE exchange[o].position
              /\ x.guarded <=> (request = "protect" \/ exchange[o].guarded)
  BY ArriveFacts
<1>2. /\ row[o] \in Row /\ exchange[o] \in Exchange
      /\ OrderAgrees(row[o], exchange[o]) /\ UNCHANGED row
  BY DEF Arrive, IInv, TypeOK, OrdersAgree
<1>3. \/ ExposureIn(x) = ExposureIn(exchange[o]) /\ x.entered = exchange[o].entered
      \/ /\ row[o].status \in {"submitting", "uncertain"} /\ ~exchange[o].entered
         /\ ExposureIn(x) = "bare" /\ x.entered = TRUE
      \/ /\ row[o].status \in {"unprotected", "uncertain"}
         /\ ExposureIn(exchange[o]) = "bare"
         /\ ExposureIn(x) = "guarded" /\ x.entered = exchange[o].entered
      \/ /\ \/ ExposureIn(exchange[o]) = "guarded"
            \/ row[o].status \in {"unprotected", "uncertain"}
         /\ ExposureIn(x) = "none" /\ x.entered = exchange[o].entered
  <2>1. CASE x.entered = exchange[o].entered /\ x.position = exchange[o].position
               /\ x.guarded = exchange[o].guarded
    BY <2>1 DEF ExposureIn
  <2>2. CASE request = "enter" /\ x.entered /\ x.position = "open"
               /\ (x.guarded <=> exchange[o].guarded)
    <3>1. /\ ~exchange[o].entered /\ ~exchange[o].guarded
          /\ row[o].status \in {"submitting", "uncertain"}
      BY <1>1, <1>2, <2>2
         DEF OrderAgrees, Row, Statuses, Unresolved, Verdicts, Untouched
    <3> QED BY <2>2, <3>1 DEF ExposureIn, Exchange
  <2>3. CASE request # "enter"
    <3>1. /\ exchange[o].entered
          /\ \/ row[o].status \in {"unprotected", "uncertain"}
             \/ ExposureIn(exchange[o]) # "bare"
      BY <1>1, <1>2, <2>3
         DEF OrderAgrees, Row, Statuses, Unresolved, Verdicts, Untouched, ExposureIn, Exchange
    <3>2. x.entered = exchange[o].entered
      BY <1>1, <1>2, <3>1 DEF Exchange
    <3> QED BY <1>1, <1>2, <2>3, <3>1, <3>2 DEF ExposureIn, Exchange, Reduced, Requests
  <2> QED BY <1>1, <2>1, <2>2, <2>3
<1> QED BY <1>1, <1>2, <1>3, ExchangeImplements

(* A protection fills.                                                      *)
LEMMA FireImplements ==
    ASSUME IInv, NEW o \in Orders, Fire(o)
    PROVE  [LC!Next]_LC!vars
<1> DEFINE x == [exchange[o] EXCEPT !.guarded = FALSE, !.position = Reduced(@)]
<1>1. /\ exchange[o].guarded /\ exchange' = [exchange EXCEPT ![o] = x] /\ UNCHANGED row
      /\ exchange[o] \in Exchange /\ exchange[o].position # "reversed"
  BY DEF Fire, IInv, TypeOK, OrdersAgree, OrderAgrees
<1>2. /\ x \in Exchange /\ x.entered = exchange[o].entered
      /\ x.position = Reduced(exchange[o].position)
  BY <1>1 DEF Exchange, Reduced
<1> HIDE DEF x
<1>3. /\ ExposureIn(x) = "none"
      /\ ExposureIn(exchange[o]) = "guarded" \/ ExposureIn(exchange[o]) = "none"
  BY <1>1, <1>2 DEF ExposureIn, Exchange, Reduced
<1> QED BY <1>1, <1>2, <1>3, ExchangeImplements

(* A request is sent: nothing shows yet.                                    *)
LEMMA SendImplements ==
    ASSUME IInv, NEW c \in Coordinators, work[c].pc # "idle",
           NEW request \in Requests, NEW pc \in Pcs, Send(c, request, pc)
    PROVE  [LC!Next]_LC!vars
<1> DEFINE o == work[c].order
           sent == exchange[o].sent + (IF request = "enter" THEN 1 ELSE 0)
           flight == exchange[o].flight \cup {request}
           x == [exchange[o] EXCEPT !.flight = flight, !.sent = sent]
<1>1. o \in Orders /\ exchange[o] \in Exchange
  BY Reading
<1>2. exchange' = [exchange EXCEPT ![o] = x] /\ UNCHANGED row
  BY <1>1 DEF Send, IInv, TypeOK
<1>3. sent \in Nat /\ flight \in SUBSET Requests
  BY <1>1 DEF Exchange
<1> HIDE DEF sent, flight
<1>4. /\ x \in Exchange /\ x.entered = exchange[o].entered
      /\ x.position = exchange[o].position /\ x.guarded = exchange[o].guarded
  BY <1>1, <1>3 DEF Exchange
<1> HIDE DEF x, o
<1>5. ExposureIn(x) = ExposureIn(exchange[o])
  BY <1>4 DEF ExposureIn
<1> QED BY <1>1, <1>2, <1>4, <1>5, ExchangeImplements

(* A row is written.                                                        *)
LEMMA WriteImplements ==
    ASSUME IInv, NEW c \in Coordinators, work[c].pc # "idle", NEW status \in Statuses,
           SetStatus(work[c].order, status), UNCHANGED exchange,
           LET o == work[c].order IN
           \/ row[o].status = "prepared" /\ status = "submitting"
           \/ /\ row[o].status = "submitting" /\ status = "rejected"
              /\ ~exchange[o].entered
           \/ row[o].status \in {"submitting", "unprotected"} /\ status = "uncertain"
           \/ /\ row[o].status = "submitting" /\ status = "unprotected"
              /\ ExposureIn(exchange[o]) = "bare"
           \/ /\ row[o].status = "unprotected" /\ status = "emergency_closed"
              /\ ExposureIn(exchange[o]) = "none"
           \/ /\ row[o].status = "unprotected" /\ status = "protected"
              /\ ExposureIn(exchange[o]) # "bare"
    PROVE  [LC!Next]_LC!vars
<1> DEFINE o == work[c].order
           r == [row[o] EXCEPT !.status = status]
<1>1. o \in Orders /\ row[o] \in Row
  BY Reading
<1>2. r \in Row /\ r.status = status
  BY <1>1 DEF Row
<1>3. row' = [row EXCEPT ![o] = r]
  BY <1>1 DEF SetStatus, IInv, TypeOK
<1> HIDE DEF r
<1> QED BY <1>1, <1>2, <1>3, RowImplements

(* Every step of a coordinator is one of the view, or does not show.        *)
LEMMA CoordinatorImplements ==
    ASSUME IInv, NEW c \in Coordinators, Step(c) \/ Crash(c)
    PROVE  [LC!Next]_LC!vars
<1> DEFINE o == work[c].order
<1>1. CASE UNCHANGED <<row, exchange>>
  BY <1>1, ViewOfStep DEF LC!vars, Status, Exposure, Entered
<1>2. CASE PrepareInsert(c) /\ ~UNCHANGED row
  <2>1. /\ o \in Orders /\ row[o].status = "absent" /\ row' = [row EXCEPT ![o] = Intent]
        /\ UNCHANGED exchange
    BY <1>2, Reading DEF PrepareInsert
  <2>2. Intent \in Row /\ Intent.status = "prepared"
    BY DEF Intent, Row, Statuses, Unresolved
  <2> QED BY <2>1, <2>2, RowImplements
<1>3. CASE SubmitClaim(c) /\ StillPrepared(o)
  BY <1>3, WriteImplements DEF SubmitClaim, StillPrepared, Statuses, Unresolved
<1>4. CASE Enter(c)
  BY <1>4, SendImplements DEF Enter, Requests, Pcs
<1>5. CASE Protect(c)
  BY <1>5, SendImplements DEF Protect, Requests, Pcs
<1>6. CASE Flatten(c)
  BY <1>6, SendImplements DEF Flatten, Requests, Pcs
<1>7. CASE RecordFill(c)
  <2>1. /\ row[o].status = "submitting" /\ exchange[o].entered
        /\ OrderAgrees(row[o], exchange[o])
    BY <1>7, Reading DEF RecordFill, Working, WorkKnows
  <2>2. ExposureIn(exchange[o]) = "bare"
    BY <2>1 DEF OrderAgrees, ExposureIn
  <2> QED BY <1>7, <2>1, <2>2, WriteImplements DEF RecordFill, StatusOfFill, Statuses, Unresolved
<1>8. CASE Record(c)
  <2> DEFINE v == work[c].verdict
  <2>1. /\ WorkKnows(work[c], row[o], exchange[o]) /\ exchange[o] \in Exchange
        /\ OrderAgrees(row[o], exchange[o])
        /\ work[c].pc = "record" /\ SetStatus(o, v) /\ UNCHANGED exchange
    BY <1>8, Reading DEF Record, Working
  <2>2. v \in Verdicts /\ v \in Statuses
    BY <2>1 DEF WorkKnows, Statuses, Verdicts
  <2>3. \/ v = "rejected" /\ row[o].status = "submitting" /\ ~exchange[o].entered
        \/ v = "uncertain" /\ row[o].status \in {"submitting", "unprotected"}
        \/ /\ v = "emergency_closed" /\ row[o].status = "unprotected"
           /\ ExposureIn(exchange[o]) = "none"
        \/ /\ v = "protected" /\ row[o].status = "unprotected"
           /\ ExposureIn(exchange[o]) # "bare"
    BY <2>1, <2>2 DEF WorkKnows, OrderAgrees, Verdicts, ExposureIn, Exchange
  <2> QED BY <2>1, <2>2, <2>3, WriteImplements
<1> QED BY <1>1, <1>2, <1>3, <1>4, <1>5, <1>6, <1>7, <1>8
        DEF Step, PrepareInsert, SubmitClaim, SetLeverage, EnterAnswer, ProtectAnswer,
            FlattenAnswer, Crash

(* Every step of LiveOrders.                                                *)
LEMMA NextImplements == IInv /\ [Next]_vars => [LC!Next]_LC!vars
<1> SUFFICES ASSUME IInv, [Next]_vars PROVE [LC!Next]_LC!vars
  OBVIOUS
<1>1. CASE UNCHANGED <<row, exchange>>
  BY <1>1, ViewOfStep DEF LC!vars, Status, Exposure, Entered
<1>2. ASSUME NEW o \in Orders, NEW request \in Requests, Arrive(o, request)
      PROVE  [LC!Next]_LC!vars
  BY <1>2, ArriveImplements
<1>3. ASSUME NEW o \in Orders, Fire(o) PROVE [LC!Next]_LC!vars
  BY <1>3, FireImplements
<1>4. ASSUME NEW o \in Orders, FifteenSecondsPass(o) PROVE [LC!Next]_LC!vars
  <2> DEFINE r == [row[o] EXCEPT !.fresh = FALSE]
  <2>1. row' = [row EXCEPT ![o] = r] /\ UNCHANGED exchange /\ row[o] \in Row
    BY <1>4 DEF FifteenSecondsPass, IInv, TypeOK
  <2>2. r \in Row /\ r.status = row[o].status
    BY <2>1 DEF Row
  <2> HIDE DEF r
  <2> QED BY <2>1, <2>2, RowImplements
<1>5. ASSUME NEW c \in Coordinators, Step(c) \/ Crash(c) PROVE [LC!Next]_LC!vars
  BY <1>5, CoordinatorImplements
<1> QED BY <1>1, <1>2, <1>3, <1>4, <1>5 DEF Next, vars, PrepareCheck, SubmitRead

(* The saga, with its races, late requests and crashes, implements          *)
(* LiveLifecycle: what the status of an order says is true.                 *)
THEOREM Implements == Spec => Lifecycle
<1>1. Init => LC!Init
  <2> SUFFICES ASSUME Init PROVE LC!Init
    OBVIOUS
  <2>1. /\ NoRow.status = "absent" /\ ExposureIn(Untouched) = "none"
        /\ Untouched.entered = FALSE
    BY DEF NoRow, Untouched, ExposureIn
  <2> QED BY <2>1 DEF Init, LC!Init, Status, Exposure, Entered
<1>2. IInv /\ [Next]_vars => [LC!Next]_LC!vars
  BY NextImplements
<1> QED BY <1>1, <1>2, Invariance, PTL DEF Spec, LC!Spec, Lifecycle

=============================================================================
