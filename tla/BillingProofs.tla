----------------------------- MODULE BillingProofs -----------------------------
(***************************************************************************)
(* Proofs about Billing, for any windows, numbers of events, cameras and   *)
(* operators, and any deliveries and lost commits.                         *)
(*                                                                         *)
(* What the row says after the newest event follows from what that event   *)
(* says of the service (Newest); a window that has been opened stays open  *)
(* until a payment (Window).  That the quantities agree needs to know what *)
(* the one operator between call and commit has in hand (InHand).          *)
(***************************************************************************)
EXTENDS Billing, TLAPS

\* The status a row has after an event, and the events that put it where the service is.
Says(ev) == CASE ev.type = "failed"  -> "past_due"
              [] ev.type = "paid"    -> "active"
              [] ev.type = "updated" -> ev.status
              [] ev.type = "deleted" -> "canceled"
Settles(ev) == ~(ev.type \in {"failed", "paid"} /\ ev.status = "canceled")

\* The newest event, unless it is an outcome after the cancellation, says what the
\* service says, and so does the row once it is applied.
Newest ==
    /\ \A ev \in outbox \cup {applied} : ev.n <= sent
    /\ \A ev \in outbox : ev.n = sent /\ Settles(ev) => Says(ev) = stripe
    /\ applied.n = sent /\ Settles(applied) => sub.status = stripe

\* From the first failure that is told to the next payment the window is set.
Window ==
    told # None => /\ told <= now
                   /\ sub.graceUntil # None /\ told + Grace <= sub.graceUntil

\* The operator between call and commit, of whom there is one unless torn, has in hand
\* what the service has.
InHand ==
    ~torn => /\ InCall = {} => billed = charged
             /\ \A o \in InCall : operator[o].count = charged
             /\ \A o, p \in InCall : o = p

IInv == TypeOK /\ Newest /\ Window /\ InHand

LEMMA Numbers ==
  /\ Grace \in Nat /\ MaxTime \in Nat /\ MaxEvents \in Nat /\ MaxCameras \in Nat
  /\ None \notin Int /\ 0 \in Times /\ 1 \in Quantities /\ 0 \in Quantities
  /\ 0 \in 0 .. MaxEvents
BY BillingAssumption DEF BillingAssumption, Times, Quantities

LEMMA InitInv == Init => IInv
<1> SUFFICES ASSUME Init PROVE IInv
  OBVIOUS
<1>1. NoRequest \in Request
  BY Numbers DEF NoRequest, Request
<1>2. TypeOK
  BY <1>1, Numbers
  DEF Init, StatusInit, QuantityInit, TypeOK, Subscription, Event, Statuses
<1>3. InCall = {}
  BY DEF Init, QuantityInit, InCall, NoRequest
<1> QED  BY <1>2, <1>3 DEF Init, StatusInit, QuantityInit, IInv, Newest, Window, InHand

-----------------------------------------------------------------------------
(* The status. *)

LEMMA OutcomeStep ==
  ASSUME IInv, NEW type \in {"failed", "paid"}, NEW status \in Statuses,
         status = IF stripe = "canceled" THEN stripe
                  ELSE IF type = "failed" THEN "past_due" ELSE "active",
         Outcome(type, status)
  PROVE  IInv'
<1> DEFINE a == Mail(sent + 1, type, status)
           b == Mail(sent', IF status = stripe THEN type ELSE "updated", status)
<1>1. /\ sent' \in {sent + 1, sent + 2} /\ sent' \in 0 .. MaxEvents /\ sent + 1 \in 0 .. MaxEvents
      /\ sent \in Nat /\ sent < sent + 1 /\ sent + 1 <= sent' /\ sent < sent'
  BY Numbers DEF IInv, TypeOK, Outcome
<1>2. a \in Event /\ b \in Event /\ a.n <= sent' /\ b.n = sent'
  BY <1>1 DEF Mail, Event
<1>3. outbox' = outbox \cup {a, b} /\ stripe' = status /\ sent' # sent
  BY <1>1 DEF Outcome
<1>4. UNCHANGED <<now, sub, applied, told, quantityVars>>
  BY DEF Outcome
<1>5. TypeOK'
  BY <1>1, <1>2, <1>3, <1>4 DEF IInv, TypeOK, quantityVars
<1>6. Newest'
  <2>1. Settles(b) => Says(b) = status
    BY DEF Mail, Settles, Says
  <2>2. a.n = sent' => a = b
    BY <1>1 DEF Mail, Outcome
  <2>3. \A ev \in outbox \cup {applied} : ev.n \in Nat /\ ev.n <= sent
    BY DEF IInv, TypeOK, Newest, Event
  <2> HIDE DEF a, b
  <2>4. \A ev \in outbox \cup {applied} : ev.n <= sent' /\ ev.n # sent'
    BY <1>1, <2>3
  <2> QED  BY <1>1, <1>2, <1>3, <1>4, <2>1, <2>2, <2>4 DEF Newest
<1> QED  BY <1>4, <1>5, <1>6 DEF IInv, Window, InHand, InCall, quantityVars

LEMMA CancelStep ==
  ASSUME IInv, Cancel
  PROVE  IInv'
<1> DEFINE a == Mail(sent + 1, "deleted", "canceled")
<1>1. sent' = sent + 1 /\ sent' \in 0 .. MaxEvents /\ sent \in Nat
  BY Numbers DEF IInv, TypeOK, Cancel
<1>2. a \in Event /\ a.n = sent' /\ Says(a) = "canceled"
  BY <1>1 DEF Mail, Event, Statuses, Says
<1>3. /\ outbox' = outbox \cup {a} /\ stripe' = "canceled"
      /\ UNCHANGED <<now, sub, applied, told, quantityVars>>
  BY DEF Cancel
<1>4. TypeOK'
  BY <1>1, <1>2, <1>3 DEF IInv, TypeOK, quantityVars, Statuses
<1>5. \A ev \in outbox \cup {applied} : ev.n \in Nat /\ ev.n <= sent
  BY DEF IInv, TypeOK, Newest, Event
<1> HIDE DEF a
<1>6. Newest'
  BY <1>1, <1>2, <1>3, <1>5 DEF Newest
<1> QED  BY <1>3, <1>4, <1>6 DEF IInv, Window, InHand, InCall, quantityVars

\* Applied sets the status an event says, and keeps or sets the window as it may.
LEMMA AppliedRow ==
  ASSUME TypeOK, NEW ev \in Event
  PROVE  /\ Applied(ev) \in Subscription
         /\ Applied(ev).status = Says(ev)
         /\ Applied(ev).graceUntil =
                CASE ev.type = "failed" -> now + Grace
                  [] ev.type = "paid" -> None
                  [] OTHER -> sub.graceUntil
<1>0. /\ now + Grace \in Nat /\ sub \in Subscription /\ ev.status \in Statuses
      /\ ev.type \in {"failed", "paid", "updated", "deleted"}
  BY Numbers DEF TypeOK, Times, Event
<1>1. CASE ev.type = "failed"
  BY <1>0, <1>1 DEF Applied, Says, Subscription, Statuses
<1>2. CASE ev.type = "paid"
  BY <1>0, <1>2 DEF Applied, Says, Subscription, Statuses
<1>3. CASE ev.type = "updated"
  BY <1>0, <1>3 DEF Applied, Says, Subscription
<1>4. CASE ev.type = "deleted"
  BY <1>0, <1>4 DEF Applied, Says, Subscription, Statuses
<1> QED  BY <1>0, <1>1, <1>2, <1>3, <1>4

LEMMA DeliverStep ==
  ASSUME IInv, NEW ev \in outbox, Deliver(ev)
  PROVE  IInv'
<1>1. /\ ev \in Event /\ applied' = ev /\ outbox' \subseteq outbox /\ sub' = Applied(ev)
      /\ UNCHANGED <<now, stripe, sent, quantityVars>>
      /\ now \in Nat /\ now <= MaxTime /\ TypeOK
      /\ ev.type \in {"failed", "paid", "updated", "deleted"}
  BY Numbers DEF IInv, TypeOK, Deliver, Event, Times
<1>2. /\ sub' \in Subscription /\ sub'.status = Says(ev)
      /\ sub'.graceUntil = CASE ev.type = "failed" -> now + Grace
                             [] ev.type = "paid" -> None
                             [] OTHER -> sub.graceUntil
  BY <1>1, AppliedRow
<1>3. /\ told' = CASE ev.type = "failed" /\ told = None -> now
                   [] ev.type = "paid" -> None
                   [] OTHER -> told
      /\ told \in Times \cup {None} /\ now \in Times
  BY DEF Deliver, IInv, TypeOK
<1>4. sub'.graceUntil # None => sub'.graceUntil <= MaxTime + Grace
  BY <1>1, <1>2, Numbers DEF TypeOK
<1>5. TypeOK'
  BY <1>1, <1>2, <1>3, <1>4 DEF TypeOK, quantityVars
<1>6. Newest'
  BY <1>1, <1>2 DEF IInv, Newest
<1>7. Window'
  <2>1. told # None => told \in Nat /\ told <= now /\ told + Grace <= now + Grace
    BY <1>1, <1>3, Numbers DEF IInv, Window, Times
  <2>2. CASE ev.type = "failed"
    BY <1>1, <1>2, <1>3, <2>1, <2>2, Numbers DEF Window
  <2>3. CASE ev.type # "failed"
    BY <1>1, <1>2, <1>3, <2>3 DEF IInv, Window
  <2> QED  BY <2>2, <2>3
<1> QED  BY <1>1, <1>5, <1>6, <1>7 DEF IInv, InHand, InCall, quantityVars

LEMMA TickStep ==
  ASSUME IInv, Tick
  PROVE  IInv'
<1>1. now' = now + 1 /\ now' \in Times /\ now \in Nat
  BY Numbers DEF Tick, IInv, TypeOK, Times
<1>2. UNCHANGED <<stripe, outbox, sent, sub, applied, told, quantityVars>>
  BY DEF Tick
<1>3. told # None => told \in Nat /\ (told <= now => told <= now + 1)
  BY <1>1 DEF IInv, TypeOK, Times
<1> QED  BY <1>1, <1>2, <1>3 DEF IInv, TypeOK, Newest, Window, InHand, InCall, quantityVars

-----------------------------------------------------------------------------
(* The quantity. *)

LEMMA QuantityStep ==
  ASSUME IInv, Quantity
  PROVE  IInv'
<1>1. UNCHANGED statusVars
  BY DEF Quantity, Register, Unregister, Preview, Read, Charge, Commit, Lose
<1>2. Newest' /\ Window'
  BY <1>1 DEF IInv, Newest, Window, statusVars
<1>3. /\ TypeOK /\ InHand /\ operator \in [Operators -> Request] /\ cameras \in Quantities
      /\ billed \in Quantities /\ charged \in Quantities /\ 0 \in Quantities
      /\ torn \in BOOLEAN /\ credited \in BOOLEAN
  BY Numbers DEF IInv, TypeOK
<1>4. SUFFICES /\ cameras' \in Quantities /\ billed' \in Quantities /\ charged' \in Quantities
               /\ operator' \in [Operators -> Request]
               /\ torn' \in BOOLEAN /\ credited' \in BOOLEAN
               /\ InHand'
  BY <1>1, <1>2 DEF IInv, TypeOK, statusVars
<1>5. CASE Register \/ Unregister
  <2>1. cameras' \in Quantities
    BY <1>3, <1>5, Numbers DEF Register, Unregister, Quantities
  <2>2. UNCHANGED <<billed, charged, operator, torn, credited>>
    BY <1>5 DEF Register, Unregister
  <2> QED  BY <1>3, <2>1, <2>2 DEF InHand, InCall
<1>6. ASSUME NEW o \in Operators, Preview(o) \/ Read(o)
      PROVE  /\ operator' \in [Operators -> Request]
             /\ InCall' = InCall /\ \A p \in InCall : operator'[p] = operator[p]
             /\ UNCHANGED <<cameras, billed, charged, torn, credited>>
  <2>1. operator[o].pc = "idle" /\ UNCHANGED <<cameras, billed, charged, torn, credited>>
    BY <1>6 DEF Preview, Read
  <2>2. PICK r \in Request : operator' = [operator EXCEPT ![o] = r] /\ r.pc # "charged"
    <3> DEFINE q == operator[o]
    <3>1. q \in Request
      BY <1>3
    <3>2. /\ [q EXCEPT !.shown = cameras] \in Request /\ [q EXCEPT !.shown = None] \in Request
          /\ [q EXCEPT !.pc = "read", !.count = cameras, !.quantity = billed] \in Request
          /\ [q EXCEPT !.shown = cameras].pc = "idle" /\ [q EXCEPT !.shown = None].pc = "idle"
          /\ [q EXCEPT !.pc = "read", !.count = cameras, !.quantity = billed].pc = "read"
      BY <1>3, <2>1, <3>1 DEF Request
    <3>3. \/ operator' = [operator EXCEPT ![o] = [q EXCEPT !.shown = cameras]]
          \/ operator' = [operator EXCEPT ![o] = [q EXCEPT !.shown = None]]
          \/ operator' = [operator EXCEPT ![o] =
                [q EXCEPT !.pc = "read", !.count = cameras, !.quantity = billed]]
      BY <1>6 DEF Preview, Read
    <3> HIDE DEF q
    <3> QED  BY <3>2, <3>3
  <2>3. operator'[o] = r /\ \A p \in Operators : p # o => operator'[p] = operator[p]
    BY <1>3, <2>2
  <2> QED  BY <1>3, <2>1, <2>2, <2>3 DEF InCall
<1>7. CASE \E o \in Operators : Preview(o) \/ Read(o)
  BY <1>3, <1>6, <1>7 DEF InHand
<1>8. ASSUME NEW o \in Operators, Charge(o)
      PROVE  /\ charged' \in Quantities /\ operator' \in [Operators -> Request]
             /\ torn' \in BOOLEAN /\ credited' \in BOOLEAN
             /\ UNCHANGED <<cameras, billed>> /\ InHand'
  <2>1. /\ operator[o].pc = "read" /\ operator[o] \in Request
        /\ operator' = [operator EXCEPT ![o] = [operator[o] EXCEPT !.pc = "charged"]]
        /\ charged' = operator[o].count /\ torn' = (InCall # {})
        /\ credited' = (credited \/ (Prorates(operator[o]) /\ operator[o].count < charged))
        /\ UNCHANGED <<cameras, billed>>
    BY <1>3, <1>8 DEF Charge
  <2>2. /\ operator' \in [Operators -> Request] /\ operator'[o].pc = "charged"
        /\ operator'[o].count = operator[o].count
        /\ \A p \in Operators : p # o => operator'[p] = operator[p]
    BY <1>3, <2>1 DEF Request
  <2>3. charged' \in Quantities
    BY <2>1 DEF Request
  <2>4. InCall' = InCall \cup {o}
    BY <2>2 DEF InCall
  <2>5. torn' \in BOOLEAN /\ (~torn' => InCall = {})
    BY <2>1
  <2>6. credited' \in BOOLEAN
    BY <2>1, Zenon
  <2>7. InHand'
    BY <2>1, <2>2, <2>4, <2>5 DEF InHand
  <2> QED  BY <2>1, <2>2, <2>3, <2>5, <2>6, <2>7
<1>9. ASSUME NEW o \in Operators, Commit(o) \/ Lose(o)
      PROVE  /\ operator' \in [Operators -> Request] /\ billed' \in Quantities
             /\ torn' \in BOOLEAN /\ UNCHANGED <<cameras, charged, credited>> /\ InHand'
  <2>1. /\ operator' = [operator EXCEPT ![o] = NoRequest] /\ operator[o] \in Request
        /\ UNCHANGED <<cameras, charged, credited>>
    BY <1>3, <1>9 DEF Commit, Lose
  <2>2. NoRequest \in Request /\ NoRequest.pc = "idle"
    BY Numbers DEF NoRequest, Request
  <2>3. /\ operator' \in [Operators -> Request] /\ InCall' = InCall \ {o}
        /\ \A p \in Operators : p # o => operator'[p] = operator[p]
    BY <1>3, <2>1, <2>2 DEF InCall
  <2>4. CASE Commit(o)
    <3>1. billed' = operator[o].count /\ torn' = torn /\ o \in InCall
      BY <2>4 DEF Commit, InCall
    <3> QED  BY <1>3, <2>1, <2>3, <3>1 DEF InHand, Request
  <2>5. CASE Lose(o)
    <3>1. billed' = billed /\ torn' = (torn \/ o \in InCall)
      BY <2>5 DEF Lose
    <3>2. torn' \in BOOLEAN /\ (~torn' => ~torn /\ o \notin InCall)
      BY <3>1
    <3> QED  BY <1>3, <2>1, <2>3, <3>1, <3>2 DEF InHand
  <2> QED  BY <1>9, <2>1, <2>3, <2>4, <2>5
<1>10. CASE \E o \in Operators : Charge(o)
  BY <1>3, <1>8, <1>10
<1>11. CASE \E o \in Operators : Commit(o) \/ Lose(o)
  BY <1>3, <1>9, <1>11
<1> QED  BY <1>5, <1>7, <1>10, <1>11 DEF Quantity

-----------------------------------------------------------------------------
THEOREM Invariance == Spec => []IInv
<1>1. IInv /\ [Next]_vars => IInv'
  <2> SUFFICES ASSUME IInv, [Next]_vars PROVE IInv'
    OBVIOUS
  <2>0. stripe \in Statuses /\ {"past_due", "active"} \subseteq Statuses
    BY DEF IInv, TypeOK, Statuses
  <2>1. CASE PaymentFails
    BY <2>0, <2>1, OutcomeStep DEF PaymentFails
  <2>2. CASE PaymentSucceeds
    BY <2>0, <2>2, OutcomeStep DEF PaymentSucceeds
  <2>3. CASE UNCHANGED vars
    BY <2>3 DEF IInv, TypeOK, Newest, Window, InHand, InCall, vars, statusVars, quantityVars
  <2> QED
    BY <2>1, <2>2, <2>3, CancelStep, TickStep, DeliverStep, QuantityStep DEF Next, Status
<1> QED  BY <1>1, InitInv, PTL DEF Spec

\* Type correctness of the subscription row, the events and the requests.
THEOREM TypeCorrect == Spec => []TypeOK
<1>1. IInv => TypeOK
  BY DEF IInv
<1> QED  BY <1>1, Invariance, PTL

\* Whatever is delivered twice, late or never, the row says what the service says once
\* the newest event is the one applied last, unless that is the outcome of a charge after
\* the cancellation (billing.py:156-170).
THEOREM RowSaysWhatServiceSays == Spec => []RowFollows
<1>1. IInv => RowFollows
  BY DEF IInv, Newest, Settles, RowFollows
<1> QED  BY <1>1, Invariance, PTL

\* Whatever is delivered twice, late or never, nobody who has been told of a failed
\* payment is shut out for it within the grace window (billing.py:156-158).
THEOREM NobodyShutOutEarly == Spec => []GraceIsGranted
<1>1. IInv => GraceIsGranted
  <2> SUFFICES ASSUME IInv, sub.status = "past_due", told # None, now - told <= Grace
               PROVE  ~ReadOnly
    BY DEF GraceIsGranted
  <2>1. /\ told \in Nat /\ now \in Nat /\ Grace \in Nat /\ sub.graceUntil # None
        /\ sub.graceUntil \in Nat /\ told + Grace <= sub.graceUntil
    BY Numbers DEF IInv, TypeOK, Window, Times, Subscription
  <2>2. ~(now > sub.graceUntil)
    BY <2>1
  <2> QED  BY <2>1, <2>2 DEF ReadOnly
<1> QED  BY <1>1, Invariance, PTL

\* However many operators apply at once and whatever commits are lost, row and service
\* have one quantity again from the next call that meets no other and is committed
\* (billing.py:110-120).
THEOREM RowBilledAlike == Spec => []BilledAlike
<1>1. IInv => BilledAlike
  BY DEF IInv, InHand, BilledAlike
<1> QED  BY <1>1, Invariance, PTL
=============================================================================
