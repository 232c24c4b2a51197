------------------------------- MODULE Billing -------------------------------
(***************************************************************************)
(* cloud/whaletale_cloud/billing.py: the subscription row of a site.       *)
(*                                                                         *)
(* Its status follows the events of the payment service (handle_webhook),  *)
(* and the console is read-only by it (is_read_only).  The service is      *)
(* external: it sends events as payments fail, succeed or the customer     *)
(* cancels, an open invoice after that too, and delivers them in any order *)
(* and any number of times.  A delivery is one step: the handler is a      *)
(* coroutine that does not yield while it holds the row.                   *)
(*                                                                         *)
(* Its quantity follows the cameras (preview_change, apply_change): an     *)
(* operator's apply reads the row and the cameras, calls the service and   *)
(* commits; anything may happen in between, other applies too, and the     *)
(* commit may be lost.                                                     *)
(***************************************************************************)
EXTENDS Integers

CONSTANTS
    Grace,              \* billing_grace_days
    Operators,
    MaxTime,            \* bounds the clock
    MaxEvents,          \* bounds the events of the service
    MaxCameras,         \* bounds the cameras of the site
    None

ASSUME BillingAssumption ==
    /\ Grace \in Nat /\ MaxTime \in Nat /\ MaxEvents \in Nat
    /\ MaxCameras \in Nat \ {0} /\ None \notin Int

Times == 0 .. MaxTime
Statuses == {"active", "past_due", "canceled"}
Quantities == 0 .. MaxCameras

VARIABLES
    now,
    stripe,             \* the status the service has for the subscription
    outbox,             \* events that may still be delivered
    sent,               \* how many there have been
    sub,                \* status and grace_until of the subscriptions row
    cameras,            \* rows of the cameras table
    billed,             \* camera_quantity of the subscriptions row
    charged,            \* the quantity of the subscription at the service
    operator,           \* what each operator's request has got to
    \* kept for the properties
    applied,            \* the event applied last
    told,               \* the first failure since a payment
    torn,               \* the last call to the service met another or lost its commit
    credited            \* whether the service has paid anything back

statusVars == <<now, stripe, outbox, sent, sub, applied, told>>
quantityVars == <<cameras, billed, charged, operator, torn, credited>>
vars == <<statusVars, quantityVars>>

\* An event, numbered in the order the service creates them, with the status the
\* subscription has at that moment.
Event == [n : 0 .. MaxEvents, type : {"failed", "paid", "updated", "deleted"}, status : Statuses]
Subscription == [status : Statuses, graceUntil : Nat \cup {None}]
Request == [pc : {"idle", "read", "charged"}, shown : Quantities \cup {None},
            count : Quantities, quantity : Quantities]

NoRequest == [pc |-> "idle", shown |-> None, count |-> 0, quantity |-> 0]

StatusInit ==
    /\ now = 0
    /\ stripe = "active" /\ outbox = {} /\ sent = 0
    /\ sub = [status |-> "active", graceUntil |-> None]
    /\ applied = [n |-> 0, type |-> "updated", status |-> "active"]
    /\ told = None

QuantityInit ==
    /\ cameras = 1 /\ billed = 1 /\ charged = 1
    /\ operator = [o \in Operators |-> NoRequest]
    /\ torn = FALSE /\ credited = FALSE

Init == StatusInit /\ QuantityInit

-----------------------------------------------------------------------------
(* The status. *)

Mail(n, type, status) == [n |-> n, type |-> type, status |-> status]

\* A charge has an outcome, and if that changes the subscription an update follows.
Outcome(type, status) ==
    /\ sent' = sent + (IF status = stripe THEN 1 ELSE 2)
    /\ sent' <= MaxEvents
    /\ outbox' = outbox \cup {Mail(sent + 1, type, status),
                               Mail(sent', IF status = stripe THEN type ELSE "updated", status)}
    /\ stripe' = status
    /\ UNCHANGED <<now, sub, applied, told, quantityVars>>

\* The charge may be a retry, or of an invoice a canceled subscription left open.
PaymentFails == Outcome("failed", IF stripe = "canceled" THEN stripe ELSE "past_due")
PaymentSucceeds == Outcome("paid", IF stripe = "canceled" THEN stripe ELSE "active")

Cancel ==
    /\ stripe # "canceled" /\ sent < MaxEvents
    /\ sent' = sent + 1
    /\ outbox' = outbox \cup {Mail(sent + 1, "deleted", "canceled")}
    /\ stripe' = "canceled"
    /\ UNCHANGED <<now, sub, applied, told, quantityVars>>

Tick ==
    /\ now < MaxTime
    /\ now' = now + 1
    /\ UNCHANGED <<stripe, outbox, sent, sub, applied, told, quantityVars>>

\* Mutant: the status is set and the window is not.
AppliedWithoutGrace(ev) ==
    CASE ev.type = "failed"  -> [sub EXCEPT !.status = "past_due"]
      [] ev.type = "paid"    -> [status |-> "active", graceUntil |-> None]
      [] ev.type = "updated" -> [sub EXCEPT !.status = ev.status]
      [] ev.type = "deleted" -> [sub EXCEPT !.status = "canceled"]

\* Mutant: a canceled subscription is closed by the next update only.
AppliedWithoutDelete(ev) ==
    CASE ev.type = "failed"  -> [status |-> "past_due", graceUntil |-> now + Grace]
      [] ev.type = "paid"    -> [status |-> "active", graceUntil |-> None]
      [] ev.type = "updated" -> [sub EXCEPT !.status = ev.status]
      [] ev.type = "deleted" -> sub

\* The body of handle_webhook.
Applied(ev) ==
    CASE ev.type = "failed"  -> [status |-> "past_due", graceUntil |-> now + Grace]
      [] ev.type = "paid"    -> [status |-> "active", graceUntil |-> None]
      [] ev.type = "updated" -> [sub EXCEPT !.status = ev.status]
      [] ev.type = "deleted" -> [sub EXCEPT !.status = "canceled"]

\* Any event on its way, which may come once more.
Deliver(ev) ==
    /\ sub' = Applied(ev)
    /\ outbox' \in {outbox, outbox \ {ev}}
    /\ applied' = ev
    /\ told' = CASE ev.type = "failed" /\ told = None -> now
                 [] ev.type = "paid" -> None
                 [] OTHER -> told
    /\ UNCHANGED <<now, stripe, sent, quantityVars>>

-----------------------------------------------------------------------------
(* The quantity. *)

Register ==
    /\ cameras < MaxCameras
    /\ cameras' = cameras + 1
    /\ UNCHANGED <<billed, charged, operator, torn, credited, statusVars>>

Unregister ==
    /\ cameras > 0
    /\ cameras' = cameras - 1
    /\ UNCHANGED <<billed, charged, operator, torn, credited, statusVars>>

\* preview_change.
Preview(o) ==
    /\ operator[o].pc = "idle"
    /\ operator' = [operator EXCEPT ![o].shown = cameras]
    /\ UNCHANGED <<cameras, billed, charged, torn, credited, statusVars>>

\* The row and the count are read; nothing to do if they agree.
Read(o) ==
    /\ operator[o].pc = "idle" /\ operator[o].shown # None
    /\ IF cameras = billed
       THEN operator' = [operator EXCEPT ![o].shown = None]
       ELSE operator' = [operator EXCEPT ![o].pc = "read", ![o].count = cameras, ![o].quantity = billed]
    /\ UNCHANGED <<cameras, billed, charged, torn, credited, statusVars>>

\* Only an increase is prorated.
Prorates(r) == r.count > r.quantity

InCall == {o \in Operators : operator[o].pc = "charged"}

\* set_quantity.
Charge(o) ==
    LET r == operator[o] IN
    /\ r.pc = "read"
    /\ charged' = r.count
    /\ credited' = (credited \/ (Prorates(r) /\ r.count < charged))
    /\ operator' = [operator EXCEPT ![o].pc = "charged"]
    /\ torn' = (InCall # {})
    /\ UNCHANGED <<cameras, billed, statusVars>>

\* Mutant: the row keeps its quantity.
CommitNothing(o) ==
    /\ operator[o].pc = "charged"
    /\ operator' = [operator EXCEPT ![o] = NoRequest]
    /\ UNCHANGED <<cameras, billed, charged, torn, credited, statusVars>>

Commit(o) ==
    /\ operator[o].pc = "charged"
    /\ billed' = operator[o].count
    /\ operator' = [operator EXCEPT ![o] = NoRequest]
    /\ UNCHANGED <<cameras, charged, torn, credited, statusVars>>

\* The service does not answer, be it before or after it took the quantity, the process
\* ends or the database is gone: the transaction is rolled back.
Lose(o) ==
    /\ operator[o].pc \in {"read", "charged"}
    /\ operator' = [operator EXCEPT ![o] = NoRequest]
    /\ torn' = (torn \/ o \in InCall)
    /\ UNCHANGED <<cameras, billed, charged, credited, statusVars>>

Status == \/ PaymentFails \/ PaymentSucceeds \/ Cancel \/ Tick
          \/ \E ev \in outbox : Deliver(ev)

Quantity == \/ Register \/ Unregister
            \/ \E o \in Operators : Preview(o) \/ Read(o) \/ Charge(o) \/ Commit(o) \/ Lose(o)

Next == Status \/ Quantity

Spec == Init /\ [][Next]_vars

\* A constraint for runs: the two parts share no variable, so what one of them can do it
\* does while the other has not moved.
OnePart == StatusInit \/ QuantityInit
-----------------------------------------------------------------------------
\* is_read_only.
ReadOnly ==
    \/ sub.status = "canceled"
    \/ sub.status = "past_due" /\ (sub.graceUntil = None \/ now > sub.graceUntil)

TypeOK ==
    /\ now \in Times /\ stripe \in Statuses
    /\ outbox \subseteq Event /\ applied \in Event /\ sent \in 0 .. MaxEvents
    /\ sub \in Subscription /\ (sub.graceUntil # None => sub.graceUntil <= MaxTime + Grace)
    /\ told \in Times \cup {None}
    /\ cameras \in Quantities /\ billed \in Quantities /\ charged \in Quantities
    /\ operator \in [Operators -> Request]
    /\ torn \in BOOLEAN /\ credited \in BOOLEAN

\* Whatever came twice or overtook what: once the service's newest event is the one
\* applied last, the row says what the service says, so a payment opens the console
\* again and a cancellation closes it (billing.py:156-170).  Excepted is the outcome of
\* a charge after the cancellation, which opens the row again (CanceledStays).
RowFollows ==
    applied.n = sent /\ ~(applied.type \in {"failed", "paid"} /\ applied.status = "canceled")
        => sub.status = stripe

\* billing.py:78, "A site goes read-only only after the grace window has fully
\* elapsed": whatever else is delivered, twice or late, a site that has been told of a
\* failed payment, and of none since that succeeded, is not shut out for it before
\* (billing.py:156-158).  A past_due status that arrives before any failure (told is
\* None) shuts at once, and is excepted (ShutOnlyAfterGrace).
GraceIsGranted ==
    sub.status = "past_due" /\ told # None /\ now - told <= Grace => ~ReadOnly

\* billing.py:3, "The billed quantity is always the number of cameras rows": while no
\* apply is between its call to the service and its commit, row and service have the
\* same quantity, so that an apply which finds nothing to do leaves a site that is
\* billed right (billing.py:110-120).  Excepted is the time after a call that was made
\* while another apply had not committed, or whose own commit was lost, until the next
\* call: reading the row at once does no harm to this, only overlapping calls do.
BilledAlike == ~torn /\ InCall = {} => billed = charged

-----------------------------------------------------------------------------
(* What the documents say and the code does not keep. *)

\* cloud/whaletale_cloud/billing.py:8, "A failed payment starts a grace window; after
\* it, operator writes go read-only".
GraceEnds ==
    sub.status = "past_due" /\ told # None /\ now - told > Grace => ReadOnly

\* The same line as GraceIsGranted, of every past_due status.
ShutOnlyAfterGrace ==
    ReadOnly /\ sub.status = "past_due" => told # None /\ now - told > Grace

\* A subscription the service has canceled stays closed once the row says so.
CanceledStays == [][sub.status = "canceled" /\ stripe = "canceled" => ReadOnly']_vars

\* The billed quantity is that of the service, whatever has been lost or overlapped.
BilledAlikeAlways == InCall = {} => billed = charged

\* docs/edge-cases.md:68, "Camera removed, prorate down next period, no mid-period
\* refund": nothing is paid back.  Two operators, or a lost commit, make a decrease at
\* the service look like an increase (billing.py:115-117).
NoRefund == ~ credited

\* docs/edge-cases.md:67, "show prorated change before confirming, never charge
\* silently": what is charged is what was shown.
ChargedAsShown ==
    [][\A o \in Operators :
          operator[o].pc = "read" /\ operator'[o].pc = "charged" /\ operator[o].count > charged
              => operator[o].count = operator[o].shown]_vars
=============================================================================
