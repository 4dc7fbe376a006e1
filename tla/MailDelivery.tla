---------------------------- MODULE MailDelivery ----------------------------
(***************************************************************************)
(* What the e-mail queue promises of a mail that was enqueued (worker.go:  *)
(* MaxAttempts; queue.go: a durable, retry-aware work queue): it is tried  *)
(* at most Limit times, one time after the other, and only while the queue *)
(* still has it; a mail the queue has let go of, be it sent, refused for   *)
(* good or lost in a fault, is not taken up again.  In one try the         *)
(* provider is called at most PerTry times, again only one call after the  *)
(* other: the mailer repeats a call that ended in a transient error        *)
(* (mailer.go, withRetry), also one the provider has acted upon.           *)
(*                                                                         *)
(* Nothing is promised of a mail two schedulers doubled.                   *)
(***************************************************************************)
EXTENDS Naturals

CONSTANTS Mails,    \* the mails that may be enqueued
          Limit,    \* how often one of them may be tried
          PerTry    \* how often the provider may be called in one try

VARIABLES stage,    \* of each mail: "new", not in the queue yet, "queued" or "over"
          tries,    \* of each mail: how many tries of it are over
          asks,     \* of each mail: the calls to the provider in the try under way
          doubled   \* the mails two schedulers doubled

vars == <<stage, tries, asks, doubled>>

Init ==
    /\ stage = [m \in Mails |-> "new"]
    /\ tries = [m \in Mails |-> 0]
    /\ asks = [m \in Mails |-> 0]
    /\ doubled = {}

Rest(m) == stage'[m] = stage[m] /\ tries'[m] = tries[m] /\ asks'[m] = asks[m]

\* A mail that is enqueued where no worker can read it is over at once.
Enter(m) ==
    /\ stage[m] = "new" /\ stage'[m] # "new"
    /\ tries'[m] = tries[m] /\ asks'[m] = asks[m]

\* A call that leaves another one to the try.
Ask(m) ==
    /\ stage[m] = "queued" /\ stage'[m] = "queued"
    /\ tries[m] < Limit /\ tries'[m] = tries[m]
    /\ asks'[m] = asks[m] + 1 /\ asks'[m] < PerTry

\* The last call of a try, the first if PerTry is 1.  A mail whose last try failed
\* is not kept.
Try(m) ==
    /\ stage[m] = "queued" /\ tries[m] < Limit
    /\ tries'[m] = tries[m] + 1 /\ asks'[m] = 0
    /\ \/ stage'[m] = "over"
       \/ stage'[m] = "queued" /\ tries'[m] < Limit

LetGo(m) ==
    /\ stage[m] = "queued" /\ stage'[m] = "over"
    /\ tries'[m] = tries[m] /\ asks'[m] = 0

\* A batch of mails is tried in one step, and a crash lets go of several.  Next says
\* nothing of a doubled mail, not even the type of its stage.
Next ==
    /\ doubled \subseteq doubled'
    /\ \A m \in Mails \ doubled' : Rest(m) \/ Enter(m) \/ Ask(m) \/ Try(m) \/ LetGo(m)

Spec == Init /\ [][Next]_vars
=============================================================================
