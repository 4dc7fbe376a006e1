---------------------------- MODULE SessionPolicy ----------------------------
(***************************************************************************)
(* What a share link promises about its sessions (the comments of          *)
(* link/session.go and of migration 047): a session opens the link only    *)
(* for a visitor who passed the gates and rules that are in force now, so  *)
(* one change of them closes every session at once, and a visitor whose    *)
(* request was under way when they changed does not come in on the old     *)
(* ones.                                                                   *)
(*                                                                         *)
(* An edit that takes back the changes made while it was open confuses the *)
(* visits of that moment; nothing is promised of them until they have come *)
(* in anew.                                                                *)
(***************************************************************************)
CONSTANT Visits

VARIABLES open,     \* the visits whose session opens the link
          asking,   \* those on their way in under the present gates and rules
          doubtful  \* those an edit has confused

vars == <<open, asking, doubtful>>

TypeOK == open \subseteq Visits /\ asking \subseteq Visits /\ doubtful \subseteq Visits

Init == open = {} /\ asking = {} /\ doubtful = {}

Ask(v) ==
    /\ v \notin open
    /\ asking' = asking \cup {v}
    /\ UNCHANGED <<open, doubtful>>

GiveUp(v) ==
    /\ asking' = asking \ {v}
    /\ UNCHANGED <<open, doubtful>>

Enter(v) ==
    /\ v \in asking
    /\ open' = open \cup {v}
    /\ asking' = asking \ {v}
    /\ doubtful' = doubtful \ {v}

\* Let in on gates and rules of before: the session is out of date.
EnterLate(v) ==
    /\ v \notin asking
    /\ \/ open' = open \ {v}
       \/ v \in doubtful /\ open' = open \cup {v}
    /\ UNCHANGED <<asking, doubtful>>

Leave(v) ==
    /\ open' = open \ {v}
    /\ UNCHANGED <<asking, doubtful>>

Reconfigure ==
    /\ open' \in SUBSET doubtful
    /\ asking' = {}
    /\ UNCHANGED doubtful

Confuse ==
    /\ doubtful' \in SUBSET Visits
    /\ open' \in SUBSET doubtful'
    /\ asking' = {}

Next ==
    \/ \E v \in Visits : \/ Ask(v) \/ GiveUp(v) \/ Enter(v) \/ EnterLate(v) \/ Leave(v)
    \/ Reconfigure \/ Confuse

Spec == Init /\ [][Next]_vars
=============================================================================
