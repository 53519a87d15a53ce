------------------------------- MODULE Waiting -------------------------------
(***************************************************************************)
(* What the wait table promises to those who wait.  A registration is told *)
(* together with all others of its key, stays told until it leaves, and    *)
(* leaves only when it was told.  Who comes while others that were told    *)
(* have not left is told at once.  How listeners are counted and when an   *)
(* entry is made or deleted does not show.                                 *)
(***************************************************************************)
CONSTANTS
    Registration, \* who waits, and for what
    KeyOf         \* the key of a registration: a function

VARIABLES
    listening,    \* the registrations that have not left
    told          \* those of them whose channel is closed
waits == <<listening, told>>

Alike(r, s) == KeyOf[r] = KeyOf[s]

Init == listening = {} /\ told = {}

Join(r) ==
    /\ r \notin listening
    /\ listening' = listening \cup {r}
    /\ told' = told \cup {s \in {r} : \E t \in told : Alike(s, t)}

Tell ==
    /\ told \subseteq told' /\ told' \subseteq listening
    /\ \A r, s \in listening : Alike(r, s) => (r \in told' <=> s \in told')
    /\ UNCHANGED listening

Leave(r) ==
    /\ r \in told
    /\ listening' = listening \ {r} /\ told' = told \ {r}

\* The process restarts
Forget == listening' = {} /\ told' = {}

Next ==
    \/ Tell \/ Forget
    \/ \E r \in listening' \ listening : r \in Registration /\ Join(r)
    \/ \E r \in told : Leave(r)

Spec == Init /\ [][Next]_waits
=============================================================================
