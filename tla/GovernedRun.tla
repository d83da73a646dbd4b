----------------------------- MODULE GovernedRun -----------------------------
(***************************************************************************)
(* What human governance of a run means, with nothing of how the engine    *)
(* brings it about: a run works while it is open; it asks one question at  *)
(* a time and does nothing until it is answered; the answer "no" ends it;  *)
(* the mainline is merged once, on the answer "yes" to the release.        *)
(***************************************************************************)
VARIABLES phase,       \* "open", "asked", "closed", or "merged" when it ended
                       \* with the change in the mainline
          question,    \* what is asked: "gate", "release", or "none"
          answer,      \* "none", "approved" or "rejected"
          busy,        \* is some work in flight
          main         \* is the change in the mainline

gvars == <<phase, question, answer, busy, main>>

Init ==
    /\ phase = "open"
    /\ question = "none"
    /\ answer = "none"
    /\ busy = FALSE
    /\ main = FALSE

Work ==
    /\ phase = "open"
    /\ busy' \in BOOLEAN
    /\ UNCHANGED <<phase, question, answer, main>>

Ask(q) ==
    /\ phase = "open"
    /\ ~busy
    /\ phase' = "asked"
    /\ question' = q
    /\ UNCHANGED <<answer, busy, main>>

Answer(a) ==
    /\ phase = "asked"
    /\ answer = "none"
    /\ answer' = a
    /\ UNCHANGED <<phase, question, busy, main>>

\* The question has served its purpose.
Leave(to) ==
    /\ phase' = to
    /\ question' = "none"
    /\ answer' = "none"
    /\ UNCHANGED <<busy, main>>

Continue ==
    /\ phase = "asked"
    /\ question = "gate"
    /\ answer = "approved"
    /\ Leave("open")

Merge ==
    /\ phase = "asked"
    /\ question = "release"
    /\ answer = "approved"
    /\ main' = TRUE
    /\ UNCHANGED <<phase, question, answer, busy>>

\* An approved release ends the run, merged or left for review; work ends it
\* without a question; a refusal ends it before anything else happens.
Close ==
    \/ phase = "open" /\ Leave("closed")
    \/ phase = "asked" /\ answer = "rejected" /\ Leave("closed")
    \/ /\ phase = "asked"
       /\ question = "release"
       /\ answer = "approved"
       /\ Leave(IF main THEN "merged" ELSE "closed")

Next ==
    \/ Work \/ Continue \/ Merge \/ Close
    \/ \E q \in {"gate", "release"} : Ask(q)
    \/ \E a \in {"approved", "rejected"} : Answer(a)

Spec == Init /\ [][Next]_gvars
==============================================================================
