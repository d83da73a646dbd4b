----------------------------- MODULE LinkContract -----------------------------
(* What both services promise about links: a create makes one link and, with *)
(* an idempotency key, binds the key to it for good; an update names the     *)
(* version the link is at, changes the url and counts the version, so that   *)
(* of two updates that name one version the second is refused; a disable is  *)
(* for ever; nothing is deleted and an expiry never moves.  Each is one      *)
(* step, whoever serves it.                                                  *)
EXTENDS Integers

CONSTANTS Codes, Urls, Keys, Expiries, Versions
VARIABLES links, keys

Init == links = << >> /\ keys = << >>

With(f, x, value) == [y \in DOMAIN f \cup {x} |-> IF y = x THEN value ELSE f[y]]

Create(c, url, expires) ==
    /\ c \notin DOMAIN links
    /\ links' = With(links, c, [url |-> url, expires |-> expires,
                                disabled |-> FALSE, version |-> 1, named |-> 0])
    /\ \/ UNCHANGED keys
       \/ \E k \in Keys \ DOMAIN keys : keys' = With(keys, k, c)

Update(c, url, v) ==
    /\ links[c].version = v
    /\ links' = [links EXCEPT ![c].url = url, ![c].version = @ + 1, ![c].named = v]
    /\ UNCHANGED keys

Disable(c) == links' = [links EXCEPT ![c].disabled = TRUE] /\ UNCHANGED keys

Next == \/ \E c \in Codes, url \in Urls, e \in Expiries : Create(c, url, e)
        \/ \E c \in DOMAIN links : Disable(c) \/ \E url \in Urls, v \in Versions : Update(c, url, v)

Spec == Init /\ [][Next]_<<links, keys>>
===============================================================================
