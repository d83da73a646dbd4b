--------------------------- MODULE MCGraphValidate ---------------------------
(* Every list of up to three tasks over three names and one unknown one. *)
EXTENDS GraphValidate

MCNames == {"a", "b", "c", "z"}
MCDepLists == UNION {[1..k -> {"a", "b", "c"}] : k \in 0..2} \cup {<<"z">>}
==============================================================================
