--------------------------- MODULE EchoDictionary ---------------------------
(***************************************************************************)
(* What EchoClient does with Swift dictionaries, be they labels or         *)
(* configurations.  A dictionary is a function from its keys to values.    *)
(***************************************************************************)
EXTENDS Functions

(* d.merge(e): every key of e is set in d.                                 *)
Merge(d, e) ==
    [k \in DOMAIN d \cup DOMAIN e |-> IF k \in DOMAIN e THEN e[k] ELSE d[k]]

(* d[key] = value                                                          *)
Put(d, key, value) ==
    [k \in DOMAIN d \cup {key} |-> IF k = key THEN value ELSE d[k]]

(* The dictionary with the keys of ks removed.                             *)
Without(d, ks) == Restrict(d, DOMAIN d \ ks)
=============================================================================
