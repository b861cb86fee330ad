------------------------------- MODULE Objects -------------------------------
(***************************************************************************)
(* JSON objects, whose fields may be absent: functions on the names of the *)
(* fields that are there.  The operators are those of the module TLC, by   *)
(* definitions that can be reasoned about.                                 *)
(***************************************************************************)

(* The object with one field.                                              *)
OneField(name, value) == [x \in {name} |-> value]
name :> value == OneField(name, value)

(* The fields of two objects, those of the first where both have one.      *)
Merged(f, g) ==
  [x \in (DOMAIN f) \cup (DOMAIN g) |-> IF x \in DOMAIN f THEN f[x] ELSE g[x]]
f @@ g == Merged(f, g)

=============================================================================
