---------------------------------- MODULE Maps ----------------------------------
(***************************************************************************)
(* Go's maps, as functions: what the components that fill one share.        *)
(***************************************************************************)

\* The map m after m[key] = value.
With(m, key, value) == [k \in DOMAIN m \cup {key} |-> IF k = key THEN value ELSE m[k]]

\* The map m after every entry of new was put into it.
Over(new, m) == [k \in DOMAIN new \cup DOMAIN m |-> IF k \in DOMAIN new THEN new[k] ELSE m[k]]
================================================================================
