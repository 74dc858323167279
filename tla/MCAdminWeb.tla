----------------------------- MODULE MCAdminWeb -----------------------------
(***************************************************************************)
(* Instances of AdminWeb.                                                  *)
(***************************************************************************)
EXTENDS AdminWeb

CONSTANTS shop, blog

MCDbName == [r \in 1 .. MaxRows |-> IF r = 2 THEN blog ELSE shop]
MCSearches == {{shop, blog}, {shop}}
MCPages == {0, 9}
MCLimits == {-1, 0, 1, 2}
==============================================================================
