--------------------------- MODULE MCRefreshClients ---------------------------
(* RefreshClients with numbers for sessions.  A session's id is random; what  *)
(* it is called makes no difference, so the sessions are numbered in the      *)
(* order in which they are stored.  (Liveness is checked: a symmetry set      *)
(* would not be sound.)                                                       *)
EXTENDS RefreshClients

NumberedInOrder == \A s \in Stored' \ Stored, r \in Fresh' : s < r
===============================================================================
