---------------------------- MODULE MCHostUpdate ----------------------------
(* Commits 1 and 2 carry the version of the first release, 3 is the next.  *)
EXTENDS HostUpdate
MCVersion == [c \in Commits |-> IF c < 3 THEN 1 ELSE 3]
MCServices == <<"manager", "caddy", "agents">>
=============================================================================
