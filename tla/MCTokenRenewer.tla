---------------------------- MODULE MCTokenRenewer -----------------------------
(* An instance of TokenRenewer: two repositories, the name of one beginning    *)
(* with the name of the other.                                                 *)
EXTENDS TokenRenewer

MCRepos == {"web", "web-api"}
MCExtends == [r \in MCRepos |-> IF r = "web" THEN {"web-api"} ELSE {}]

================================================================================
