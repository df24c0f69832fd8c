------------------------------ MODULE MCPeople ------------------------------
(* Two accounts with a chat each, and names of three kinds: a common full  *)
(* name, its first word alone, which is too little to merge by, and a      *)
(* number.  The user IDs read like the full name.  The queries are the two *)
(* names, and the name with the number.                                    *)
EXTENDS People, TLC

CONSTANTS a, b, ca, cb, jo, al, num, both

ChatAccounts == (ca :> a) @@ (cb :> b)
ChatActive == (ca :> 1) @@ (cb :> 2)
Numbers == (jo :> None) @@ (al :> None) @@ (num :> num)
Words == (jo :> <<"al", "li">>) @@ (al :> <<"al">>) @@ (num :> <<"555">>)
         @@ (both :> <<"al", "li", "555">>)
WordBegins == {<<w, w>> : w \in {"al", "li", "555"}}
Distances == [x \in Queries \X Texts |-> IF x[1] = x[2] THEN 0 ELSE 3]
NoMatches == {}
=============================================================================
