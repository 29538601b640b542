------------------------------ MODULE MCHttpd ------------------------------
(* An instance of Httpd: the longest file takes two reads, and an upload    *)
(* two buffers in each of two sectors.                                      *)
EXTENDS Httpd, TLC
CONSTANTS s1, s2, s3
MCFileLen == ("/a.html" :> 3) @@ ("/user.html" :> 1)
Get(url, auth) == [url |-> url, auth |-> auth, clen |-> 0, body |-> "none"]
Post(url, clen, body) == [url |-> url, auth |-> FALSE, clen |-> clen, body |-> body]
All ==
    {Get("/a.html", FALSE), Get("/some.json", FALSE), Post("/some.json", 1, "submit"),
     Post("/nowhere", 2, "none"), Post("/flash/upload", 3, "new"), Post("/flash/upload", 2, "bad")}
MCRequests == s1 :> All @@ s2 :> All @@ s3 :> {Get("/nowhere", FALSE)}

=============================================================================
