------------------------------ MODULE MCBackend ------------------------------
(* Small instances of Backend for TLC: s1 and s2 want every file, s3 only x, *)
(* s2 tolerates duplicates, the filter of s3 raises on y; p1 publishes what  *)
(* s1 handles and x from s2, p2 publishes x from both and raises on y of   *)
(* s1, p1 raises on y of s2.                                                 *)
EXTENDS Backend

CONSTANTS s1, s2, s3, p1, p2, x, y, big

MCWants == {<<s1, x>>, <<s1, y>>, <<s2, x>>, <<s2, y>>, <<s3, x>>}
MCRaises == {<<s3, y>>}
MCRoutes == {<<p1, s1, x>>, <<p1, s2, x>>, <<p1, s1, y>>, <<p2, s2, x>>, <<p2, s1, x>>}
MCPubRaises == {<<p2, s1, y>>, <<p1, s2, y>>}

StartTwo == <<s1, s2>>
PubTwo == <<p1, p2>>
PubNone == <<>>
=============================================================================
