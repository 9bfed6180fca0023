----------------------------- MODULE MCSessions -----------------------------
EXTENDS Sessions
CONSTANTS u1, d1, d2, c1, c2
OneUser == [d \in {d1, d2} |-> u1]
TwoWants == [d \in {d1, d2} |-> IF d = d1 THEN "name" ELSE "msg"]
=============================================================================
