---------------------- MODULE MCRevocationPropagation ----------------------
(* Up to two edges out of two objects and one out of two others, so that      *)
(* edges branch, join, return and repeat; one list has too many objects, and  *)
(* what n4 leads to may have one dimension too many.                          *)
EXTENDS RevocationPropagation, TLC

CONSTANTS n1, n2, n3, n4, n5, x, y, z

MCObjects == {n1, n2, n3, n4, n5}
MCDimensions == {x, y, z}
To(S, D) == {[dependent |-> o, dimensions |-> D] : o \in S}
UpTo1(S) == {<<>>} \cup {<<f>> : f \in S}
UpTo2(S) == UpTo1(S) \cup (S \X S)
Lists ==
  {(n1 :> p @@ n2 :> q @@ n3 :> r @@ n4 :> s @@ n5 :> <<>>) :
     p \in UpTo2(To({n2, n3, n4}, {x})), q \in UpTo2(To({n1, n3, n4}, {y})),
     r \in UpTo1(To({n1, n2, n4}, {x})), s \in UpTo1(To({n2}, {x, z}))}
TooMany ==
  n1 :> <<CHOOSE f \in To({n2}, {x}) : TRUE>> @@ n2 :> <<CHOOSE f \in To({n3}, {x}) : TRUE>>
    @@ n3 :> <<>> @@ n4 :> <<CHOOSE f \in To({n5}, {x}) : TRUE>> @@ n5 :> <<>>
MCGraphs == Lists \cup {TooMany}
=============================================================================
