---------------------------- MODULE MCRangeClient ----------------------------
(* Two approved hosts and one that is not; answers with at most one flaw,     *)
(* bodies from empty to two bytes longer than asked for.                      *)
EXTENDS RangeClient

CONSTANTS hub, store, elsewhere

MCHosts == {hub, store, elsewhere}
MCCalls ==
  [host : {hub, store, elsewhere}, offset : {0, 2}, length : {0, 1, 3, 4},
   expected : {None, 6}, authorization : BOOLEAN]

Good(first, last) ==
  [status |-> "partial", fits |-> TRUE, location |-> None, plain |-> TRUE,
   range |-> [first |-> first, last |-> last, total |-> 6], declared |-> None,
   size |-> last - first + 1]
Intervals == {<<0, 0>>, <<2, 2>>, <<0, 2>>, <<2, 4>>}
Goods == {Good(i[1], i[2]) : i \in Intervals}
Sized == UNION {{[r EXCEPT !.size = n] : n \in 0..r.size + 2} : r \in Goods}
MCResponses ==
  Sized
    \cup {[r EXCEPT !.declared = n] : r \in Goods, n \in {1, 3}}
    \cup {[r EXCEPT !.range.total = n] : r \in Goods, n \in {2, 7}}
    \cup {[r EXCEPT !.range = None] : r \in Goods}
    \cup {[r EXCEPT !.plain = FALSE] : r \in Goods}
    \cup {[r EXCEPT !.fits = FALSE] : r \in Goods}
    \cup {[r EXCEPT !.status = s, !.size = n] :
            r \in {Good(0, 0)}, s \in {"whole", "other"}, n \in {0, 2, 9}}
    \cup {[r EXCEPT !.status = "redirect", !.location = h, !.fits = b] :
            r \in {Good(0, 0)}, h \in MCHosts \cup {None}, b \in BOOLEAN}
=============================================================================
