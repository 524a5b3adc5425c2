------------------------------ MODULE MCNetwork ------------------------------
(***************************************************************************)
(* Two networks and room for one, so that a second one replaces the first. *)
(* How longer lists are ordered decides only which network is tried first; *)
(* it is checked here against what the order is meant to be, for every     *)
(* list of up to three networks.                                           *)
(***************************************************************************)
EXTENDS Network

Three == 1..3
Short == {l \in UNION {[1..n -> [ssid : Three, seen : 0..3]] : n \in Three} :
            \A i, j \in DOMAIN l : i # j => /\ l[i].ssid # l[j].ssid
                                            /\ l[i].seen # l[j].seen \/ l[i].seen = 0}

Place(l, s) == CHOOSE i \in DOMAIN l : l[i].ssid = s

(* Of two other networks, the one joined later comes first; of two never   *)
(* joined, the one that came first.                                        *)
ASSUME MarkedIsByLastSuccess ==
  \A l \in Short : \A s \in Named(l) :
    LET m == Marked(l, s) IN
      /\ Len(m) = Len(l) /\ Named(m) = Named(l) /\ m[1].ssid = s
      /\ \A e, f \in Range(l) :
           e.ssid # s /\ f.ssid # s /\ e # f
             => (Place(m, e.ssid) < Place(m, f.ssid)
                   <=> \/ e.seen > f.seen
                       \/ e.seen = f.seen /\ Place(l, e.ssid) < Place(l, f.ssid))

(* What is tried is what is known and visible, the strongest first.        *)
ASSUME RankedIsByStrength ==
  \A l \in Short : \A heard \in [Three -> 0..2] :
    LET r == Ranked(l, heard) IN
      /\ Range(r) = {s \in Named(l) : heard[s] > 0}
      /\ \A i, j \in DOMAIN r : i < j =>
           \/ heard[r[i]] > heard[r[j]]
           \/ heard[r[i]] = heard[r[j]] /\ Place(l, r[i]) < Place(l, r[j])
=============================================================================
