----------------------- MODULE ConfigurationCatalogue -----------------------
(***************************************************************************)
(* What the configuration calls promise a client, whatever happens inside  *)
(* the service: there is one list of configurations, each successful call  *)
(* edits it at one name, and a call that fails leaves it open whether its  *)
(* edit took place.  candidates are the lists that may be in force; lost   *)
(* says that the file may have been emptied, so that the empty list may be *)
(* in force too.                                                           *)
(***************************************************************************)
CONSTANT InitialLists

VARIABLES candidates, lost

Known == candidates \cup (IF lost THEN {{}} ELSE {})

\* m is l with at most one name added, removed or replaced.
OneEdit(l, m) == \A c, d \in (l \ m) \cup (m \ l) : c.name = d.name

Init == (\E l \in InitialLists : candidates = {l}) /\ lost = FALSE

\* A call succeeds: its edit of the list in force is now the only candidate.
Acknowledge ==
    /\ \E m \in candidates' :
          candidates' = {m} /\ \E l \in Known : OneEdit(l, m)
    /\ lost' = FALSE

\* A call fails, or is never answered, after its edit was written.
Doubt ==
    /\ \E m \in candidates' :
          candidates' = candidates \cup {m} /\ \E l \in Known : OneEdit(l, m)
    /\ lost' \in {lost, TRUE}

Lose == lost' = TRUE /\ UNCHANGED candidates

\* The service has rewritten the file from its store.
Recover == lost' = FALSE /\ UNCHANGED candidates

Next == Acknowledge \/ Doubt \/ Lose \/ Recover

Spec == Init /\ [][Next]_<<candidates, lost>>
=============================================================================
